----------------------------- MODULE SleepClock -----------------------------
(***************************************************************************)
(* The sleep queue of kernel/sched.c against the absolute tick counter of  *)
(* kernel/pit.c.  get_ticks() is 64 bits wide, thread_t.wake_tick only 32  *)
(* (include/sched.h), so sched_thread_sleep stores the deadline modulo     *)
(* 2^Width.  Module Sched keeps the deadline relative to the counter; this *)
(* module shows for how long that is the same thing.                       *)
(***************************************************************************)
EXTENDS Integers, Sequences, FiniteSets, SequencesExt

CONSTANTS
  Threads,
  Sleeps,      \* the numbers of ticks asked for
  Width,       \* bits of wake_tick; 32
  MaxTicks     \* bound on the tick counter

VARIABLES
  ticks,       \* get_ticks()
  sleepq,      \* from thread_sleep_head
  wake_tick,
  due          \* the deadline that was asked for, in full width

vars == <<ticks, sleepq, wake_tick, due>>

Init ==
  /\ ticks = 0 /\ sleepq = <<>>
  /\ wake_tick = [t \in Threads |-> 0] /\ due = [t \in Threads |-> 0]

\* sleepq_insert: before the head if it is strictly earlier, otherwise behind
\* the last of the following entries that is not later.
sleepq_insert(t, w) ==
  LET later == {k \in 1 .. Len(sleepq) : wake_tick[sleepq[k]] > w}
  IN IF later = {} THEN Append(sleepq, t) ELSE InsertAt(sleepq, Min(later), t)

sched_thread_sleep(t, n) ==
  LET w == (ticks + n) % 2^Width
  IN /\ t \notin Range(sleepq)
     /\ wake_tick' = [wake_tick EXCEPT ![t] = w]
     /\ due' = [due EXCEPT ![t] = ticks + n]
     /\ sleepq' = sleepq_insert(t, w)
     /\ UNCHANGED ticks

\* increment_ticks, then the loop of sched_on_tick: it stops at the first
\* entry that is still in the future.
sched_on_tick ==
  LET future == {k \in 1 .. Len(sleepq) : wake_tick[sleepq[k]] > ticks'}
      k      == IF future = {} THEN Len(sleepq) + 1 ELSE Min(future)
  IN /\ ticks < MaxTicks
     /\ ticks' = ticks + 1
     /\ sleepq' = SubSeq(sleepq, k, Len(sleepq))
     /\ UNCHANGED <<wake_tick, due>>

Next ==
  \/ sched_on_tick
  \/ \E t \in Threads, n \in Sleeps : sched_thread_sleep(t, n)

Spec == Init /\ [][Next]_vars

-----------------------------------------------------------------------------
(* What the comment on the loop of sched_on_tick promises.                  *)

\* sched_on_tick wakes "all threads whose deadline has passed" and no other:
\* a thread that leaves the queue has slept as long as it asked to.
WokenOnlyWhenDue ==
  [][\A t \in Threads : t \in Range(sleepq) /\ t \notin Range(sleepq)' => due[t] <= ticks']_vars

=============================================================================
