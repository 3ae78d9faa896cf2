------------------------------- MODULE Sched -------------------------------
(***************************************************************************)
(* The process and thread scheduler of kernel/sched.c with the system      *)
(* calls that drive it (kernel/sys/fork.c, wait.c, exit.c, yield.c and the *)
(* address-space swap of exec.c) and the tail of kmain.                    *)
(*                                                                         *)
(* Atomicity.  The machine has one CPU and every vector is an interrupt    *)
(* gate, so a system call runs with interrupts off and is one step up to   *)
(* its own "int $0x81".  Kernel-mode threads run with interrupts on: the   *)
(* timer may strike between their irq_restore and sched_thread_yield, and  *)
(* between "sched_pending = 1" and "int $0x81".  pc[t] tells these points  *)
(* apart: "code", "yield" (about to set sched_pending), "int" (about to    *)
(* execute the interrupt).                                                 *)
(*                                                                         *)
(* Data left out: exit codes, names, register frames and the descriptor    *)
(* lists (module FdTable).  pid = slot number, as in proc_alloc.  A        *)
(* process has an address space iff its context is not CTX_KERNEL, so the  *)
(* context is no variable of its own.  wake_tick is kept relative to       *)
(* get_ticks() (module SleepClock keeps the absolute 32-bit value).        *)
(***************************************************************************)
EXTENDS Integers, Sequences, FiniteSets, FiniteSetsExt, Lists

\* A definition M_X is X with a mistake in it; no other definition uses it.

CONSTANTS
  PROCS,                 \* process_pool_count
  THREADS,               \* thread_pool_count
  MMS,                   \* slots of the mm pool
  RR_SCHEDULER_CADENCE,
  Sleeps,                \* the sched_thread_sleep arguments tried
  Waits,                 \* the waitpid filters tried: pids and ANY
  SELFTEST,              \* kmain calls start_waitpid_selftest before sti
  SIBLINGS               \* processes whose kernel threads start sibling threads

Pid == 0 .. PROCS - 1
Tid == 0 .. THREADS - 1
Mm  == 0 .. MMS - 1

NULL == -1               \* a null pointer; also CR3 = the kernel's own PD
ANY  == -1               \* (pid_t)-1 / WAIT_ANY
NONE == -2               \* WAIT_NONE
IDLE == 0                \* slot of the idle process and of its thread

ASSUME SizesAssumption ==
  /\ PROCS \in Nat /\ THREADS \in Nat /\ MMS \in Nat
  /\ SELFTEST \in BOOLEAN /\ SIBLINGS \subseteq Pid
  /\ PROCS >= (IF SELFTEST THEN 4 ELSE 2)
  /\ THREADS >= (IF SELFTEST THEN 4 ELSE 2)
  /\ RR_SCHEDULER_CADENCE \in Nat \ {0}
  /\ Sleeps \subseteq Nat /\ Waits \subseteq Pid \cup {ANY}

VARIABLES
  \* process_t, by slot
  pstate, parent, children, thread_list, main_thread, waiters,
  live_thread_count, addr_space,
  \* thread_t, by slot; pc, cont, match_pid and mode are the thread's
  \* position in the code: what it does after the yield, the filter of the
  \* waitpid it is in, and the ring it runs in
  tstate, tproc, wait_for, wake_tick, pc, cont, match_pid, mode,
  \* the scheduler's globals; runq is the circular list from thread_head
  thread_current, runq, sleepq, sched_pending, rr_ticks_left, next_tid,
  \* live mm slots, the loaded CR3, a kernel panic, how far kmain got and its p
  mms, cr3, panicked, boot, testproc

procVars   == <<pstate, parent, children, addr_space, mms>>
listVars   == <<thread_list, main_thread, live_thread_count>>
waitVars   == <<waiters, wait_for>>
placeVars  == <<cont, match_pid, mode>>
cpuVars    == <<thread_current, sched_pending, cr3>>
sleepVars  == <<sleepq, wake_tick>>
kmainVars  == <<boot, testproc>>
vars == <<procVars, listVars, waitVars, placeVars, cpuVars, sleepVars, kmainVars,
          rr_ticks_left, tstate, tproc, pc, runq, next_tid, panicked>>

\* The only sequence that keeps, in order, the elements of s outside R.
Without(s, R) ==
  LET keep == {i \in DOMAIN s : s[i] \notin R}
  IN {[i \in DOMAIN f |-> s[f[i]]] :
        f \in {g \in UNION {[1 .. n -> keep] : n \in 0 .. Len(s)} :
                 /\ \A i, j \in DOMAIN g : i < j => g[i] < g[j]
                 /\ \A k \in keep : \E i \in DOMAIN g : g[i] = k}}

-----------------------------------------------------------------------------
(* Initial state: sched_init has made the idle process and its thread.      *)
(* With SELFTEST, start_waitpid_selftest has also made a kernel process 1   *)
(* with the children 2 and 3, one thread each, before interrupts are on.    *)

Booted == IF SELFTEST THEN 0 .. 3 ELSE {IDLE}

Init ==
  /\ pstate = [p \in Pid |-> IF p \in Booted THEN "ALIVE" ELSE "UNUSED"]
  /\ parent = [p \in Pid |-> IF p \in Booted \cap {2, 3} THEN 1 ELSE NULL]
  /\ children = [p \in Pid |-> IF SELFTEST /\ p = 1 THEN <<2, 3>> ELSE <<>>]
  /\ thread_list = [p \in Pid |-> IF p \in Booted THEN <<p>> ELSE <<>>]
  /\ main_thread = [p \in Pid |-> IF p \in Booted THEN p ELSE NULL]
  /\ waiters = [p \in Pid |-> <<>>]
  /\ live_thread_count = [p \in Pid |-> IF p \in Booted THEN 1 ELSE 0]
  /\ addr_space = [p \in Pid |-> NULL]
  /\ tstate = [t \in Tid |-> IF t \in Booted THEN "RUNNABLE" ELSE "UNUSED"]
  /\ tproc = [t \in Tid |-> IF t \in Booted THEN t ELSE NULL]
  /\ wait_for = [t \in Tid |-> NONE]
  /\ wake_tick = [t \in Tid |-> 0]
  /\ pc = [t \in Tid |-> "code"]
  /\ cont = [t \in Tid |-> "run"]
  /\ match_pid = [t \in Tid |-> ANY]
  /\ mode = [t \in Tid |-> "kernel"]
  /\ thread_current = NULL
  /\ runq = IF SELFTEST THEN <<0, 1, 2, 3>> ELSE <<IDLE>>
  /\ sleepq = <<>>
  /\ sched_pending = FALSE
  /\ rr_ticks_left = RR_SCHEDULER_CADENCE
  /\ next_tid = (IF SELFTEST THEN 4 ELSE 1) % THREADS
  /\ mms = {}
  /\ cr3 = NULL
  /\ boot = "alloc" /\ testproc = NULL
  /\ panicked = FALSE

-----------------------------------------------------------------------------
(* Slots and queues.                                                        *)

M_FreeProcs == {p \in Pid : pstate[p] # "ALIVE"}
FreeProcs == {p \in Pid : pstate[p] = "UNUSED"}
M_FreeThreads == {t \in Tid : tstate[t] \in {"UNUSED", "ZOMBIE"}}
FreeThreads == {t \in Tid : tstate[t] = "UNUSED"}
FreeMms == Mm \ mms

alloc_process_slot == Min(FreeProcs)

\* The first free slot at or after next_tid, wrapping around.
alloc_thread_slot ==
  LET slot(k) == (next_tid + k) % THREADS
  IN slot(Min({k \in Tid : slot(k) \in FreeThreads}))

\* The first RUNNABLE thread of the circular run queue, given the thread
\* states ts, from the successor of thread_current (from thread_head when
\* there is none) all the way round to thread_current itself.
M_next_runnable(ts) ==
  LET hits == {i \in DOMAIN runq : ts[runq[i]] = "RUNNABLE"}
  IN IF hits = {} THEN NULL ELSE runq[Min(hits)]
next_runnable(ts) ==
  LET start == IF thread_current \in Range(runq)
               THEN CHOOSE i \in DOMAIN runq : runq[i] = thread_current
               ELSE 0
      at(k) == runq[((start + k) % Len(runq)) + 1]
      hits  == {k \in 0 .. Len(runq) - 1 : ts[at(k)] = "RUNNABLE"}
  IN IF hits = {} THEN NULL ELSE at(Min(hits))

\* Switch to the next thread; ts holds the thread states on entry.  A thread
\* of a process without an address space keeps the CR3 it finds loaded.
M_sched_do_switch_keeps_cr3(ts) ==
  LET was == [t \in Tid |-> IF t = thread_current /\ ts[t] = "RUNNING"
                            THEN "RUNNABLE" ELSE ts[t]]
      nxt == next_runnable(was)
  IN /\ sched_pending' = FALSE
     /\ thread_current' = nxt
     /\ tstate' = [t \in Tid |-> IF t = nxt THEN "RUNNING" ELSE was[t]]
     /\ UNCHANGED cr3
sched_do_switch(ts) ==
  LET was == [t \in Tid |-> IF t = thread_current /\ ts[t] = "RUNNING"
                            THEN "RUNNABLE" ELSE ts[t]]
      nxt == next_runnable(was)
      as  == IF nxt = NULL THEN NULL ELSE addr_space[tproc[nxt]]
  IN /\ sched_pending' = FALSE
     /\ thread_current' = nxt
     /\ tstate' = [t \in Tid |-> IF t = nxt THEN "RUNNING" ELSE was[t]]
     /\ cr3' = IF as = NULL THEN cr3 ELSE as

\* How many threads at the front of the sleep queue are due within w ticks:
\* sched_on_tick pops them, sleepq_insert walks past them.
DueWithin(w) ==
  Min({k \in 0 .. Len(sleepq) : k = Len(sleepq) \/ wake_tick[sleepq[k + 1]] > w})

M_sleepq_insert(t, w) == sleepq' = Append(sleepq, t)
sleepq_insert(t, w) ==
  LET k == DueWithin(w)
  IN sleepq' = InsertAt(sleepq, k + 1, t)

-----------------------------------------------------------------------------
(* The timer interrupt: increment_ticks calls sched_on_tick, and the common *)
(* interrupt exit switches when sched_pending is set.  It strikes wherever  *)
(* interrupts are on: in kmain after sti, in kernel threads and in user     *)
(* code, but not inside a system call.                                      *)

InterruptsOn ==
  thread_current # NULL /\ mode[thread_current] = "user"
    => pc[thread_current] = "code" /\ cont[thread_current] = "run"

Tick ==
  LET k     == DueWithin(1)
      woken == {t \in Range(SubSeq(sleepq, 1, k)) : tstate[t] = "SLEEPING"}
      ts    == [t \in Tid |-> IF t \in woken THEN "RUNNABLE" ELSE tstate[t]]
      fire  == rr_ticks_left = 1
  IN /\ InterruptsOn
     /\ sleepq' = SubSeq(sleepq, k + 1, Len(sleepq))
     /\ wake_tick' = [t \in Tid |-> IF wake_tick[t] > 0 THEN wake_tick[t] - 1 ELSE 0]
     /\ rr_ticks_left' = IF fire THEN RR_SCHEDULER_CADENCE ELSE rr_ticks_left - 1
     /\ IF sched_pending \/ fire \/ woken # {}
        THEN sched_do_switch(ts)
        ELSE tstate' = ts /\ UNCHANGED cpuVars
     /\ UNCHANGED <<procVars, listVars, waitVars, placeVars, tproc, pc, runq,
                    next_tid, kmainVars, panicked>>

-----------------------------------------------------------------------------
(* What the current thread does.  The idle thread only burns cycles.        *)

At(t, place, then) ==
  t = thread_current /\ t # NULL /\ t # IDLE /\ pc[t] = place /\ cont[t] = then

User(t) == At(t, "code", "run") /\ mode[t] = "user"
KernelThread(t) ==
  At(t, "code", "run") /\ mode[t] = "kernel" /\ addr_space[tproc[t]] = NULL

\* "sched_pending = 1", either called directly (_yield, a kernel thread) or
\* at the end of a sleep, a block or an exit.
sched_thread_yield(t) ==
  /\ \/ User(t) \/ KernelThread(t)
     \/ t = thread_current /\ t # NULL /\ pc[t] = "yield"
  /\ sched_pending' = TRUE
  /\ pc' = [pc EXCEPT ![t] = "int"]
  /\ UNCHANGED <<procVars, listVars, waitVars, placeVars, sleepVars, rr_ticks_left,
                 tstate, tproc, thread_current, cr3, runq, next_tid, kmainVars, panicked>>

\* "int $0x81": sched_on_int81h does nothing, the interrupt exit switches if
\* sched_pending is still set.  A tick in between may have consumed it.
int81(t) ==
  /\ t = thread_current /\ t # NULL /\ pc[t] = "int"
  /\ pc' = [pc EXCEPT ![t] = "code"]
  /\ IF sched_pending THEN sched_do_switch(tstate) ELSE UNCHANGED <<cpuVars, tstate>>
  /\ UNCHANGED <<procVars, listVars, waitVars, placeVars, sleepVars, rr_ticks_left,
                 tproc, runq, next_tid, kmainVars, panicked>>

sched_thread_sleep(t, n) ==
  /\ KernelThread(t)
  /\ wake_tick' = [wake_tick EXCEPT ![t] = n]
  /\ tstate' = [tstate EXCEPT ![t] = "SLEEPING"]
  /\ sleepq_insert(t, n)
  /\ pc' = [pc EXCEPT ![t] = "yield"]
  /\ UNCHANGED <<procVars, listVars, waitVars, placeVars, cpuVars, rr_ticks_left,
                 tproc, runq, next_tid, kmainVars, panicked>>

-----------------------------------------------------------------------------
(* Creating processes and threads.                                          *)

\* proc_alloc: a process in the first free slot, last of its parent's
\* children, with a new address space unless the context is the kernel's.
proc_alloc(par, user) ==
  LET p == alloc_process_slot
      m == Min(FreeMms)
  IN /\ FreeProcs # {} /\ (user => FreeMms # {})
     /\ pstate' = [pstate EXCEPT ![p] = "ALIVE"]
     /\ parent' = [parent EXCEPT ![p] = par]
     /\ children' = [q \in Pid |-> IF q = p THEN <<>>
                                   ELSE IF q = par THEN Append(children[q], p)
                                   ELSE children[q]]
     /\ addr_space' = [addr_space EXCEPT ![p] = IF user THEN m ELSE NULL]
     /\ mms' = IF user THEN mms \cup {m} ELSE mms
     /\ waiters' = [waiters EXCEPT ![p] = <<>>]

Linked(p, t) == Append(thread_list[p], t)

\* sched_add_thread: a RUNNABLE thread for process p at the tail of the run
\* queue.  fresh: proc_alloc has just reset the lists of p in the same step.
sched_add_thread(p, fresh, ring) ==
  LET t     == alloc_thread_slot
      first == fresh \/ main_thread[p] = NULL
  IN /\ FreeThreads # {}
     /\ next_tid' = (t + 1) % THREADS
     /\ main_thread' = [main_thread EXCEPT ![p] = IF first THEN t ELSE @]
     /\ thread_list' = [thread_list EXCEPT ![p] = IF first THEN <<t>> ELSE Linked(p, t)]
     /\ live_thread_count' = [live_thread_count EXCEPT ![p] = IF fresh THEN 1 ELSE @ + 1]
     /\ tstate' = [tstate EXCEPT ![t] = "RUNNABLE"]
     /\ tproc' = [tproc EXCEPT ![t] = p]
     /\ wait_for' = [wait_for EXCEPT ![t] = NONE]
     /\ wake_tick' = [wake_tick EXCEPT ![t] = 0]
     /\ pc' = [pc EXCEPT ![t] = "code"]
     /\ cont' = [cont EXCEPT ![t] = "run"]
     /\ match_pid' = [match_pid EXCEPT ![t] = ANY]
     /\ mode' = [mode EXCEPT ![t] = ring]
     /\ runq' = Append(runq, t)

\* kmain after sti.  It is not a thread: once the first switch has set
\* thread_current nothing ever resumes it.
KmainProcAlloc ==
  LET p == alloc_process_slot
  IN /\ boot = "alloc" /\ thread_current = NULL
     /\ boot' = "add"
     /\ \/ /\ proc_alloc(NULL, TRUE)
           /\ testproc' = p
           /\ thread_list' = [thread_list EXCEPT ![p] = <<>>]
           /\ main_thread' = [main_thread EXCEPT ![p] = NULL]
           /\ live_thread_count' = [live_thread_count EXCEPT ![p] = 0]
        \/ UNCHANGED <<procVars, listVars, waiters, testproc>>  \* no slot or memory
     /\ UNCHANGED <<wait_for, placeVars, cpuVars, sleepVars, rr_ticks_left,
                    tstate, tproc, pc, runq, next_tid, panicked>>

KmainAddThread ==
  /\ boot = "add" /\ thread_current = NULL
  /\ boot' = "halt"
  /\ IF testproc # NULL /\ FreeThreads # {}
     THEN sched_add_thread(testproc, FALSE, "kernel")
     ELSE UNCHANGED <<listVars, wait_for, placeVars, wake_tick, tstate, tproc, pc,
                      runq, next_tid>>
  /\ UNCHANGED <<procVars, waiters, cpuVars, sleepq, rr_ticks_left, testproc, panicked>>

\* syscall_test has mapped its pages and jumps to ring 3.
enter_usermode(t) ==
  /\ At(t, "code", "run") /\ mode[t] = "kernel" /\ addr_space[tproc[t]] # NULL
  /\ mode' = [mode EXCEPT ![t] = "user"]
  /\ UNCHANGED <<procVars, listVars, waitVars, cont, match_pid, cpuVars, sleepVars,
                 rr_ticks_left, tstate, tproc, pc, runq, next_tid, kmainVars, panicked>>

\* A kernel thread starts a sibling in its own process.
AddSibling(t) ==
  /\ KernelThread(t) /\ tproc[t] \in SIBLINGS
  /\ sched_add_thread(tproc[t], FALSE, "kernel")
  /\ UNCHANGED <<procVars, waiters, cpuVars, sleepq, rr_ticks_left, kmainVars, panicked>>

_fork(t) ==
  /\ User(t)
  /\ proc_alloc(tproc[t], TRUE)
  /\ sched_add_thread(alloc_process_slot, TRUE, "user")
  /\ UNCHANGED <<cpuVars, sleepq, rr_ticks_left, kmainVars, panicked>>

\* fork fails after the thread was made, because the descriptors could not be
\* copied: thread_reap and proc_free undo all but next_tid.  The failures
\* before that point change nothing.
ForkUndone(t) ==
  /\ User(t) /\ FreeProcs # {} /\ FreeMms # {} /\ FreeThreads # {}
  /\ next_tid' = (alloc_thread_slot + 1) % THREADS
  /\ UNCHANGED <<procVars, listVars, waitVars, placeVars, cpuVars, sleepVars,
                 rr_ticks_left, tstate, tproc, pc, runq, kmainVars, panicked>>

\* execve builds a new mm, loads it and destroys the old one; when the new
\* one cannot be built it is destroyed and nothing changed.
_execve(t) ==
  LET p == tproc[t]
      m == Min(FreeMms)
  IN /\ User(t) /\ FreeMms # {}
     /\ addr_space' = [addr_space EXCEPT ![p] = m]
     /\ cr3' = m
     /\ mms' = (mms \cup {m}) \ {addr_space[p]}
     /\ panicked' = (addr_space[p] = m)
     /\ UNCHANGED <<pstate, parent, children, listVars, waitVars, placeVars,
                    thread_current, sched_pending, sleepVars, rr_ticks_left, tstate,
                    tproc, pc, runq, next_tid, kmainVars>>

-----------------------------------------------------------------------------
(* Exiting, waiting and reaping.                                            *)

\* The positions of the threads waiting in q for any child or for p.
M_WaitingFor(q, p) == {i \in DOMAIN waiters[q] : wait_for[waiters[q][i]] = p}
WaitingFor(q, p) == {i \in DOMAIN waiters[q] : wait_for[waiters[q][i]] \in {ANY, p}}

M_UnlinkWaiter(q, i) == waiters
UnlinkWaiter(q, i) == [waiters EXCEPT ![q] = RemoveAt(@, i)]

\* wake_parent_waiter(p): the first thread waiting in the parent for any child
\* or for p becomes RUNNABLE.  ts holds the thread states on entry.
wake_parent_waiter(p, ts) ==
  LET q    == parent[p]
      hits == IF q = NULL THEN {} ELSE WaitingFor(q, p)
      i    == Min(hits)
      w    == waiters[q][i]
  IN IF hits = {}
     THEN tstate' = ts /\ UNCHANGED waitVars
     ELSE /\ tstate' = [ts EXCEPT ![w] = "RUNNABLE"]
          /\ waiters' = UnlinkWaiter(q, i)
          /\ wait_for' = [wait_for EXCEPT ![w] = NONE]

\* sched_thread_exit, by exit(2), by a fatal exception or by returning from
\* the thread's entry.  The last thread turns the process into a zombie and
\* stays on its list; any other one is taken off the list, which panics when
\* it is not there.
sched_thread_exit(t) ==
  LET p  == tproc[t]
      ts == [tstate EXCEPT ![t] = "ZOMBIE"]
      at == {i \in DOMAIN thread_list[p] : thread_list[p][i] = t}
      l  == RemoveAt(thread_list[p], Min(at))
  IN /\ At(t, "code", "run")
     /\ live_thread_count' = [live_thread_count EXCEPT ![p] = @ - 1]
     /\ pc' = [pc EXCEPT ![t] = "yield"]
     /\ cont' = [cont EXCEPT ![t] = "dead"]
     /\ IF live_thread_count[p] = 1
        THEN /\ pstate' = [pstate EXCEPT ![p] = "ZOMBIE"]
             /\ wake_parent_waiter(p, ts)
             /\ UNCHANGED <<thread_list, main_thread, panicked>>
        ELSE /\ tstate' = ts
             /\ IF at = {}
                THEN panicked' = TRUE /\ UNCHANGED <<thread_list, main_thread>>
                ELSE /\ thread_list' = [thread_list EXCEPT ![p] = l]
                     /\ main_thread' = [main_thread EXCEPT ![p] =
                          IF Min(at) > 1 THEN @ ELSE IF l = <<>> THEN NULL ELSE l[1]]
                     /\ UNCHANGED panicked
             /\ UNCHANGED <<pstate, waitVars>>
     /\ UNCHANGED <<parent, children, addr_space, mms, match_pid, mode, cpuVars,
                    sleepVars, rr_ticks_left, tproc, runq, next_tid, kmainVars>>

\* waitpid is entered, for one pid or for any child.
_waitpid(t, filter) ==
  /\ User(t) \/ KernelThread(t)
  /\ cont' = [cont EXCEPT ![t] = "wait"]
  /\ match_pid' = [match_pid EXCEPT ![t] = filter]
  /\ UNCHANGED <<procVars, listVars, waitVars, mode, cpuVars, sleepVars, rr_ticks_left,
                 tstate, tproc, pc, runq, next_tid, kmainVars, panicked>>

Matching(t) ==
  {i \in DOMAIN children[tproc[t]] : match_pid[t] \in {ANY, children[tproc[t]][i]}}
Zombies(t) == {i \in Matching(t) : pstate[children[tproc[t]][i]] = "ZOMBIE"}

M_ThreadsOf(c) == Range(Tail(thread_list[c]))
ThreadsOf(c) == Range(thread_list[c])

\* proc_reap_child(p, c): thread_reap every thread on the list of c, then
\* proc_free c.  Destroying the loaded address space panics.
proc_reap_child(p, c) ==
  LET dead == ThreadsOf(c)
      at   == {i \in DOMAIN children[p] : children[p][i] = c}
  IN /\ runq' \in Without(runq, dead)
     /\ sleepq' \in Without(sleepq, dead)
     /\ tstate' = [t \in Tid |-> IF t \in dead THEN "UNUSED" ELSE tstate[t]]
     /\ tproc' = [t \in Tid |-> IF t \in dead THEN NULL ELSE tproc[t]]
     /\ wait_for' = [t \in Tid |-> IF t \in dead THEN NONE ELSE wait_for[t]]
     /\ pc' = [t \in Tid |-> IF t \in dead THEN "code" ELSE pc[t]]
     /\ mode' = [t \in Tid |-> IF t \in dead THEN "kernel" ELSE mode[t]]
     /\ thread_list' = [thread_list EXCEPT ![c] = <<>>]
     /\ main_thread' = [main_thread EXCEPT ![c] = NULL]
     /\ live_thread_count' = [live_thread_count EXCEPT ![c] = 0]
     /\ pstate' = [pstate EXCEPT ![c] = "UNUSED"]
     /\ parent' = [parent EXCEPT ![c] = NULL]
     /\ children' = [q \in Pid |-> IF q = c THEN <<>>
                                   ELSE IF q = p THEN RemoveAt(children[q], Min(at))
                                   ELSE children[q]]
     /\ waiters' = [waiters EXCEPT ![c] = <<>>]
     /\ addr_space' = [addr_space EXCEPT ![c] = NULL]
     /\ mms' = mms \ {addr_space[c]}
     /\ panicked' = (addr_space[c] # NULL /\ addr_space[c] = cr3)

\* One pass of the loop of proc_waitpid, interrupts off: reap the first
\* matching zombie, or fail with ECHILD, or block on the process.
WaitReap(t) ==
  LET p == tproc[t]
      c == children[p][Min(Zombies(t))]
  IN /\ At(t, "code", "wait") /\ Zombies(t) # {}
     /\ IF parent[c] = p
        THEN /\ proc_reap_child(p, c)
             /\ cont' = [u \in Tid |-> IF u = t \/ u \in Range(thread_list[c])
                                       THEN "run" ELSE cont[u]]
        ELSE /\ cont' = [cont EXCEPT ![t] = "run"]            \* REAP_UNLINKED_CHILD
             /\ UNCHANGED <<procVars, listVars, waitVars, mode, sleepq, tstate,
                            tproc, pc, runq, panicked>>
     /\ match_pid' = [match_pid EXCEPT ![t] = ANY]
     /\ UNCHANGED <<cpuVars, wake_tick, rr_ticks_left, next_tid, kmainVars>>

WaitNoChild(t) ==
  /\ At(t, "code", "wait") /\ Matching(t) = {}
  /\ cont' = [cont EXCEPT ![t] = "run"]
  /\ match_pid' = [match_pid EXCEPT ![t] = ANY]
  /\ UNCHANGED <<procVars, listVars, waitVars, mode, cpuVars, sleepVars, rr_ticks_left,
                 tstate, tproc, pc, runq, next_tid, kmainVars, panicked>>

\* sched_block_current_locked, at the head of the process's waiters.
WaitBlock(t) ==
  LET p == tproc[t]
  IN /\ At(t, "code", "wait") /\ Matching(t) # {} /\ Zombies(t) = {}
     /\ tstate' = [tstate EXCEPT ![t] = "BLOCKED"]
     /\ wait_for' = [wait_for EXCEPT ![t] = match_pid[t]]
     /\ waiters' = [waiters EXCEPT ![p] = <<t>> \o @]
     /\ pc' = [pc EXCEPT ![t] = "yield"]
     /\ UNCHANGED <<procVars, listVars, placeVars, cpuVars, sleepVars, rr_ticks_left,
                    tproc, runq, next_tid, kmainVars, panicked>>

proc_waitpid(t) == WaitReap(t) \/ WaitNoChild(t) \/ WaitBlock(t)

-----------------------------------------------------------------------------
\* What a thread does of its own accord, and what it does once it is on its
\* way through a yield or the wait loop.
Call(t) ==
  \/ sched_thread_yield(t)
  \/ \E n \in Sleeps : sched_thread_sleep(t, n)
  \/ \E f \in Waits : _waitpid(t, f)
  \/ sched_thread_exit(t) \/ AddSibling(t) \/ enter_usermode(t)
  \/ _fork(t) \/ ForkUndone(t) \/ _execve(t)

Continue(t) ==
  \/ pc[t] = "yield" /\ sched_thread_yield(t)
  \/ int81(t)
  \/ proc_waitpid(t)

Next ==
  /\ ~panicked
  /\ \/ Tick \/ KmainProcAlloc \/ KmainAddThread
     \/ \E t \in Tid : Call(t) \/ Continue(t)

Spec == Init /\ [][Next]_vars

\* The 1 kHz timer line stays latched while interrupts are off, so a tick
\* that is possible again and again is taken.  A thread that gets the CPU again
\* and again runs between two ticks, so it gets through a yield or a pass of
\* the wait loop.  Nothing makes a thread call anything.
FairSpec ==
  Spec /\ SF_vars(~panicked /\ Tick)
       /\ \A t \in Tid : SF_vars(~panicked /\ Continue(t))

-----------------------------------------------------------------------------
(* Properties.                                                              *)

\* process_t, thread_t and the globals of sched.c keep their types.
TypeOK ==
  /\ pstate \in [Pid -> {"UNUSED", "ALIVE", "ZOMBIE"}]
  /\ parent \in [Pid -> Pid \cup {NULL}]
  /\ children \in [Pid -> Seq(Pid)]
  /\ thread_list \in [Pid -> Seq(Tid)]
  /\ main_thread \in [Pid -> Tid \cup {NULL}]
  /\ waiters \in [Pid -> Seq(Tid)]
  /\ live_thread_count \in [Pid -> Nat]
  /\ addr_space \in [Pid -> Mm \cup {NULL}]
  /\ tstate \in [Tid -> {"UNUSED", "RUNNABLE", "RUNNING", "SLEEPING", "BLOCKED", "ZOMBIE"}]
  /\ tproc \in [Tid -> Pid \cup {NULL}]
  /\ wait_for \in [Tid -> Pid \cup {ANY, NONE}]
  /\ wake_tick \in [Tid -> Nat]
  /\ pc \in [Tid -> {"code", "yield", "int"}]
  /\ cont \in [Tid -> {"run", "wait", "dead"}]
  /\ match_pid \in [Tid -> Pid \cup {ANY}]
  /\ mode \in [Tid -> {"kernel", "user"}]
  /\ thread_current \in Tid \cup {NULL}
  /\ runq \in Seq(Tid) /\ sleepq \in Seq(Tid)
  /\ sched_pending \in BOOLEAN
  /\ rr_ticks_left \in 1 .. RR_SCHEDULER_CADENCE
  /\ next_tid \in Tid
  /\ mms \in SUBSET Mm /\ cr3 \in Mm \cup {NULL}
  /\ boot \in {"alloc", "add", "halt"} /\ testproc \in Pid \cup {NULL}
  /\ panicked \in BOOLEAN

InUse(p) == pstate[p] # "UNUSED"

\* At most one thread is RUNNING and it is thread_current; the current thread
\* has another state only while it is on its way to "int $0x81" after a
\* sleep, a block or an exit.
RunningIsCurrent ==
  /\ \A t \in Tid : tstate[t] = "RUNNING" => t = thread_current
  /\ thread_current # NULL =>
       \/ tstate[thread_current] = "RUNNING"
       \/ /\ tstate[thread_current] \in {"SLEEPING", "BLOCKED", "ZOMBIE"}
          /\ pc[thread_current] \in {"yield", "int"}

\* The circular run queue holds every thread in use, whatever its state,
\* exactly once: unlinking and appending never lose a thread.
RunqExact ==
  IsInjective(runq) /\ Range(runq) = {t \in Tid : tstate[t] # "UNUSED"}

\* The sleep queue holds exactly the SLEEPING threads, once each, by deadline.
SleepqExact ==
  /\ IsInjective(sleepq) /\ Range(sleepq) = {t \in Tid : tstate[t] = "SLEEPING"}
  /\ \A i, j \in DOMAIN sleepq : i < j => wake_tick[sleepq[i]] <= wake_tick[sleepq[j]]

\* The waiters of a process are exactly its BLOCKED threads, each waiting for
\* what its waitpid call asked for.
WaitersExact ==
  /\ \A p \in Pid : /\ IsInjective(waiters[p])
                    /\ Range(waiters[p]) = {t \in Tid : tstate[t] = "BLOCKED" /\ tproc[t] = p}
  /\ \A t \in Tid : wait_for[t] = IF tstate[t] = "BLOCKED" THEN match_pid[t] ELSE NONE

\* No lost wakeup: a thread blocked in waitpid still has a child it waits
\* for, and none of those children is already a zombie.
NoLostWakeup ==
  \A t \in Tid : tstate[t] = "BLOCKED" => Matching(t) # {} /\ Zombies(t) = {}

\* live_thread_count counts the threads of a process that have not exited; a
\* process that ever ran is a zombie exactly when it is down to zero, with
\* its last thread alone on the list, where the reaper will find it.
LiveCountExact ==
  \A p \in Pid :
    /\ live_thread_count[p] =
         Cardinality({t \in Tid : tproc[t] = p /\ tstate[t] \notin {"UNUSED", "ZOMBIE"}})
    /\ pstate[p] = "ZOMBIE" =>
         /\ live_thread_count[p] = 0
         /\ Len(thread_list[p]) = 1 /\ tstate[thread_list[p][1]] = "ZOMBIE"
    /\ main_thread[p] = IF thread_list[p] = <<>> THEN NULL ELSE thread_list[p][1]

\* The panics of sched_thread_exit and mm_destroy are never reached.
NoPanic == ~panicked

\* CR3 holds the kernel's directory or a live address space, the running
\* process's own if it has one.  Kernel threads borrow the CR3 of whoever ran
\* before them, so this is about who may destroy an address space and when.
LoadedSpaceLive ==
  /\ cr3 \in mms \cup {NULL}
  /\ thread_current # NULL /\ addr_space[tproc[thread_current]] # NULL
       => cr3 = addr_space[tproc[thread_current]]

\* Every live mm belongs to exactly one process in use: fork, exec and reap
\* neither leak an address space nor share one.
SpacesOwned ==
  /\ mms = {addr_space[p] : p \in Pid} \ {NULL}
  /\ \A p, q \in Pid : addr_space[p] = addr_space[q] /\ addr_space[p] # NULL => p = q
  /\ \A p \in Pid : addr_space[p] # NULL => InUse(p)

\* The child lists are a forest: no process is on two lists or twice on one,
\* and a listed child is in use and points back at the process listing it.
ChildListsForest ==
  \A p, q \in Pid : \A i \in DOMAIN children[p] : \A j \in DOMAIN children[q] :
    /\ InUse(p) /\ InUse(children[p][i]) /\ parent[children[p][i]] = p
    /\ children[p][i] # p
    /\ children[p][i] = children[q][j] => p = q /\ i = j

\* Every thread in use belongs to a process in use ("reap threads belonging
\* to this process").
ThreadsHaveProcess ==
  \A t \in Tid : tstate[t] # "UNUSED" => InUse(tproc[t])

\* An exited thread never runs again: sched_thread_exit's yield does not
\* return, and only the reaper changes the state of a zombie thread.
ExitIsFinal ==
  [][\A t \in Tid : tstate[t] = "ZOMBIE" =>
        /\ tstate'[t] \in {"ZOMBIE", "UNUSED"}
        /\ tstate'[t] = "UNUSED" => t # thread_current]_vars

\* Round robin starves nobody and the timer forgets nobody: no thread stays
\* RUNNABLE or SLEEPING for ever, whatever the other threads fork, exec, sleep,
\* wait for or reap meanwhile.  It can only leave for the CPU.
ReadyThreadsRun ==
  \A t \in Tid : []<>(tstate[t] \notin {"RUNNABLE", "SLEEPING"})

\* No thread stays for ever inside waitpid with a child it waits for a zombie:
\* it is woken by the exit if it had blocked, and finds the zombie if not.
WaitReturns ==
  \A t \in Tid : []<>~(cont[t] = "wait" /\ Zombies(t) # {})

-----------------------------------------------------------------------------
(* The abstract life of processes.  A process is reaped through the child   *)
(* list that names it; parent pointers play no part, they go stale when a   *)
(* parent is reaped before its children.                                    *)

Life == [p \in Pid |-> CASE pstate[p] = "UNUSED" -> "free"
                         [] pstate[p] = "ALIVE"  -> "alive"
                         [] pstate[p] = "ZOMBIE" -> "zombie"]

Creator ==
  [c \in Pid |-> LET lists == {p \in Pid : c \in Range(children[p])}
                 IN IF lists = {} THEN NULL ELSE CHOOSE p \in lists : TRUE]

PL == INSTANCE ProcLife WITH Slots <- Pid, NoOne <- NULL,
                             life <- Life, creator <- Creator

\* Processes live and die as ProcLife says: only a process's creator frees it,
\* only after it has exited, whatever threads, wakeups and slot reuse do.
ImplementsProcLife == PL!Spec

=============================================================================
