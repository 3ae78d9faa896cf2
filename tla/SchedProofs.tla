---------------------------- MODULE SchedProofs -----------------------------
(* The inductive invariant of Sched and its proof, step by step, for every  *)
(* number of slots, every cadence and every choice of SELFTEST, SIBLINGS,   *)
(* Sleeps and Waits.  SchedTheorems draws the conclusions.                  *)
EXTENDS Sched, ListLemmas

-----------------------------------------------------------------------------
(* The inductive invariant.  RunqExact, WaitersExact and RunningIsCurrent   *)
(* are about queues of threads; what makes them, and the panics, inductive  *)
(* is how threads hang on their processes (ListsInv), processes on their    *)
(* parents (KinInv) and address spaces on processes (SpaceInv).             *)

\* Every thread that has not exited is on the list of its process; the list
\* of a live process has live_thread_count entries, none of them exited, and
\* that of a zombie only exited ones.
ListInv(p) ==
  /\ IsInjective(thread_list[p])
  /\ \A t \in Range(thread_list[p]) : tstate[t] # "UNUSED" /\ tproc[t] = p
  /\ main_thread[p] = NULL <=> thread_list[p] = <<>>
  /\ pstate[p] = "UNUSED" => thread_list[p] = <<>>
  /\ pstate[p] = "ALIVE" =>
       /\ live_thread_count[p] = Len(thread_list[p])
       /\ \A t \in Range(thread_list[p]) : tstate[t] # "ZOMBIE"
  /\ pstate[p] = "ZOMBIE" => \A t \in Range(thread_list[p]) : tstate[t] = "ZOMBIE"

ListsInv ==
  /\ \A t \in Tid : tstate[t] # "UNUSED" => tproc[t] \in Pid
  /\ \A t \in Tid : tstate[t] \notin {"UNUSED", "ZOMBIE"} =>
                      t \in Range(thread_list[tproc[t]])
  /\ \A p \in Pid : ListInv(p)

\* A current thread that is no longer RUNNING and stands before "int $0x81"
\* will really be switched away from.
CpuInv ==
  /\ RunningIsCurrent
  /\ thread_current # NULL /\ tstate[thread_current] # "RUNNING" /\ pc[thread_current] = "int"
       => sched_pending

\* Listed children are in use, point back, and have an address space iff
\* their parent has one.
KinInv ==
  \A p \in Pid :
    /\ IsInjective(children[p])
    /\ \A c \in Range(children[p]) :
         /\ pstate[p] # "UNUSED" /\ pstate[c] # "UNUSED" /\ parent[c] = p /\ c # p
         /\ addr_space[c] = NULL <=> addr_space[p] = NULL

SpaceInv ==
  /\ SpacesOwned /\ LoadedSpaceLive
  /\ \A t \in Tid : tstate[t] \notin {"UNUSED", "ZOMBIE"} /\ mode[t] = "user" =>
                      addr_space[tproc[t]] # NULL

\* kmain's process waits, alive and without threads, for its first one.
BootInv ==
  /\ boot = "alloc" => testproc = NULL
  /\ boot = "add" /\ testproc # NULL =>
       pstate[testproc] = "ALIVE" /\ thread_list[testproc] = <<>>

IInv == /\ TypeOK /\ ListsInv /\ RunqExact /\ CpuInv /\ WaitersExact
        /\ KinInv /\ SpaceInv /\ BootInv /\ NoPanic

-----------------------------------------------------------------------------
(* Operators of the model.                                                  *)

\* Filtering a queue without duplicates keeps the other elements, once each.
LEMMA WithoutLemma ==
  ASSUME NEW S, NEW s \in Seq(S), NEW R, NEW q \in Without(s, R)
  PROVE  q \in Seq(S) /\ Range(q) = Range(s) \ R /\ (IsInjective(s) => IsInjective(q))
<1> DEFINE keep == {i \in DOMAIN s : s[i] \notin R}
<1>1. PICK g \in UNION {[1 .. n -> keep] : n \in 0 .. Len(s)} :
        /\ q = [i \in DOMAIN g |-> s[g[i]]]
        /\ \A i, j \in DOMAIN g : i < j => g[i] < g[j]
        /\ \A k \in keep : \E i \in DOMAIN g : g[i] = k
  BY ZenonT(30) DEF Without
<1>2. PICK n \in 0 .. Len(s) : g \in [1 .. n -> keep]
  BY ZenonT(30)
<1>3. PICK f \in [1 .. n -> keep] :
        /\ q = [i \in 1 .. n |-> s[f[i]]]
        /\ \A i, j \in 1 .. n : i < j => f[i] < f[j]
        /\ \A k \in keep : \E i \in 1 .. n : f[i] = k
  BY <1>2, <1>1, Zenon
<1>4. \A i \in 1 .. n : f[i] \in DOMAIN s /\ s[f[i]] \in S /\ s[f[i]] \notin R
  OBVIOUS
<1>5. q \in Seq(S) /\ DOMAIN q = 1 .. n
  BY <1>3
<1>6. Range(q) = Range(s) \ R
  <2>1. \A i \in 1 .. n : q[i] = s[f[i]]
    BY <1>3, Zenon
  <2>2. ASSUME NEW e \in Range(s) \ R PROVE e \in Range(q)
    <3>1. PICK k \in keep : s[k] = e
      BY Zenon DEF Range
    <3>2. PICK i \in 1 .. n : f[i] = k
      BY <1>3, Zenon
    <3> QED BY <2>1, <1>5, <3>1, <3>2, Zenon DEF Range
  <2>3. ASSUME NEW e \in Range(q) PROVE e \in Range(s) \ R
    BY <1>5, <1>4, <2>1 DEF Range
  <2> QED BY <2>2, <2>3, Zenon
<1>7. ASSUME IsInjective(s), NEW i \in 1 .. n, NEW j \in 1 .. n, q[i] = q[j] PROVE i = j
  <2>1. f[i] = f[j]
    BY <1>7, <1>3, Zenon DEF IsInjective
  <2>2. ~(i < j) /\ ~(j < i)
    BY <2>1, <1>3, <1>4
  <2> QED BY <2>2, <1>2
<1> QED BY <1>5, <1>6, <1>7, Zenon DEF IsInjective

TStates == {"UNUSED", "RUNNABLE", "RUNNING", "SLEEPING", "BLOCKED", "ZOMBIE"}

\* The sizes as facts about slots.
LEMMA Slots ==
  /\ THREADS \in Nat \ {0} /\ PROCS \in Nat \ {0} /\ IDLE \in Tid /\ IDLE \in Pid
  /\ Booted \subseteq Tid /\ Booted \subseteq Pid /\ NULL \notin Tid
  /\ NULL \notin Pid /\ NULL \notin Mm /\ Pid \subseteq Nat /\ Tid \subseteq Nat /\ Mm \subseteq Nat
  BY SizesAssumption DEF IDLE, Tid, Pid, Mm, Booted, NULL

\* The slot found for a new process, thread or mm is free.
LEMMA FreeSlots ==
  ASSUME WellOrdered, TypeOK
  PROVE  /\ FreeProcs # {} => alloc_process_slot \in Pid /\ pstate[alloc_process_slot] = "UNUSED"
         /\ FreeMms # {} => Min(FreeMms) \in Mm /\ Min(FreeMms) \notin mms
         /\ FreeThreads # {} => alloc_thread_slot \in Tid /\ tstate[alloc_thread_slot] = "UNUSED"
<1>1. ASSUME FreeThreads # {} PROVE alloc_thread_slot \in FreeThreads
  <2> DEFINE slot(k) == (next_tid + k) % THREADS
             ks == {k \in Tid : slot(k) \in FreeThreads}
  <2>1. PICK t \in Tid : t \in FreeThreads
    BY <1>1, Zenon DEF FreeThreads
  <2>2. \E k \in Tid : slot(k) = t
    <3>1. next_tid \in 0 .. THREADS - 1 /\ t \in 0 .. THREADS - 1 /\ THREADS \in Nat \ {0}
      BY Slots, Zenon DEF TypeOK, Tid
    <3>2. CASE t >= next_tid
      <4>1. t - next_tid \in Tid /\ slot(t - next_tid) = t
        BY <3>1, <3>2 DEF Tid
      <4> QED BY <4>1, Zenon
    <3>3. CASE t < next_tid
      <4>1. t - next_tid + THREADS \in Tid /\ slot(t - next_tid + THREADS) = t
        BY <3>1, <3>3 DEF Tid
      <4> QED BY <4>1, Zenon
    <3> QED BY <3>1, <3>2, <3>3
  <2> QED BY MinLemma, <2>1, <2>2, Slots DEF alloc_thread_slot
<1> QED BY <1>1, MinLemma, Slots, Zenon DEF FreeProcs, FreeMms, FreeThreads, alloc_process_slot


\* next_runnable finds a RUNNABLE thread or nothing.
LEMMA NextRunnable ==
  ASSUME WellOrdered, TypeOK, NEW ts \in [Tid -> TStates]
  PROVE  \/ next_runnable(ts) = NULL
         \/ next_runnable(ts) \in Tid /\ ts[next_runnable(ts)] = "RUNNABLE"
<1> DEFINE start == IF thread_current \in Range(runq)
                    THEN CHOOSE i \in DOMAIN runq : runq[i] = thread_current
                    ELSE 0
           at(k) == runq[((start + k) % Len(runq)) + 1]
           hits  == {k \in 0 .. Len(runq) - 1 : ts[at(k)] = "RUNNABLE"}
<1>1. start \in Nat
  <2>1. runq \in Seq(Tid)
    BY Zenon DEF TypeOK
  <2> QED BY <2>1 DEF Range
<1>2. ASSUME NEW k \in 0 .. Len(runq) - 1 PROVE at(k) \in Tid
  <2> HIDE DEF start
  <2>1. runq \in Seq(Tid) /\ Len(runq) \in Nat \ {0}
    BY DEF TypeOK
  <2> QED BY <2>1, <1>1
<1>3. hits # {} => Min(hits) \in hits
  <2> HIDE DEF at
  <2>1. hits \in SUBSET Nat
    OBVIOUS
  <2> QED BY <2>1, MinLemma, ZenonT(30)
<1>4. next_runnable(ts) = IF hits = {} THEN NULL ELSE at(Min(hits))
  BY Zenon DEF next_runnable
<1> QED
  <2> HIDE DEF at
  <2> QED BY <1>2, <1>3, <1>4, Zenon

\* What a switch does to the thread states, thread_current and CR3.
LEMMA SwitchLemma ==
  ASSUME WellOrdered, TypeOK, NEW ts \in [Tid -> TStates], sched_do_switch(ts),
         \A t \in Tid : ts[t] = "RUNNING" => t = thread_current
  PROVE  /\ thread_current' \in Tid \cup {NULL} /\ tstate' \in [Tid -> TStates]
         /\ sched_pending' = FALSE
         /\ \A t \in Tid : \A k \in {"UNUSED", "ZOMBIE", "BLOCKED", "SLEEPING"} :
              tstate'[t] = k <=> ts[t] = k
         /\ \A t \in Tid : tstate'[t] = "RUNNING" => t = thread_current'
         /\ thread_current' # NULL => tstate'[thread_current'] = "RUNNING"
         /\ LET as == addr_space[tproc[thread_current']]
            IN IF thread_current' = NULL \/ as = NULL THEN cr3' = cr3 ELSE cr3' = as
<1> DEFINE was == [t \in Tid |-> IF t = thread_current /\ ts[t] = "RUNNING"
                                 THEN "RUNNABLE" ELSE ts[t]]
<1>1. was \in [Tid -> TStates]
  BY Zenon DEF TStates
<1>2. thread_current' = next_runnable(was)
  BY Zenon DEF sched_do_switch
<1>3. \/ thread_current' = NULL
      \/ thread_current' \in Tid /\ was[thread_current'] = "RUNNABLE"
  <2> HIDE DEF was
  <2> QED BY <1>1, <1>2, NextRunnable, Zenon
<1>4. tstate' = [t \in Tid |-> IF t = thread_current' THEN "RUNNING" ELSE was[t]]
  BY Zenon DEF sched_do_switch
<1>5. \A t \in Tid : was[t] = IF t = thread_current /\ ts[t] = "RUNNING"
                              THEN "RUNNABLE" ELSE ts[t]
  BY Zenon
<1> HIDE DEF was
<1>6. NULL \notin Tid
  BY Slots, Zenon
<1>7. tstate' \in [Tid -> TStates]
  BY <1>1, <1>4, Zenon DEF TStates
<1>8. \A t \in Tid : tstate'[t] = IF t = thread_current' THEN "RUNNING" ELSE was[t]
  BY <1>4, Zenon
<1>9. \A t \in Tid : \A k \in {"UNUSED", "ZOMBIE", "BLOCKED", "SLEEPING"} :
             tstate'[t] = k <=> ts[t] = k
  BY <1>3, <1>5, <1>6, <1>8, ZenonT(30)
<1> QED BY <1>3, <1>7, <1>9, Zenon DEF sched_do_switch

-----------------------------------------------------------------------------
(* Init.                                                                    *)

\* The state in which the scheduler starts.
LEMMA InitIInv == Init => IInv
<1> SUFFICES ASSUME Init PROVE IInv
  BY Zenon
<1> USE Slots, SizesAssumption
<1>1. \A p \in Pid : thread_list[p] = IF p \in Booted THEN <<p>> ELSE <<>>
  BY Zenon DEF Init
<1>2. \A p \in Pid : children[p] = IF SELFTEST /\ p = 1 THEN <<2, 3>> ELSE <<>>
  BY Zenon DEF Init
<1>3. /\ SELFTEST => {0, 1, 2, 3} \subseteq Pid /\ {0, 1, 2, 3} \subseteq Tid
      /\ Booted = IF SELFTEST THEN {0, 1, 2, 3} ELSE {0}
  BY DEF Booted, IDLE
<1>4. TypeOK
  <2>1. runq \in Seq(Tid)
    BY <1>3 DEF Init
  <2>2. next_tid \in Tid
    BY DEF Init, Tid
  <2>3. children \in [Pid -> Seq(Pid)]
    BY <1>2, <1>3 DEF Init
  <2>4. thread_list \in [Pid -> Seq(Tid)]
    <3>1. ASSUME NEW p \in Pid PROVE thread_list[p] \in Seq(Tid)
      <4>1. CASE p \in Booted
        <5>1. thread_list[p] = <<p>> /\ p \in Tid
          BY <1>1, <4>1, ZenonT(30)
        <5> QED BY <5>1
      <4>2. CASE p \notin Booted
        <5>1. thread_list[p] = <<>>
          BY <1>1, <4>2, ZenonT(30)
        <5> QED BY <5>1
      <4> QED BY <4>1, <4>2, Zenon
    <3> QED BY <3>1, Zenon DEF Init
  <2>5. parent \in [Pid -> Pid \cup {NULL}]
    BY <1>3 DEF Init
  <2>6. waiters \in [Pid -> Seq(Tid)]
    BY DEF Init
  <2>7. /\ pstate \in [Pid -> {"UNUSED", "ALIVE", "ZOMBIE"}]
        /\ main_thread \in [Pid -> Tid \cup {NULL}]
        /\ live_thread_count \in [Pid -> Nat]
        /\ addr_space \in [Pid -> Mm \cup {NULL}]
        /\ tstate \in [Tid -> {"UNUSED", "RUNNABLE", "RUNNING", "SLEEPING", "BLOCKED", "ZOMBIE"}]
        /\ tproc \in [Tid -> Pid \cup {NULL}]
        /\ wait_for \in [Tid -> Pid \cup {ANY, NONE}]
        /\ wake_tick \in [Tid -> Nat]
    BY Zenon DEF Init
  <2>8. /\ pc \in [Tid -> {"code", "yield", "int"}]
        /\ cont \in [Tid -> {"run", "wait", "dead"}]
        /\ match_pid \in [Tid -> Pid \cup {ANY}]
        /\ mode \in [Tid -> {"kernel", "user"}]
    BY Zenon DEF Init
  <2>9. /\ thread_current \in Tid \cup {NULL}
        /\ rr_ticks_left \in 1 .. RR_SCHEDULER_CADENCE
        /\ mms \in SUBSET Mm /\ cr3 \in Mm \cup {NULL}
        /\ boot \in {"alloc", "add", "halt"} /\ testproc \in Pid \cup {NULL}
    BY DEF Init
  <2>10. sched_pending \in BOOLEAN /\ panicked \in BOOLEAN
    BY ZenonT(30) DEF Init
  <2>11. sleepq \in Seq(Tid)
    BY DEF Init
  <2> QED
    BY <2>2, <2>1, <2>3, <2>4, <2>5, <2>6, <2>7, <2>8, <2>9, <2>11, <2>10, ZenonT(30) DEF TypeOK
<1>5. \A p \in Pid : /\ IsInjective(thread_list[p]) /\ Range(thread_list[p]) = Booted \cap {p}
                     /\ Len(thread_list[p]) = IF p \in Booted THEN 1 ELSE 0
  <2> SUFFICES ASSUME NEW p \in Pid
      PROVE /\ IsInjective(thread_list[p]) /\ Range(thread_list[p]) = Booted \cap {p}
            /\ Len(thread_list[p]) = IF p \in Booted THEN 1 ELSE 0
    BY Zenon
  <2>1. CASE p \in Booted
    <3>1. thread_list[p] = <<p>>
      BY <1>1, <2>1, ZenonT(30)
    <3> QED BY <2>1, <3>1 DEF IsInjective, Range
  <2>2. CASE p \notin Booted
    <3>1. thread_list[p] = <<>>
      BY <1>1, <2>2, ZenonT(30)
    <3> QED BY <2>2, <3>1 DEF IsInjective, Range
  <2> QED BY <2>1, <2>2, Zenon
<1>6. ListsInv
  <2>1. \A t \in Tid : /\ tstate[t] = IF t \in Booted THEN "RUNNABLE" ELSE "UNUSED"
                       /\ t \in Booted => tproc[t] = t
    BY Zenon DEF Init
  <2>2. \A p \in Pid : ListInv(p)
    <3> SUFFICES ASSUME NEW p \in Pid PROVE ListInv(p)
      BY Zenon
    <3>1. /\ IsInjective(thread_list[p]) /\ Range(thread_list[p]) = Booted \cap {p}
          /\ Len(thread_list[p]) = IF p \in Booted THEN 1 ELSE 0
      BY <1>5, Zenon
    <3> HIDE DEF Booted
    <3> QED BY <3>1, Zenon DEF ListInv, Init
  <2>3. \A t \in Tid : t \in Booted => t \in Range(thread_list[tproc[t]])
    BY <2>1, <1>5, Zenon
  <2>4. \A t \in Tid : t \notin Booted <=> tstate[t] = "UNUSED"
    BY <2>1, Zenon
  <2>5. \A t \in Tid : tstate[t] # "UNUSED" => tproc[t] \in Pid
    BY <2>1, ZenonT(30)
  <2> QED BY <2>2, <2>3, <2>4, <2>5, ZenonT(30) DEF ListsInv
<1>7. RunqExact
  BY <1>3 DEF RunqExact, Init, IsInjective, Range, IDLE
<1>8. WaitersExact
  BY DEF WaitersExact, Init, IsInjective, Range
<1>9. KinInv
  BY <1>3 DEF KinInv, IsInjective, Range, Init
<1>10. SpaceInv
  BY Zenon DEF SpaceInv, SpacesOwned, LoadedSpaceLive, Init
<1>11. BootInv /\ NoPanic
  BY Zenon DEF BootInv, NoPanic, Init
<1> QED
  BY <1>4, <1>6, <1>7, <1>8, <1>9, <1>10, <1>11, Zenon DEF IInv, CpuInv, RunningIsCurrent, Init

-----------------------------------------------------------------------------
(* Steps that leave a part of the state alone.                              *)

\* What the list of a process says of the threads on it.
LEMMA OnList ==
  ASSUME ListsInv, NEW q \in Pid, NEW u \in Range(thread_list[q])
  PROVE  tstate[u] # "UNUSED" /\ tproc[u] = q
  BY Zenon DEF ListsInv, ListInv

\* A list whose process a step leaves alone stays correct while none of its
\* threads exits or is freed.
LEMMA ListKept ==
  ASSUME ListsInv, NEW q \in Pid,
         /\ thread_list'[q] = thread_list[q] /\ main_thread'[q] = main_thread[q]
         /\ live_thread_count'[q] = live_thread_count[q] /\ pstate'[q] = pstate[q],
         \A u \in Range(thread_list[q]) :
           /\ tproc'[u] = tproc[u]
           /\ \A k \in {"UNUSED", "ZOMBIE"} : tstate'[u] = k <=> tstate[u] = k
  PROVE  ListInv(q)'
<1>1. ListInv(q)
  BY Zenon DEF ListsInv
<1>2. \A u \in Range(thread_list[q]) : /\ tstate'[u] = "UNUSED" <=> tstate[u] = "UNUSED"
                                       /\ tstate'[u] = "ZOMBIE" <=> tstate[u] = "ZOMBIE"
  BY Zenon
<1> QED BY <1>1, <1>2, ZenonT(30) DEF ListInv

\* In particular when it leaves them alone.
LEMMA ListSame ==
  ASSUME ListsInv, NEW q \in Pid,
         /\ thread_list'[q] = thread_list[q] /\ main_thread'[q] = main_thread[q]
         /\ live_thread_count'[q] = live_thread_count[q] /\ pstate'[q] = pstate[q],
         \A u \in Range(thread_list[q]) : tstate'[u] = tstate[u] /\ tproc'[u] = tproc[u]
  PROVE  ListInv(q)'
<1>1. \A u \in Range(thread_list[q]) :
        /\ tproc'[u] = tproc[u]
        /\ \A k \in {"UNUSED", "ZOMBIE"} : tstate'[u] = k <=> tstate[u] = k
  BY Zenon
<1> QED BY <1>1, ListKept, Zenon

\* The members of the lists are slots.
LEMMA Members ==
  ASSUME TypeOK, NEW q \in Pid
  PROVE  Range(thread_list[q]) \subseteq Tid /\ Range(children[q]) \subseteq Pid
<1>1. thread_list[q] \in Seq(Tid) /\ children[q] \in Seq(Pid)
  BY ZenonT(30) DEF TypeOK
<1> QED BY <1>1, MemberLemma, Zenon

\* Kinship and address spaces, when their variables are left alone.
LEMMA KinSame ==
  ASSUME KinInv, UNCHANGED <<pstate, parent, children, addr_space>>
  PROVE  KinInv'
BY ZenonT(30) DEF KinInv

\* The owners of the address spaces, likewise.
LEMMA SpacesSame ==
  ASSUME SpacesOwned, UNCHANGED <<pstate, addr_space, mms>>
  PROVE  SpacesOwned'
BY Zenon DEF SpacesOwned, InUse

\* The loaded address space too, when the CPU and the threads are left alone.
LEMMA SpaceSame ==
  ASSUME SpaceInv,
         UNCHANGED <<pstate, addr_space, mms, cr3, thread_current, tproc, tstate, mode>>
  PROVE  SpaceInv'
  BY SpacesSame, Zenon DEF SpaceInv, LoadedSpaceLive

-----------------------------------------------------------------------------
(* Steps that move threads between the states RUNNABLE, RUNNING and         *)
(* SLEEPING only leave every list as it is.                                 *)

\* Such a step keeps what is said of lists, children and spaces.
LEMMA QuietStep ==
  ASSUME IInv,
         UNCHANGED <<procVars, listVars, waitVars, tproc, runq, kmainVars, panicked>>,
         tstate' \in [Tid -> TStates],
         \A t \in Tid : \A k \in {"UNUSED", "ZOMBIE", "BLOCKED"} : tstate'[t] = k <=> tstate[t] = k,
         \A t \in Tid : tstate[t] = "BLOCKED" => match_pid'[t] = match_pid[t],
         \A t \in Tid : mode'[t] = "user" => mode[t] = "user" \/ addr_space[tproc[t]] # NULL
  PROVE  /\ ListsInv' /\ RunqExact' /\ WaitersExact' /\ KinInv' /\ SpacesOwned'
         /\ \A t \in Tid : tstate'[t] \notin {"UNUSED", "ZOMBIE"} /\ mode'[t] = "user" =>
              addr_space'[tproc'[t]] # NULL
         /\ BootInv' /\ NoPanic'
<1> USE DEF procVars, listVars, waitVars, kmainVars
<1>1. \A p \in Pid : \A t \in Range(thread_list[p]) : t \in Tid
  BY Members, Zenon DEF IInv
<1>2. ListsInv'
  <2>1. ASSUME NEW q \in Pid PROVE ListInv(q)'
    <3>1. \A t \in Range(thread_list[q]) : \A k \in {"UNUSED", "ZOMBIE"} : tstate'[t] = k <=> tstate[t] = k
      BY <1>1, Zenon
    <3> QED BY <3>1, ListKept, Zenon DEF IInv
  <2> QED BY <2>1, ZenonT(30) DEF IInv, ListsInv
<1>3. WaitersExact'
  BY ZenonT(30) DEF IInv, WaitersExact
<1>4. KinInv' /\ SpacesOwned' /\ BootInv' /\ NoPanic'
  BY KinSame, SpacesSame, Zenon DEF IInv, SpaceInv, BootInv, NoPanic
<1> QED BY <1>2, <1>3, <1>4, ZenonT(30) DEF IInv, RunqExact, SpaceInv


\* How many of the sleepers are due is a prefix of the queue.
LEMMA DueLemma ==
  ASSUME WellOrdered, TypeOK, NEW w
  PROVE  DueWithin(w) \in 0 .. Len(sleepq)
<1> DEFINE ks == {k \in 0 .. Len(sleepq) : k = Len(sleepq) \/ wake_tick[sleepq[k + 1]] > w}
<1>1. Len(sleepq) \in ks /\ ks \in SUBSET Nat
  OBVIOUS
<1> QED BY <1>1, MinLemma, Zenon DEF DueWithin

\* A quiet step needs its type, its effect on the CPU and on CR3 checked.
LEMMA QuietIInv ==
  ASSUME IInv, TypeOK', CpuInv', LoadedSpaceLive',
         UNCHANGED <<procVars, listVars, waitVars, tproc, runq, kmainVars, panicked>>,
         \A t \in Tid : \A k \in {"UNUSED", "ZOMBIE", "BLOCKED"} : tstate'[t] = k <=> tstate[t] = k,
         \A t \in Tid : tstate[t] = "BLOCKED" => match_pid'[t] = match_pid[t],
         \A t \in Tid : mode'[t] = "user" => mode[t] = "user" \/ addr_space[tproc[t]] # NULL
  PROVE  IInv'
  BY QuietStep, Zenon DEF TypeOK, TStates, SpaceInv, IInv

\* The CPU and CR3 after a switch.
LEMMA SwitchIInv ==
  ASSUME WellOrdered, IInv, NEW ts \in [Tid -> TStates], sched_do_switch(ts), UNCHANGED <<procVars, tproc>>,
         \A t \in Tid : ts[t] = "RUNNING" => t = thread_current,
         \A t \in Tid : ts[t] = "UNUSED" <=> tstate[t] = "UNUSED"
  PROVE  CpuInv' /\ LoadedSpaceLive' /\ cr3' \in Mm \cup {NULL}
<1>1. /\ thread_current' \in Tid \cup {NULL} /\ sched_pending' = FALSE
      /\ \A t \in Tid : \A k \in {"UNUSED", "ZOMBIE", "BLOCKED", "SLEEPING"} :
           tstate'[t] = k <=> ts[t] = k
      /\ \A t \in Tid : tstate'[t] = "RUNNING" => t = thread_current'
      /\ thread_current' # NULL => tstate'[thread_current'] = "RUNNING"
      /\ IF thread_current' = NULL \/ addr_space[tproc[thread_current']] = NULL
         THEN cr3' = cr3 ELSE cr3' = addr_space[tproc[thread_current']]
  BY SwitchLemma, Zenon DEF IInv
<1>2. thread_current' # NULL => tproc[thread_current'] \in Pid
  BY <1>1, ZenonT(30) DEF IInv, ListsInv
<1>3. \A p \in Pid : addr_space[p] \in mms \cup {NULL}
  BY Zenon DEF IInv, SpaceInv, SpacesOwned
<1>4. cr3 \in mms \cup {NULL} /\ mms \in SUBSET Mm
  BY Zenon DEF IInv, SpaceInv, LoadedSpaceLive, TypeOK
<1> QED BY <1>1, <1>2, <1>3, <1>4, Zenon DEF LoadedSpaceLive, procVars, CpuInv, RunningIsCurrent

\* The timer interrupt: sleepers wake, and at the end of a slice the CPU is switched.
LEMMA TickIInv == ASSUME WellOrdered, IInv, Tick PROVE IInv'
<1> DEFINE k     == DueWithin(1)
           woken == {t \in Range(SubSeq(sleepq, 1, k)) : tstate[t] = "SLEEPING"}
           ts    == [t \in Tid |-> IF t \in woken THEN "RUNNABLE" ELSE tstate[t]]
           fire  == rr_ticks_left = 1
<1>1. TypeOK
  BY Zenon DEF IInv
<1>2. k \in 0 .. Len(sleepq)
  BY <1>1, DueLemma, Zenon
<1>3. ts \in [Tid -> TStates]
  BY <1>1, Zenon DEF TypeOK, TStates
<1>4. \A t \in Tid : ts[t] = IF t \in woken THEN "RUNNABLE" ELSE tstate[t]
  BY Zenon
<1>5. /\ sleepq' = SubSeq(sleepq, k + 1, Len(sleepq))
      /\ wake_tick' = [t \in Tid |-> IF wake_tick[t] > 0 THEN wake_tick[t] - 1 ELSE 0]
      /\ rr_ticks_left' = IF fire THEN RR_SCHEDULER_CADENCE ELSE rr_ticks_left - 1
      /\ IF sched_pending \/ fire \/ woken # {}
         THEN sched_do_switch(ts)
         ELSE tstate' = ts /\ UNCHANGED cpuVars
      /\ UNCHANGED <<procVars, listVars, waitVars, placeVars, tproc, pc, runq,
                     next_tid, kmainVars, panicked>>
  BY Zenon DEF Tick
<1> HIDE DEF k, ts, fire
<1>6. \A t \in Tid : ts[t] = "RUNNING" => t = thread_current
  BY <1>4, Zenon DEF IInv, CpuInv, RunningIsCurrent
<1>7. \A t \in Tid : \A s \in {"UNUSED", "ZOMBIE", "BLOCKED"} : ts[t] = s <=> tstate[t] = s
  BY <1>4, Zenon
<1>8. /\ \A t \in Tid : \A s \in {"UNUSED", "ZOMBIE", "BLOCKED"} : tstate'[t] = s <=> tstate[t] = s
      /\ tstate' \in [Tid -> TStates] /\ thread_current' \in Tid \cup {NULL}
      /\ sched_pending' \in BOOLEAN
      /\ CpuInv' /\ LoadedSpaceLive' /\ cr3' \in Mm \cup {NULL}
  <2>1. CASE sched_pending \/ fire \/ woken # {}
    <3> HIDE DEF woken
    <3>1. sched_do_switch(ts)
      BY <1>5, <2>1, ZenonT(30)
    <3>2. CpuInv' /\ LoadedSpaceLive' /\ cr3' \in Mm \cup {NULL}
      BY <3>1, <1>3, <1>5, <1>6, <1>7, SwitchIInv, ZenonT(30)
    <3>3. /\ thread_current' \in Tid \cup {NULL} /\ tstate' \in [Tid -> TStates]
          /\ sched_pending' = FALSE
          /\ \A t \in Tid : \A s \in {"UNUSED", "ZOMBIE", "BLOCKED", "SLEEPING"} :
               tstate'[t] = s <=> ts[t] = s
      BY <3>1, <1>1, <1>3, <1>6, SwitchLemma, ZenonT(30)
    <3> QED BY <3>2, <3>3, <1>7, ZenonT(30)
  <2>2. CASE ~(sched_pending \/ fire \/ woken # {})
    <3>1. tstate' = ts /\ UNCHANGED cpuVars /\ UNCHANGED <<procVars, tproc, pc>> /\ woken = {}
      BY <1>5, <2>2, Zenon
    <3> HIDE DEF woken
    <3>2. CpuInv'
      BY <3>1, <1>4, ZenonT(30) DEF cpuVars, IInv, CpuInv, RunningIsCurrent, TypeOK
    <3>3. LoadedSpaceLive'
      BY <3>1, Zenon DEF cpuVars, procVars, IInv, SpaceInv, LoadedSpaceLive
    <3> QED BY <3>1, <3>2, <3>3, <1>1, <1>3, <1>7, ZenonT(30) DEF cpuVars, TypeOK
  <2> QED BY <2>1, <2>2, Zenon
<1>9. TypeOK'
  <2> HIDE DEF k, woken, ts
  <2>0. sleepq \in Seq(Tid) /\ wake_tick \in [Tid -> Nat] /\ rr_ticks_left \in 1 .. RR_SCHEDULER_CADENCE
    BY <1>1, Zenon DEF TypeOK
  <2>1. sleepq' \in Seq(Tid)
    <3>1. sleepq' = SubSeq(sleepq, k + 1, Len(sleepq))
      BY <1>5, Zenon
    <3> QED BY <2>0, <1>2, <3>1
  <2>2. wake_tick' \in [Tid -> Nat]
    <3>1. wake_tick' = [t \in Tid |-> IF wake_tick[t] > 0 THEN wake_tick[t] - 1 ELSE 0]
      BY <1>5, Zenon
    <3> QED BY <2>0, <3>1
  <2>3. rr_ticks_left' \in 1 .. RR_SCHEDULER_CADENCE
    <3>1. rr_ticks_left' = IF fire THEN RR_SCHEDULER_CADENCE ELSE rr_ticks_left - 1
      BY <1>5, Zenon
    <3> QED BY <2>0, <3>1, SizesAssumption DEF fire
  <2> QED
    BY <1>1, <1>5, <1>8, <2>1, <2>2, <2>3, ZenonT(30)
       DEF TypeOK, TStates, procVars, listVars, waitVars, placeVars, kmainVars
<1> QED
  BY <1>5, <1>8, <1>9, QuietIInv, ZenonT(30) DEF placeVars


\* A thread that executes code is RUNNING and its process is alive.
LEMMA CurrentFacts ==
  ASSUME IInv, NEW t \in Tid, t = thread_current, pc[t] = "code"
  PROVE  /\ tstate[t] = "RUNNING" /\ tproc[t] \in Pid /\ pstate[tproc[t]] = "ALIVE"
         /\ t \in Range(thread_list[tproc[t]])
<1>1. tstate[t] = "RUNNING"
  BY Slots, ZenonT(30) DEF IInv, CpuInv, RunningIsCurrent
<1>2. tproc[t] \in Pid /\ t \in Range(thread_list[tproc[t]])
  BY <1>1, Zenon DEF IInv, ListsInv
<1>3. pstate[tproc[t]] \in {"UNUSED", "ALIVE", "ZOMBIE"}
  BY <1>2, Zenon DEF IInv, TypeOK
<1> QED BY <1>1, <1>2, <1>3 DEF IInv, ListsInv, ListInv, Range

\* A yield only asks for a switch.
LEMMA YieldIInv == ASSUME IInv, NEW t \in Tid, sched_thread_yield(t) PROVE IInv'
<1> USE DEF sched_thread_yield
<1>1. TypeOK'
  BY ZenonT(30) DEF IInv, TypeOK, procVars, listVars, waitVars, placeVars, sleepVars, kmainVars
<1>2. CpuInv'
  BY Zenon DEF IInv, CpuInv, RunningIsCurrent, TypeOK
<1>3. LoadedSpaceLive'
  BY ZenonT(30) DEF IInv, SpaceInv, LoadedSpaceLive, procVars
<1> QED
  BY <1>1, <1>2, <1>3, QuietIInv, ZenonT(30) DEF placeVars

\* The software interrupt switches when a switch is pending.
LEMMA Int81IInv == ASSUME WellOrdered, IInv, NEW t \in Tid, int81(t) PROVE IInv'
<1>1. TypeOK /\ tstate \in [Tid -> TStates]
  BY ZenonT(30) DEF IInv, TypeOK, TStates
<1>2. /\ t = thread_current /\ pc[t] = "int" /\ pc' = [pc EXCEPT ![t] = "code"]
      /\ UNCHANGED <<procVars, listVars, waitVars, placeVars, sleepVars, rr_ticks_left,
                     tproc, runq, next_tid, kmainVars, panicked>>
  BY Zenon DEF int81
<1>3. \A u \in Tid : tstate[u] = "RUNNING" => u = thread_current
  BY Zenon DEF IInv, CpuInv, RunningIsCurrent
<1>4. /\ \A u \in Tid : \A s \in {"UNUSED", "ZOMBIE", "BLOCKED"} : tstate'[u] = s <=> tstate[u] = s
      /\ tstate' \in [Tid -> TStates] /\ thread_current' \in Tid \cup {NULL}
      /\ sched_pending' \in BOOLEAN
      /\ CpuInv' /\ LoadedSpaceLive' /\ cr3' \in Mm \cup {NULL}
  <2>1. CASE sched_pending
    <3>1. sched_do_switch(tstate)
      BY <2>1, Zenon DEF int81
    <3>2. /\ thread_current' \in Tid \cup {NULL} /\ tstate' \in [Tid -> TStates]
          /\ sched_pending' = FALSE
          /\ \A u \in Tid : \A s \in {"UNUSED", "ZOMBIE", "BLOCKED", "SLEEPING"} :
               tstate'[u] = s <=> tstate[u] = s
      BY <3>1, <1>1, <1>3, SwitchLemma, ZenonT(30)
    <3> QED BY <3>2, <3>1, <1>1, <1>2, <1>3, SwitchIInv, Zenon
  <2>2. CASE ~sched_pending
    <3>1. UNCHANGED <<cpuVars, tstate>>
      BY <2>2, Zenon DEF int81
    <3>2. tstate[t] = "RUNNING"
      BY <1>2, <2>2, Slots, ZenonT(30) DEF IInv, CpuInv
    <3> QED
      BY <3>1, <1>1, <1>2, <3>2, Zenon
         DEF cpuVars, TypeOK, procVars, IInv, SpaceInv, LoadedSpaceLive, CpuInv, RunningIsCurrent
  <2> QED BY <2>1, <2>2, Zenon
<1>5. TypeOK'
  BY <1>1, <1>2, <1>4, ZenonT(30)
     DEF TypeOK, TStates, procVars, listVars, waitVars, placeVars, sleepVars, kmainVars
<1> QED BY <1>2, <1>4, <1>5, QuietIInv, ZenonT(30) DEF placeVars

\* A kernel thread goes to sleep.
LEMMA SleepIInv ==
  ASSUME WellOrdered, IInv, NEW t \in Tid, NEW n \in Sleeps, sched_thread_sleep(t, n) PROVE IInv'
<1>1. TypeOK
  BY Zenon DEF IInv
<1>2. t = thread_current /\ pc[t] = "code"
  BY ZenonT(30) DEF sched_thread_sleep, KernelThread, At
<1>3. /\ wake_tick' = [wake_tick EXCEPT ![t] = n]
      /\ tstate' = [tstate EXCEPT ![t] = "SLEEPING"]
      /\ sleepq' = InsertAt(sleepq, DueWithin(n) + 1, t)
      /\ pc' = [pc EXCEPT ![t] = "yield"]
      /\ UNCHANGED <<procVars, listVars, waitVars, placeVars, cpuVars, rr_ticks_left,
                     tproc, runq, next_tid, kmainVars, panicked>>
  BY Zenon DEF sched_thread_sleep, sleepq_insert
<1>4. sleepq' \in Seq(Tid)
  <2>1. sleepq \in Seq(Tid) /\ DueWithin(n) \in 0 .. Len(sleepq)
    BY <1>1, DueLemma, ZenonT(30) DEF TypeOK
  <2>2. sleepq' = InsertAt(sleepq, DueWithin(n) + 1, t)
    BY <1>3, Zenon
  <2> QED BY <2>1, <2>2, InsertLemma, Zenon
<1>5. TypeOK'
  BY <1>1, <1>3, <1>4, SizesAssumption, ZenonT(30)
     DEF TypeOK, procVars, listVars, waitVars, placeVars, cpuVars, kmainVars
<1>6. CpuInv'
  BY <1>2, <1>3, ZenonT(30) DEF cpuVars, IInv, CpuInv, RunningIsCurrent, TypeOK
<1>7. LoadedSpaceLive'
  BY <1>3, ZenonT(30) DEF cpuVars, procVars, IInv, SpaceInv, LoadedSpaceLive
<1>8. \A u \in Tid : \A s \in {"UNUSED", "ZOMBIE", "BLOCKED"} : tstate'[u] = s <=> tstate[u] = s
  BY <1>1, <1>3, <1>2, CurrentFacts, ZenonT(30) DEF TypeOK
<1> QED
  BY <1>3, <1>5, <1>6, <1>7, <1>8, QuietIInv, ZenonT(30) DEF placeVars

\* Entering the wait loop, or leaving it without a child.
LEMMA WaitEdgeIInv ==
  ASSUME IInv, NEW t \in Tid,
         (\E f \in Waits : _waitpid(t, f)) \/ WaitNoChild(t)
  PROVE  IInv'
<1>1. tstate[t] = "RUNNING"
  BY CurrentFacts, Zenon DEF _waitpid, WaitNoChild, User, KernelThread, At
<1>2. PICK f \in Pid \cup {ANY}, c \in {"wait", "run"} :
        /\ cont' = [cont EXCEPT ![t] = c]
        /\ match_pid' = [match_pid EXCEPT ![t] = f]
        /\ UNCHANGED <<procVars, listVars, waitVars, mode, cpuVars, sleepVars, rr_ticks_left,
                       tstate, tproc, pc, runq, next_tid, kmainVars, panicked>>
  BY SizesAssumption, ZenonT(30) DEF _waitpid, WaitNoChild
<1>3. TypeOK'
  BY <1>2, ZenonT(30) DEF IInv, TypeOK, procVars, listVars, waitVars, sleepVars, kmainVars, cpuVars
<1>4. LoadedSpaceLive'
  BY <1>2, ZenonT(30) DEF IInv, SpaceInv, LoadedSpaceLive, cpuVars, procVars
<1>5. \A u \in Tid : tstate[u] = "BLOCKED" => match_pid'[u] = match_pid[u]
  BY <1>1, <1>2, ZenonT(30) DEF IInv, TypeOK
<1> QED BY <1>2, <1>3, <1>4, <1>5, QuietIInv, Zenon DEF IInv, CpuInv, RunningIsCurrent, cpuVars

\* The first process enters ring 3.
LEMMA EnterIInv == ASSUME IInv, NEW t \in Tid, enter_usermode(t) PROVE IInv'
<1> USE DEF enter_usermode
<1>1. TypeOK'
  BY ZenonT(30) DEF IInv, TypeOK, procVars, listVars, waitVars, sleepVars, kmainVars, cpuVars
<1>2. LoadedSpaceLive'
  BY ZenonT(30) DEF IInv, SpaceInv, LoadedSpaceLive, cpuVars, procVars
<1>3. \A u \in Tid : mode'[u] = "user" => mode[u] = "user" \/ addr_space[tproc[u]] # NULL
  BY ZenonT(30) DEF IInv, TypeOK
<1> QED BY <1>1, <1>2, <1>3, QuietIInv, Zenon DEF IInv, CpuInv, RunningIsCurrent, cpuVars

\* A fork that is undone leaves only a larger next_tid.
LEMMA ForkUndoneIInv == ASSUME WellOrdered, IInv, NEW t \in Tid, ForkUndone(t) PROVE IInv'
<1> USE DEF ForkUndone
<1>1. next_tid' \in Tid
  BY FreeSlots, Slots DEF IInv, Tid
<1>2. TypeOK'
  BY <1>1, ZenonT(30)
     DEF IInv, TypeOK, procVars, listVars, waitVars, placeVars, sleepVars, kmainVars, cpuVars
<1>3. CpuInv'
  BY ZenonT(30) DEF IInv, CpuInv, RunningIsCurrent, cpuVars
<1>4. LoadedSpaceLive'
  BY ZenonT(30) DEF IInv, SpaceInv, LoadedSpaceLive, cpuVars, procVars
<1> QED BY <1>2, <1>3, <1>4, QuietIInv, ZenonT(30) DEF placeVars

-----------------------------------------------------------------------------
(* Creating processes and threads.                                          *)

\* A thread for a live process, or for the slot proc_alloc has just taken.
LEMMA AddThreadLists ==
  ASSUME WellOrdered, IInv, NEW p \in Pid, NEW fresh \in BOOLEAN, NEW ring \in {"kernel", "user"},
         sched_add_thread(p, fresh, ring),
         pstate[p] = IF fresh THEN "UNUSED" ELSE "ALIVE",
         pstate' = [pstate EXCEPT ![p] = "ALIVE"]
  PROVE  /\ ListsInv' /\ RunqExact'
         /\ runq' \in Seq(Tid) /\ next_tid' \in Tid
         /\ thread_list' \in [Pid -> Seq(Tid)] /\ main_thread' \in [Pid -> Tid \cup {NULL}]
         /\ live_thread_count' \in [Pid -> Nat]
         /\ alloc_thread_slot \in Tid /\ tstate[alloc_thread_slot] = "UNUSED"
         /\ \A q \in Pid : q # p => thread_list'[q] = thread_list[q]
<1> DEFINE t == alloc_thread_slot
           first == fresh \/ main_thread[p] = NULL
<1>1. TypeOK /\ THREADS \in Nat \ {0} /\ NULL \notin Tid
  BY Slots, Zenon DEF IInv
<1>2. t \in Tid /\ tstate[t] = "UNUSED"
  BY <1>1, FreeSlots, ZenonT(30) DEF sched_add_thread
<1> HIDE DEF t
<1>3. /\ next_tid' = (t + 1) % THREADS
      /\ main_thread' = [main_thread EXCEPT ![p] = IF first THEN t ELSE @]
      /\ thread_list' = [thread_list EXCEPT ![p] = IF first THEN <<t>> ELSE Append(@, t)]
      /\ live_thread_count' = [live_thread_count EXCEPT ![p] = IF fresh THEN 1 ELSE @ + 1]
      /\ tstate' = [tstate EXCEPT ![t] = "RUNNABLE"]
      /\ tproc' = [tproc EXCEPT ![t] = p]
      /\ runq' = Append(runq, t)
  BY Zenon DEF Linked, sched_add_thread, t
<1>4. next_tid' \in Tid
  BY <1>2, <1>1, <1>3 DEF Tid
<1>5. t \notin Range(runq) /\ runq \in Seq(Tid)
  BY <1>2, Zenon DEF IInv, RunqExact, TypeOK
<1>6. runq' \in Seq(Tid) /\ RunqExact'
  <2>1. runq' \in Seq(Tid) /\ Range(runq') = Range(runq) \cup {t} /\ IsInjective(runq')
    BY <1>2, <1>3, <1>5, AppendLemma DEF IInv, RunqExact
  <2>2. \A u \in Tid : tstate'[u] # "UNUSED" <=> u = t \/ tstate[u] # "UNUSED"
    BY <1>1, <1>3, Zenon DEF TypeOK
  <2> QED BY <2>1, <2>2, <1>2, Zenon DEF RunqExact, IInv
<1>7. first <=> thread_list[p] = <<>>
  BY ZenonT(30) DEF IInv, ListsInv, ListInv
<1>8. thread_list[p] \in Seq(Tid) /\ t \notin Range(thread_list[p]) /\ IsInjective(thread_list[p])
  BY <1>1, <1>2 DEF IInv, ListsInv, ListInv, TypeOK
<1>9. thread_list'[p] = Append(thread_list[p], t)
  <2>1. Append(<<>>, t) = <<t>>
    BY EmptyLemma, Zenon
  <2> QED BY <2>1, <1>7, <1>1, <1>3, Zenon DEF TypeOK
<1>10. /\ thread_list'[p] \in Seq(Tid) /\ Range(thread_list'[p]) = Range(thread_list[p]) \cup {t}
       /\ Len(thread_list'[p]) = Len(thread_list[p]) + 1 /\ IsInjective(thread_list'[p])
  BY <1>2, <1>8, <1>9, AppendLemma
<1>11. \A q \in Pid : q # p => thread_list'[q] = thread_list[q]
  BY <1>3
<1>12. thread_list' \in [Pid -> Seq(Tid)]
  BY <1>1, <1>3, <1>10, Zenon DEF TypeOK
<1>13. /\ main_thread' \in [Pid -> Tid \cup {NULL}] /\ live_thread_count' \in [Pid -> Nat]
  <2>1. main_thread \in [Pid -> Tid \cup {NULL}] /\ live_thread_count \in [Pid -> Nat]
    BY <1>1, ZenonT(30) DEF TypeOK
  <2>2. live_thread_count' \in [Pid -> Nat]
    BY <2>1, <1>3
  <2> QED BY <2>2, <2>1, <1>2, <1>3, Zenon
<1>14. live_thread_count'[p] = Len(thread_list'[p])
  <2>1. CASE fresh
    BY <2>1, <1>1, <1>3, ZenonT(30) DEF TypeOK
  <2>2. CASE ~fresh
    <3>1. live_thread_count[p] = Len(thread_list[p])
      BY <2>2, Zenon DEF IInv, ListsInv, ListInv
    <3> QED BY <3>1, <1>1, <1>3, <1>10, ZenonT(30) DEF TypeOK
  <2> QED BY <2>1, <2>2, Zenon
<1>15. main_thread'[p] # NULL /\ thread_list'[p] # <<>>
  <2>1. Len(thread_list'[p]) # 0
    BY <1>10
  <2> QED BY <2>1, <1>1, <1>2, <1>3, Zenon DEF TypeOK
<1>16. \A u \in Range(thread_list[p]) : tstate[u] # "ZOMBIE"
  BY DEF Range, IInv, ListsInv, ListInv
<1>17. \A q \in Pid : \A u \in Range(thread_list[q]) :
         u \in Tid /\ u # t /\ tstate'[u] = tstate[u] /\ tproc'[u] = tproc[u]
  <2>1. \A q \in Pid : \A u \in Range(thread_list[q]) : u \in Tid /\ tstate[u] # "UNUSED"
    BY <1>1, Members, OnList, Zenon DEF IInv
  <2> QED BY <2>1, <1>1, <1>2, <1>3, ZenonT(30) DEF TypeOK
<1>18. ListsInv'
  <2>1. \A u \in Tid : u # t => tstate'[u] = tstate[u] /\ tproc'[u] = tproc[u]
    BY <1>1, <1>3, ZenonT(30) DEF TypeOK
  <2>2. tstate'[t] = "RUNNABLE" /\ tproc'[t] = p
    BY <1>1, <1>2, <1>3, ZenonT(30) DEF TypeOK
  <2>3. \A u \in Tid : tstate'[u] # "UNUSED" => tproc'[u] \in Pid
    BY <2>1, <2>2, ZenonT(30) DEF IInv, ListsInv, ListInv
  <2>4. \A u \in Tid : tstate'[u] \notin {"UNUSED", "ZOMBIE"} => u \in Range(thread_list'[tproc'[u]])
    <3>1. ASSUME NEW u \in Tid, u # t, tstate'[u] \notin {"UNUSED", "ZOMBIE"}
          PROVE  u \in Range(thread_list'[tproc'[u]])
      <4>1. tproc'[u] = tproc[u] /\ tproc[u] \in Pid /\ u \in Range(thread_list[tproc[u]])
        BY <3>1, <2>1, Zenon DEF IInv, ListsInv
      <4> QED BY <4>1, <1>10, <1>11
    <3> QED BY <3>1, <2>2, <1>10, Zenon
  <2>5. ASSUME NEW q \in Pid PROVE ListInv(q)'
    <3>1. CASE q = p
      <4>1. pstate'[q] = "ALIVE"
        BY <3>1, <1>1, ZenonT(30) DEF TypeOK
      <4>2. \A u \in Range(thread_list'[q]) :
              tstate'[u] # "UNUSED" /\ tproc'[u] = q /\ tstate'[u] # "ZOMBIE"
        <5>1. \A u \in Range(thread_list[p]) : tstate[u] # "UNUSED" /\ tproc[u] = p
          BY OnList, Zenon DEF IInv
        <5> QED BY <3>1, <2>2, <1>10, <1>16, <1>17, <5>1
      <4> QED BY <3>1, <4>1, <4>2, <1>10, <1>14, <1>15, ZenonT(30) DEF ListInv
    <3>2. CASE q # p
      <4>1. /\ thread_list'[q] = thread_list[q] /\ main_thread'[q] = main_thread[q]
            /\ live_thread_count'[q] = live_thread_count[q] /\ pstate'[q] = pstate[q]
        BY <3>2, <1>1, <1>3, ZenonT(30) DEF TypeOK
      <4> QED BY <4>1, ListSame, <1>17, Zenon DEF IInv
    <3> QED BY <3>1, <3>2, Zenon
  <2> QED BY <2>3, <2>4, <2>5, Zenon DEF ListsInv
<1> QED BY <1>2, <1>4, <1>6, <1>11, <1>12, <1>13, <1>18, ZenonT(30) DEF t

\* The fields of the new thread, and the other threads.
LEMMA AddThreadFields ==
  ASSUME WellOrdered, IInv, NEW p \in Pid, NEW fresh \in BOOLEAN, NEW ring \in {"kernel", "user"},
         sched_add_thread(p, fresh, ring)
  PROVE  LET t == alloc_thread_slot
         IN /\ t \in Tid /\ tstate[t] = "UNUSED"
            /\ tstate'[t] = "RUNNABLE" /\ tproc'[t] = p /\ wait_for'[t] = NONE /\ mode'[t] = ring
            /\ \A u \in Tid \ {t} : /\ tstate'[u] = tstate[u] /\ tproc'[u] = tproc[u]
                                    /\ wait_for'[u] = wait_for[u] /\ mode'[u] = mode[u]
                                    /\ match_pid'[u] = match_pid[u] /\ pc'[u] = pc[u]
            /\ tstate' \in [Tid -> TStates] /\ tproc' \in [Tid -> Pid \cup {NULL}]
            /\ wait_for' \in [Tid -> Pid \cup {ANY, NONE}] /\ wake_tick' \in [Tid -> Nat]
            /\ pc' \in [Tid -> {"code", "yield", "int"}]
            /\ cont' \in [Tid -> {"run", "wait", "dead"}]
            /\ match_pid' \in [Tid -> Pid \cup {ANY}] /\ mode' \in [Tid -> {"kernel", "user"}]
<1> DEFINE t == alloc_thread_slot
<1>1. t \in Tid /\ tstate[t] = "UNUSED"
  BY FreeSlots, ZenonT(30) DEF IInv, sched_add_thread
<1>2. /\ tstate' = [tstate EXCEPT ![t] = "RUNNABLE"]
      /\ tproc' = [tproc EXCEPT ![t] = p]
      /\ wait_for' = [wait_for EXCEPT ![t] = NONE]
      /\ wake_tick' = [wake_tick EXCEPT ![t] = 0]
      /\ pc' = [pc EXCEPT ![t] = "code"]
      /\ cont' = [cont EXCEPT ![t] = "run"]
      /\ match_pid' = [match_pid EXCEPT ![t] = ANY]
      /\ mode' = [mode EXCEPT ![t] = ring]
  BY Zenon DEF sched_add_thread
<1> HIDE DEF t
<1>3. /\ tstate'[t] = "RUNNABLE" /\ tproc'[t] = p /\ wait_for'[t] = NONE /\ mode'[t] = ring
      /\ \A u \in Tid \ {t} : /\ tstate'[u] = tstate[u] /\ tproc'[u] = tproc[u]
                              /\ wait_for'[u] = wait_for[u] /\ mode'[u] = mode[u]
                              /\ match_pid'[u] = match_pid[u] /\ pc'[u] = pc[u]
  BY <1>1, <1>2, ZenonT(30) DEF IInv, TypeOK
<1>4. /\ tstate' \in [Tid -> TStates] /\ tproc' \in [Tid -> Pid \cup {NULL}]
      /\ wait_for' \in [Tid -> Pid \cup {ANY, NONE}] /\ wake_tick' \in [Tid -> Nat]
  BY <1>2, ZenonT(30) DEF IInv, TypeOK, TStates
<1> QED BY <1>1, <1>3, <1>4, <1>2, Zenon DEF t, IInv, TypeOK


\* kmain and the kernel threads add a thread to a process that is alive.
LEMMA AddThreadIInv ==
  ASSUME WellOrdered, IInv, NEW p \in Pid, pstate[p] = "ALIVE", sched_add_thread(p, FALSE, "kernel"),
         UNCHANGED <<procVars, waiters, cpuVars, sleepq, rr_ticks_left, testproc, panicked>>,
         boot' = "halt" \/ (boot' = boot /\ ~(boot = "add" /\ testproc = p)),
         thread_current # NULL => tstate[thread_current] # "UNUSED"
  PROVE  IInv'
<1> DEFINE t == alloc_thread_slot
<1>1. TypeOK
  BY ZenonT(30) DEF IInv
<1>2. pstate' = [pstate EXCEPT ![p] = "ALIVE"]
  BY <1>1, Zenon DEF procVars, TypeOK
<1>3. /\ ListsInv' /\ RunqExact'
      /\ runq' \in Seq(Tid) /\ next_tid' \in Tid
      /\ thread_list' \in [Pid -> Seq(Tid)] /\ main_thread' \in [Pid -> Tid \cup {NULL}]
      /\ live_thread_count' \in [Pid -> Nat]
      /\ \A q \in Pid : q # p => thread_list'[q] = thread_list[q]
  BY <1>2, AddThreadLists, ZenonT(30)
<1>4. /\ t \in Tid /\ tstate[t] = "UNUSED"
      /\ tstate'[t] = "RUNNABLE" /\ tproc'[t] = p /\ wait_for'[t] = NONE /\ mode'[t] = "kernel"
      /\ \A u \in Tid \ {t} : /\ tstate'[u] = tstate[u] /\ tproc'[u] = tproc[u]
                              /\ wait_for'[u] = wait_for[u] /\ mode'[u] = mode[u]
                              /\ match_pid'[u] = match_pid[u] /\ pc'[u] = pc[u]
      /\ tstate' \in [Tid -> TStates] /\ tproc' \in [Tid -> Pid \cup {NULL}]
      /\ wait_for' \in [Tid -> Pid \cup {ANY, NONE}] /\ wake_tick' \in [Tid -> Nat]
      /\ pc' \in [Tid -> {"code", "yield", "int"}]
      /\ cont' \in [Tid -> {"run", "wait", "dead"}]
      /\ match_pid' \in [Tid -> Pid \cup {ANY}] /\ mode' \in [Tid -> {"kernel", "user"}]
  BY AddThreadFields, ZenonT(30)
<1> HIDE DEF t
<1>5. boot' \in {"alloc", "add", "halt"}
  BY <1>1, ZenonT(30) DEF TypeOK
<1>6. TypeOK'
  BY <1>1, <1>3, <1>4, <1>5, ZenonT(30) DEF TypeOK, TStates, procVars, cpuVars
<1>7. CpuInv'
  <2>1. thread_current # NULL => thread_current \in Tid \ {t}
    BY <1>1, <1>4, ZenonT(30) DEF TypeOK
  <2> QED BY <2>1, <1>4 DEF CpuInv, RunningIsCurrent, cpuVars, IInv
<1>8. WaitersExact'
  <2>1. WaitersExact /\ waiters' = waiters
    BY Zenon DEF IInv
  <2>2. \A u \in Tid : \A q \in Pid : tstate'[u] = "BLOCKED" /\ tproc'[u] = q
                                      <=> tstate[u] = "BLOCKED" /\ tproc[u] = q
    BY <1>4, ZenonT(30)
  <2>3. \A q \in Pid : /\ IsInjective(waiters'[q])
                       /\ Range(waiters'[q]) = {u \in Tid : tstate'[u] = "BLOCKED" /\ tproc'[u] = q}
    BY <2>1, <2>2, ZenonT(30) DEF WaitersExact
  <2> QED BY <2>3, <1>4, <2>1 DEF WaitersExact
<1>9. KinInv' /\ SpacesOwned' /\ NoPanic'
  BY KinSame, SpacesSame, Zenon DEF IInv, procVars, SpaceInv, NoPanic
<1>10. LoadedSpaceLive'
  BY <1>4, <1>1, Zenon DEF IInv, SpaceInv, LoadedSpaceLive, procVars, cpuVars, TypeOK
<1>11. SpaceInv'
  <2>1. ASSUME NEW u \in Tid, tstate'[u] \notin {"UNUSED", "ZOMBIE"}, mode'[u] = "user"
        PROVE  addr_space'[tproc'[u]] # NULL
    <3>1. u # t
      BY <2>1, <1>4, Zenon
    <3>2. tstate'[u] = tstate[u] /\ tproc'[u] = tproc[u] /\ mode'[u] = mode[u]
      BY <3>1, <1>4, Zenon
    <3> QED BY <2>1, <3>2, Zenon DEF IInv, SpaceInv, procVars
  <2> QED BY <2>1, <1>9, <1>10, Zenon DEF SpaceInv
<1> QED BY <1>3, <1>6, <1>7, <1>8, <1>9, <1>11, Zenon DEF IInv, BootInv, procVars, TypeOK

\* A kernel thread starts another one in its process.
LEMMA SiblingIInv == ASSUME WellOrdered, IInv, NEW t \in Tid, AddSibling(t) PROVE IInv'
<1>1. t = thread_current /\ pc[t] = "code"
  BY Zenon DEF AddSibling, KernelThread, At
<1>2. /\ tstate[t] = "RUNNING" /\ tproc[t] \in Pid /\ pstate[tproc[t]] = "ALIVE"
      /\ t \in Range(thread_list[tproc[t]])
  BY <1>1, CurrentFacts, ZenonT(30)
<1>3. ~(boot = "add" /\ testproc = tproc[t])
  BY <1>2, Slots DEF IInv, BootInv, Range
<1> QED
  BY <1>1, <1>2, <1>3, AddThreadIInv, ZenonT(30) DEF AddSibling, kmainVars

\* kmain gives the first process its thread.
LEMMA KmainAddIInv == ASSUME WellOrdered, IInv, KmainAddThread PROVE IInv'
<1>1. CASE ~(testproc # NULL /\ FreeThreads # {})
  <2> USE DEF KmainAddThread
  <2>1. UNCHANGED <<listVars, wait_for, placeVars, wake_tick, tstate, tproc, pc,
                    runq, next_tid>>
    BY <1>1, ZenonT(30)
  <2>2. ListsInv' /\ RunqExact' /\ NoPanic'
    BY <2>1, ZenonT(30) DEF IInv, ListsInv, ListInv, RunqExact, NoPanic, procVars, listVars
  <2>3. CpuInv' /\ WaitersExact'
    BY <2>1, ZenonT(30) DEF IInv, CpuInv, RunningIsCurrent, WaitersExact, placeVars, cpuVars
  <2> QED
    BY <2>2, <2>3, <2>1, KinSame, SpaceSame, Zenon
       DEF IInv, TypeOK, procVars, listVars, placeVars, cpuVars, BootInv
<1> QED BY <1>1, AddThreadIInv, Zenon DEF KmainAddThread, IInv, BootInv, TypeOK

\* A new process: its slot was free, so nothing refers to it.
LEMMA ProcAllocLemma ==
  ASSUME WellOrdered, IInv, NEW par \in Pid \cup {NULL}, proc_alloc(par, TRUE),
         par # NULL => pstate[par] = "ALIVE" /\ addr_space[par] # NULL
  PROVE  LET p == alloc_process_slot
         IN /\ p \in Pid /\ pstate[p] = "UNUSED" /\ pstate' = [pstate EXCEPT ![p] = "ALIVE"]
            /\ pstate' \in [Pid -> {"UNUSED", "ALIVE", "ZOMBIE"}]
            /\ parent' \in [Pid -> Pid \cup {NULL}] /\ children' \in [Pid -> Seq(Pid)]
            /\ addr_space' \in [Pid -> Mm \cup {NULL}] /\ mms' \in SUBSET Mm
            /\ waiters' \in [Pid -> Seq(Tid)] /\ waiters'[p] = <<>>
            /\ \A q \in Pid \ {p} : waiters'[q] = waiters[q] /\ addr_space'[q] = addr_space[q]
            /\ addr_space'[p] # NULL /\ mms \subseteq mms'
            /\ KinInv' /\ SpacesOwned'
<1> DEFINE p == alloc_process_slot
           m == Min(FreeMms)
<1>1. TypeOK
  BY ZenonT(30) DEF IInv
<1>2. p \in Pid /\ pstate[p] = "UNUSED" /\ m \in Mm /\ m \notin mms /\ NULL \notin Pid /\ NULL \notin Mm
  BY <1>1, FreeSlots, Slots, ZenonT(30) DEF proc_alloc
<1>3. /\ pstate' = [pstate EXCEPT ![p] = "ALIVE"]
      /\ parent' = [parent EXCEPT ![p] = par]
      /\ children' = [q \in Pid |-> IF q = p THEN <<>>
                                    ELSE IF q = par THEN Append(children[q], p)
                                    ELSE children[q]]
      /\ addr_space' = [addr_space EXCEPT ![p] = m]
      /\ mms' = mms \cup {m}
      /\ waiters' = [waiters EXCEPT ![p] = <<>>]
  BY ZenonT(30) DEF proc_alloc
<1> HIDE DEF p, m
<1>4. /\ pstate' \in [Pid -> {"UNUSED", "ALIVE", "ZOMBIE"}]
      /\ parent' \in [Pid -> Pid \cup {NULL}]
      /\ addr_space' \in [Pid -> Mm \cup {NULL}] /\ mms' \in SUBSET Mm
  BY <1>1, <1>2, <1>3, ZenonT(30) DEF TypeOK
<1>5. waiters' \in [Pid -> Seq(Tid)] /\ waiters'[p] = <<>>
  BY <1>1, <1>2, <1>3 DEF TypeOK
<1>6. /\ \A q \in Pid \ {p} : /\ waiters'[q] = waiters[q] /\ addr_space'[q] = addr_space[q]
                              /\ parent'[q] = parent[q] /\ pstate'[q] = pstate[q]
      /\ addr_space'[p] = m /\ parent'[p] = par /\ pstate'[p] = "ALIVE"
  BY <1>1, <1>2, <1>3, ZenonT(30) DEF TypeOK
<1>7. \A q \in Pid : /\ children[q] \in Seq(Pid) /\ Range(children[q]) \subseteq Pid
                     /\ p \notin Range(children[q])
  <2>1. \A q \in Pid : children[q] \in Seq(Pid)
    BY <1>1, ZenonT(30) DEF TypeOK
  <2> QED BY <2>1, <1>2 DEF Range, IInv, KinInv
<1>8. children'[p] = <<>> /\ Range(children'[p]) = {} /\ IsInjective(children'[p])
  <2>1. children'[p] = <<>>
    BY <1>2, <1>3, Zenon
  <2> QED BY <2>1, EmptyLemma, Zenon
<1>9. par # NULL => /\ par \in Pid /\ par # p
                    /\ children'[par] \in Seq(Pid) /\ IsInjective(children'[par])
                    /\ Range(children'[par]) = Range(children[par]) \cup {p}
  BY <1>2, <1>3, <1>7, AppendLemma DEF IInv, KinInv
<1>10. \A q \in Pid : q # p /\ q # par => children'[q] = children[q]
  BY <1>3, Zenon
<1>11. children' \in [Pid -> Seq(Pid)]
  <2>1. \A q \in Pid : children'[q] \in Seq(Pid)
    <3>1. children'[p] \in Seq(Pid)
      BY <1>8
    <3>2. ASSUME NEW q \in Pid, q # p PROVE children'[q] \in Seq(Pid)
      BY <1>2, <1>9, <3>2, <1>7, <1>10, ZenonT(30)
    <3> QED BY <3>1, <3>2, ZenonT(30)
  <2> QED BY <2>1, <1>3, Zenon
<1>12. KinInv'
  <2> SUFFICES ASSUME NEW q \in Pid
      PROVE  /\ IsInjective(children'[q])
             /\ \A c \in Range(children'[q]) :
                  /\ pstate'[q] # "UNUSED" /\ pstate'[c] # "UNUSED" /\ parent'[c] = q /\ c # q
                  /\ addr_space'[c] = NULL <=> addr_space'[q] = NULL
    BY Zenon DEF KinInv
  <2>1. CASE q = par
    <3>1. q # p /\ IsInjective(children'[q]) /\ Range(children'[q]) = Range(children[q]) \cup {p}
      BY <2>1, <1>2, <1>9, ZenonT(30)
    <3>2. pstate[q] = "ALIVE" /\ addr_space[q] # NULL
      BY <2>1, <1>2, ZenonT(30)
    <3>3. ASSUME NEW c \in Range(children[q])
          PROVE  pstate'[c] # "UNUSED" /\ parent'[c] = q /\ c # q /\ addr_space'[c] # NULL
      <4>1. c \in Pid \ {p}
        BY <1>7, Zenon
      <4>2. pstate[c] # "UNUSED" /\ parent[c] = q /\ c # q /\ addr_space[c] # NULL
        BY <3>2, Zenon DEF IInv, KinInv
      <4> QED BY <4>1, <4>2, <1>6, Zenon
    <3>4. pstate'[p] # "UNUSED" /\ parent'[p] = q /\ p # q /\ addr_space'[p] # NULL
      BY <2>1, <1>2, <1>6, ZenonT(30)
    <3> QED BY <3>1, <3>3, <3>4, <3>2, <1>6, Zenon
  <2>2. CASE q = p
    BY <2>2, <1>8, Zenon
  <2>3. CASE q # p /\ q # par
    <3>1. children'[q] = children[q] /\ pstate'[q] = pstate[q] /\ addr_space'[q] = addr_space[q]
      BY <2>3, <1>6, <1>10, Zenon
    <3>2. ASSUME NEW c \in Range(children[q])
          PROVE  /\ pstate'[q] # "UNUSED" /\ pstate'[c] # "UNUSED" /\ parent'[c] = q /\ c # q
                 /\ addr_space'[c] = NULL <=> addr_space'[q] = NULL
      <4>1. c \in Pid \ {p}
        BY <1>7, Zenon
      <4>2. /\ pstate[q] # "UNUSED" /\ pstate[c] # "UNUSED" /\ parent[c] = q /\ c # q
            /\ addr_space[c] = NULL <=> addr_space[q] = NULL
        BY Zenon DEF IInv, KinInv
      <4> QED BY <4>1, <4>2, <3>1, <1>6, Zenon
    <3> QED BY <3>1, <3>2, Zenon DEF IInv, KinInv
  <2> QED BY <2>1, <2>2, <2>3, Zenon
<1>13. SpacesOwned'
  BY <1>2, <1>3, <1>6 DEF IInv, SpaceInv, SpacesOwned, InUse
<1> QED BY <1>2, <1>3, <1>4, <1>5, <1>6, <1>11, <1>12, <1>13, ZenonT(30) DEF p


\* kmain allocates the first process.
LEMMA KmainProcIInv == ASSUME WellOrdered, IInv, KmainProcAlloc PROVE IInv'
<1> DEFINE p == alloc_process_slot
<1>1. /\ TypeOK /\ thread_current = NULL /\ boot' = "add"
      /\ UNCHANGED <<wait_for, placeVars, cpuVars, sleepVars, rr_ticks_left,
                     tstate, tproc, pc, runq, next_tid, panicked>>
  BY ZenonT(30) DEF IInv, KmainProcAlloc
<1>2. CASE /\ proc_alloc(NULL, TRUE) /\ testproc' = p
           /\ thread_list' = [thread_list EXCEPT ![p] = <<>>]
           /\ main_thread' = [main_thread EXCEPT ![p] = NULL]
           /\ live_thread_count' = [live_thread_count EXCEPT ![p] = 0]
  <2>1. /\ p \in Pid /\ pstate[p] = "UNUSED" /\ pstate' = [pstate EXCEPT ![p] = "ALIVE"]
        /\ pstate' \in [Pid -> {"UNUSED", "ALIVE", "ZOMBIE"}]
        /\ parent' \in [Pid -> Pid \cup {NULL}] /\ children' \in [Pid -> Seq(Pid)]
        /\ addr_space' \in [Pid -> Mm \cup {NULL}] /\ mms' \in SUBSET Mm
        /\ waiters' \in [Pid -> Seq(Tid)] /\ waiters'[p] = <<>>
        /\ \A q \in Pid \ {p} : waiters'[q] = waiters[q] /\ addr_space'[q] = addr_space[q]
        /\ addr_space'[p] # NULL /\ mms \subseteq mms'
        /\ KinInv' /\ SpacesOwned'
    BY <1>2, ProcAllocLemma, ZenonT(30)
  <2> HIDE DEF p
  <2>2. thread_list[p] = <<>> /\ main_thread[p] = NULL
    BY <2>1, ZenonT(30) DEF IInv, ListsInv, ListInv
  <2>3. UNCHANGED <<thread_list, main_thread>> /\ Len(thread_list[p]) = 0 /\ Range(thread_list[p]) = {}
    BY <1>1, <1>2, <2>2 DEF TypeOK, Range
  <2>4. live_thread_count' \in [Pid -> Nat]
    BY <1>1, <1>2, ZenonT(30) DEF TypeOK
  <2>5. TypeOK'
    BY <1>1, <1>2, <2>1, <2>3, <2>4, ZenonT(30) DEF TypeOK, placeVars, cpuVars, sleepVars
  <2>6. /\ \A q \in Pid \ {p} : pstate'[q] = pstate[q] /\ live_thread_count'[q] = live_thread_count[q]
        /\ pstate'[p] = "ALIVE" /\ live_thread_count'[p] = 0
    BY <1>1, <1>2, <2>1 DEF TypeOK
  <2>7. ListsInv'
    <3>1. ASSUME NEW q \in Pid PROVE ListInv(q)'
      <4>1. CASE q # p
        BY <4>1, <1>1, <2>3, <2>6, ListSame, Zenon DEF IInv
      <4>2. CASE q = p
        <5>1. /\ thread_list'[q] = <<>> /\ main_thread'[q] = NULL /\ live_thread_count'[q] = 0
              /\ pstate'[q] = "ALIVE"
          BY <4>2, <2>2, <2>3, <2>6, Zenon
        <5>2. Len(<<>>) = 0
          BY Zenon
        <5> QED BY <5>1, <5>2, EmptyLemma, Zenon DEF ListInv
      <4> QED BY <4>1, <4>2, Zenon
    <3> QED BY <3>1, <1>1, <2>3, Zenon DEF IInv, ListsInv
  <2>8. RunqExact' /\ NoPanic'
    BY <1>1, ZenonT(30) DEF IInv, RunqExact, NoPanic
  <2>9. CpuInv'
    BY <1>1, ZenonT(30) DEF IInv, CpuInv, RunningIsCurrent, cpuVars
  <2>10. WaitersExact'
    <3>1. IsInjective(waiters'[p]) /\ Range(waiters'[p]) = {}
      BY <2>1, EmptyLemma, Zenon
    <3>2. ASSUME NEW q \in Pid
          PROVE  /\ IsInjective(waiters'[q])
                 /\ Range(waiters'[q]) = {t \in Tid : tstate[t] = "BLOCKED" /\ tproc[t] = q}
      <4>1. CASE q # p
        <5>1. waiters'[q] = waiters[q]
          BY <4>1, <2>1, ZenonT(30)
        <5> QED BY <5>1, ZenonT(30) DEF IInv, WaitersExact
      <4> QED BY <4>1, <3>1, <2>3 DEF IInv, ListsInv, ListInv
    <3> QED BY <3>2, <1>1, ZenonT(30) DEF IInv, WaitersExact, placeVars
  <2>11. SpaceInv'
    <3>1. ASSUME NEW t \in Tid, tstate[t] \notin {"UNUSED", "ZOMBIE"}, mode[t] = "user"
          PROVE  addr_space'[tproc[t]] # NULL
      BY <3>1, <2>1, ZenonT(30) DEF IInv, SpaceInv, ListsInv
    <3> QED BY <3>1, <2>1, <1>1, Zenon DEF SpaceInv, placeVars, IInv, LoadedSpaceLive, cpuVars
  <2>12. BootInv'
    BY <1>1, <1>2, <2>2, <2>6 DEF BootInv
  <2> QED BY <2>1, <2>5, <2>7, <2>8, <2>9, <2>10, <2>11, <2>12, ZenonT(30) DEF IInv
<1>3. CASE UNCHANGED <<procVars, listVars, waiters, testproc>>
  <2>1. ListsInv' /\ RunqExact' /\ NoPanic'
    BY <1>1, <1>3, ZenonT(30) DEF IInv, ListsInv, ListInv, RunqExact, NoPanic, procVars, listVars
  <2>2. CpuInv' /\ WaitersExact'
    BY <1>1, <1>3, ZenonT(30) DEF IInv, CpuInv, RunningIsCurrent, WaitersExact, placeVars, cpuVars
  <2>3. KinInv' /\ SpaceInv'
    BY <1>3, KinSame, <1>1, SpaceSame, Zenon DEF IInv, procVars, placeVars, cpuVars
  <2>4. BootInv'
    BY <1>3, ZenonT(30) DEF IInv, KmainProcAlloc, BootInv
  <2> QED
    BY <2>1, <2>2, <2>3, <2>4, <1>1, <1>3, Zenon
       DEF IInv, TypeOK, procVars, listVars, placeVars, cpuVars, sleepVars
<1> QED BY <1>2, <1>3, ZenonT(30) DEF KmainProcAlloc

-----------------------------------------------------------------------------
(* Blocking.                                                                *)

\* waitpid blocks its thread and queues it.
LEMMA BlockIInv == ASSUME IInv, NEW t \in Tid, WaitBlock(t) PROVE IInv'
<1> DEFINE p == tproc[t]
<1>1. TypeOK /\ t = thread_current /\ pc[t] = "code"
  BY Zenon DEF IInv, WaitBlock, At
<1>2. tstate[t] = "RUNNING" /\ p \in Pid
  BY <1>1, CurrentFacts, Zenon
<1>3. /\ tstate' = [tstate EXCEPT ![t] = "BLOCKED"]
      /\ wait_for' = [wait_for EXCEPT ![t] = match_pid[t]]
      /\ waiters' = [waiters EXCEPT ![p] = <<t>> \o @]
      /\ pc' = [pc EXCEPT ![t] = "yield"]
      /\ UNCHANGED <<procVars, listVars, placeVars, cpuVars, sleepVars, rr_ticks_left,
                     tproc, runq, next_tid, kmainVars, panicked>>
  BY Zenon DEF WaitBlock
<1> HIDE DEF p
<1>4. waiters[p] \in Seq(Tid) /\ t \notin Range(waiters[p]) /\ IsInjective(waiters[p])
  BY <1>2, ZenonT(30) DEF TypeOK, IInv, WaitersExact
<1>5. /\ waiters'[p] \in Seq(Tid) /\ Range(waiters'[p]) = Range(waiters[p]) \cup {t}
      /\ IsInjective(waiters'[p])
  <2>1. waiters'[p] = <<t>> \o waiters[p]
    BY <1>1, <1>2, <1>3, Zenon DEF TypeOK
  <2> QED BY <2>1, <1>4, PushLemma
<1>6. \A q \in Pid \ {p} : waiters'[q] = waiters[q]
  BY <1>1, <1>3, Zenon DEF TypeOK
<1>7. TypeOK'
  BY <1>1, <1>3, <1>5, ZenonT(30)
     DEF TypeOK, procVars, listVars, placeVars, cpuVars, sleepVars, kmainVars
<1>8. tstate'[t] = "BLOCKED" /\ \A u \in Tid \ {t} : tstate'[u] = tstate[u]
  BY <1>1, <1>3, Zenon DEF TypeOK
<1>9. \A u \in Tid : \A k \in {"UNUSED", "ZOMBIE"} : tstate'[u] = k <=> tstate[u] = k
  BY <1>2, <1>8, ZenonT(30)
<1>10. ListsInv'
  <2>1. UNCHANGED <<pstate, thread_list, main_thread, live_thread_count, tproc>>
    BY <1>3, Zenon DEF procVars, listVars
  <2>2. \A q \in Pid : \A u \in Range(thread_list[q]) : u \in Tid
    BY <1>1, Members, Zenon
  <2>3. ASSUME NEW q \in Pid PROVE ListInv(q)'
    BY <2>1, <2>2, <1>9, ZenonT(30) DEF IInv, ListsInv, ListInv
  <2> QED BY <2>1, <2>3, <1>9, ZenonT(30) DEF IInv, ListsInv
<1>11. RunqExact'
  BY <1>3, <1>9, ZenonT(30) DEF IInv, RunqExact
<1>12. CpuInv'
  BY <1>3, ZenonT(30) DEF IInv, CpuInv, RunningIsCurrent, cpuVars, TypeOK
<1>13. WaitersExact'
  <2>1. ASSUME NEW q \in Pid
        PROVE  /\ IsInjective(waiters'[q])
               /\ Range(waiters'[q]) = {u \in Tid : tstate'[u] = "BLOCKED" /\ tproc'[u] = q}
    <3>1. Range(waiters[q]) = {u \in Tid : tstate[u] = "BLOCKED" /\ tproc[u] = q}
      BY Zenon DEF IInv, WaitersExact
    <3>2. CASE q # p
      <4>1. waiters'[q] = waiters[q] /\ IsInjective(waiters[q])
        BY <3>2, <1>6, Zenon DEF IInv, WaitersExact
      <4>2. \A u \in Tid : tstate'[u] = "BLOCKED" /\ tproc'[u] = q <=> tstate[u] = "BLOCKED" /\ tproc[u] = q
        BY <3>2, <1>3, <1>8, Zenon DEF p
      <4> QED BY <3>1, <4>1, <4>2, Zenon
    <3> QED BY <3>2, <3>1, <1>3, <1>5, <1>8, Zenon DEF p
  <2>2. \A u \in Tid : wait_for'[u] = IF tstate'[u] = "BLOCKED" THEN match_pid'[u] ELSE NONE
    BY <1>3, ZenonT(30) DEF IInv, WaitersExact, placeVars, TypeOK
  <2> QED BY <2>1, <2>2, ZenonT(30) DEF WaitersExact
<1>14. KinInv' /\ SpacesOwned' /\ NoPanic' /\ BootInv'
  BY <1>3, KinSame, SpacesSame, Zenon
     DEF IInv, SpaceInv, NoPanic, BootInv, procVars, listVars, kmainVars
<1>15. SpaceInv'
  BY <1>3, <1>9, <1>14, ZenonT(30) DEF IInv, SpaceInv, LoadedSpaceLive, procVars, cpuVars, placeVars
<1> QED BY <1>7, <1>10, <1>11, <1>12, <1>13, <1>14, <1>15, ZenonT(30) DEF IInv

-----------------------------------------------------------------------------
(* Exiting.                                                                 *)

\* wake_parent_waiter makes at most one BLOCKED thread RUNNABLE and keeps the
\* wait queues exact.  ts differs from tstate only in the thread that exits.
LEMMA WakeLemma ==
  ASSUME WellOrdered, IInv, NEW p \in Pid, NEW t \in Tid, tstate[t] = "RUNNING",
         NEW ts, ts = [tstate EXCEPT ![t] = "ZOMBIE"],
         wake_parent_waiter(p, ts), UNCHANGED <<tproc, match_pid>>
  PROVE  /\ WaitersExact' /\ waiters' \in [Pid -> Seq(Tid)]
         /\ wait_for' \in [Tid -> Pid \cup {ANY, NONE}] /\ tstate' \in [Tid -> TStates]
         /\ tstate'[t] = "ZOMBIE"
         /\ \A u \in Tid \ {t} : \/ tstate'[u] = tstate[u]
                                 \/ tstate[u] = "BLOCKED" /\ tstate'[u] = "RUNNABLE"
<1> DEFINE q == parent[p]
           hits == IF q = NULL THEN {}
                   ELSE {i \in DOMAIN waiters[q] : wait_for[waiters[q][i]] \in {ANY, p}}
           i == Min(hits)
           w == waiters[q][i]
<1>1. TypeOK /\ tstate \in [Tid -> TStates]
  BY ZenonT(30) DEF IInv, TypeOK, TStates
<1>2. ts \in [Tid -> TStates] /\ ts[t] = "ZOMBIE" /\ \A u \in Tid \ {t} : ts[u] = tstate[u]
  BY <1>1, Zenon DEF TStates
<1>3. CASE hits = {}
  <2>1. tstate' = ts /\ UNCHANGED waitVars
    BY <1>3, Zenon DEF WaitingFor, wake_parent_waiter
  <2> QED BY <2>1, <1>1, <1>2, ZenonT(30) DEF waitVars, TypeOK, IInv, WaitersExact
<1>4. CASE hits # {}
  <2>1. q \in Pid /\ i \in DOMAIN waiters[q]
    <3>1. q \in Pid
      BY <1>1, <1>4, ZenonT(30) DEF TypeOK
    <3>2. waiters[q] \in Seq(Tid)
      BY <3>1, <1>1, ZenonT(30) DEF TypeOK
    <3>3. hits \in SUBSET Nat
      BY <3>2
    <3> HIDE DEF q
    <3>4. i \in hits
      BY <1>4, <3>3, MinLemma, Zenon
    <3> QED BY <3>1, <1>4, <3>4, Zenon
  <2>2. /\ tstate' = [ts EXCEPT ![w] = "RUNNABLE"]
        /\ waiters' = [waiters EXCEPT ![q] = RemoveAt(@, i)]
        /\ wait_for' = [wait_for EXCEPT ![w] = NONE]
    BY <1>4, ZenonT(30) DEF WaitingFor, UnlinkWaiter, wake_parent_waiter
  <2> HIDE DEF q, i, hits
  <2>3. waiters[q] \in Seq(Tid) /\ IsInjective(waiters[q]) /\ w \in Range(waiters[q])
    BY <2>1, ZenonT(30) DEF TypeOK, IInv, WaitersExact, Range
  <2>4. w \in Tid /\ tstate[w] = "BLOCKED" /\ tproc[w] = q
    BY <2>1, <2>3, ZenonT(30) DEF IInv, WaitersExact
  <2>5. /\ waiters'[q] \in Seq(Tid) /\ Range(waiters'[q]) = Range(waiters[q]) \ {w}
        /\ IsInjective(waiters'[q])
    <3>1. waiters'[q] = RemoveAt(waiters[q], i)
      BY <2>1, <2>2, <1>1, ZenonT(30) DEF TypeOK
    <3> QED BY <3>1, <2>1, <2>3, RemoveLemma
  <2>6. \A r \in Pid \ {q} : waiters'[r] = waiters[r]
    BY <2>2, <1>1, Zenon DEF TypeOK
  <2> HIDE DEF w
  <2>7. waiters' \in [Pid -> Seq(Tid)]
    BY <2>2, <1>1, <2>5, Zenon DEF TypeOK
  <2>8. /\ tstate' \in [Tid -> TStates] /\ wait_for' \in [Tid -> Pid \cup {ANY, NONE}]
        /\ tstate'[w] = "RUNNABLE" /\ wait_for'[w] = NONE
        /\ \A u \in Tid \ {w} : tstate'[u] = ts[u] /\ wait_for'[u] = wait_for[u]
    BY <2>2, <2>4, <1>1, <1>2, ZenonT(30) DEF TypeOK, TStates
  <2>9. w # t
    BY <2>4, Zenon
  <2>10. tstate'[t] = "ZOMBIE" /\ \A u \in Tid \ {t, w} : tstate'[u] = tstate[u]
    BY <2>8, <2>9, <1>2, ZenonT(30)
  <2>11. ASSUME NEW r \in Pid
         PROVE  /\ IsInjective(waiters'[r])
                /\ Range(waiters'[r]) = {u \in Tid : tstate'[u] = "BLOCKED" /\ tproc'[u] = r}
    <3>1. \A u \in Tid : tstate'[u] = "BLOCKED" <=> tstate[u] = "BLOCKED" /\ u # w
      BY <2>8, <2>10, ZenonT(30)
    <3> QED BY <3>1, <2>5, <2>6, <2>4 DEF IInv, WaitersExact
  <2>12. WaitersExact'
    BY <2>11, <2>8 DEF WaitersExact, IInv
  <2> QED BY <2>4, <2>7, <2>8, <2>10, <2>12, ZenonT(30)
<1> QED BY <1>3, <1>4, ZenonT(30)


\* What every exit does, whether or not it is the last of its process.
LEMMA ExitFacts ==
  ASSUME IInv, NEW t \in Tid, sched_thread_exit(t)
  PROVE  LET p == tproc[t]
         IN /\ t = thread_current /\ tstate[t] = "RUNNING" /\ p \in Pid /\ pstate[p] = "ALIVE"
            /\ t \in Range(thread_list[p]) /\ thread_list[p] \in Seq(Tid)
            /\ live_thread_count[p] = Len(thread_list[p]) /\ Len(thread_list[p]) \in Nat \ {0}
            /\ live_thread_count' \in [Pid -> Nat]
            /\ live_thread_count'[p] = live_thread_count[p] - 1
            /\ \A q \in Pid \ {p} : live_thread_count'[q] = live_thread_count[q]
            /\ pc' \in [Tid -> {"code", "yield", "int"}] /\ pc'[t] = "yield"
            /\ cont' \in [Tid -> {"run", "wait", "dead"}]
            /\ ~(boot = "add" /\ testproc = p)
            /\ UNCHANGED <<parent, children, addr_space, mms, match_pid, mode, cpuVars,
                           sleepVars, rr_ticks_left, tproc, runq, next_tid, kmainVars>>
<1> DEFINE p == tproc[t]
<1>1. TypeOK /\ t = thread_current /\ pc[t] = "code"
  BY Zenon DEF IInv, sched_thread_exit, At
<1>2. /\ tstate[t] = "RUNNING" /\ p \in Pid /\ pstate[p] = "ALIVE"
      /\ t \in Range(thread_list[p])
  BY <1>1, CurrentFacts, ZenonT(30)
<1>3. /\ live_thread_count' = [live_thread_count EXCEPT ![p] = @ - 1]
      /\ pc' = [pc EXCEPT ![t] = "yield"]
      /\ cont' = [cont EXCEPT ![t] = "dead"]
      /\ UNCHANGED <<parent, children, addr_space, mms, match_pid, mode, cpuVars,
                     sleepVars, rr_ticks_left, tproc, runq, next_tid, kmainVars>>
  BY ZenonT(30) DEF sched_thread_exit
<1> HIDE DEF p
<1>4. thread_list[p] \in Seq(Tid) /\ thread_list[p] # <<>>
  BY <1>1, <1>2 DEF TypeOK, Range
<1>5. Len(thread_list[p]) \in Nat \ {0}
  BY <1>4
<1>6. live_thread_count[p] = Len(thread_list[p])
  BY <1>2, ZenonT(30) DEF IInv, ListsInv, ListInv
<1>7. /\ live_thread_count' \in [Pid -> Nat]
      /\ live_thread_count'[p] = live_thread_count[p] - 1
      /\ \A q \in Pid \ {p} : live_thread_count'[q] = live_thread_count[q]
  <2>1. live_thread_count \in [Pid -> Nat]
    BY <1>1, Zenon DEF TypeOK
  <2>2. live_thread_count' = [live_thread_count EXCEPT ![p] = @ - 1]
    BY <1>3, Zenon
  <2> QED BY <2>1, <2>2, <1>2, <1>5, <1>6
<1>8. /\ pc' \in [Tid -> {"code", "yield", "int"}] /\ pc'[t] = "yield"
      /\ cont' \in [Tid -> {"run", "wait", "dead"}]
  BY <1>1, <1>3, ZenonT(30) DEF TypeOK
<1>9. ~(boot = "add" /\ testproc = p)
  BY <1>2, <1>4, Slots, ZenonT(30) DEF IInv, BootInv
<1> QED BY <1>1, <1>2, <1>3, <1>4, <1>5, <1>6, <1>7, <1>8, <1>9, ZenonT(30) DEF p

\* The last thread of a process.
LEMMA LastExitLists ==
  ASSUME WellOrdered, IInv, NEW t \in Tid, sched_thread_exit(t), live_thread_count[tproc[t]] = 1
  PROVE  /\ ListsInv' /\ WaitersExact' /\ waiters' \in [Pid -> Seq(Tid)]
         /\ wait_for' \in [Tid -> Pid \cup {ANY, NONE}] /\ tstate' \in [Tid -> TStates]
         /\ tstate'[t] = "ZOMBIE"
         /\ \A u \in Tid \ {t} : \/ tstate'[u] = tstate[u]
                                 \/ tstate[u] = "BLOCKED" /\ tstate'[u] = "RUNNABLE"
<1> DEFINE p == tproc[t]
<1>1. TypeOK
  BY Zenon DEF IInv
<1>2. /\ tstate[t] = "RUNNING" /\ p \in Pid /\ pstate[p] = "ALIVE"
      /\ t \in Range(thread_list[p]) /\ thread_list[p] \in Seq(Tid)
      /\ Len(thread_list[p]) = 1
      /\ \A q \in Pid \ {p} : live_thread_count'[q] = live_thread_count[q]
      /\ UNCHANGED <<match_pid, tproc>>
  BY ExitFacts, ZenonT(30)
<1>3. /\ pstate' = [pstate EXCEPT ![p] = "ZOMBIE"]
      /\ wake_parent_waiter(p, [tstate EXCEPT ![t] = "ZOMBIE"])
      /\ UNCHANGED <<thread_list, main_thread, panicked>>
  BY ZenonT(30) DEF sched_thread_exit
<1> HIDE DEF p
<1>4. /\ WaitersExact' /\ waiters' \in [Pid -> Seq(Tid)]
      /\ wait_for' \in [Tid -> Pid \cup {ANY, NONE}] /\ tstate' \in [Tid -> TStates]
      /\ tstate'[t] = "ZOMBIE"
      /\ \A u \in Tid \ {t} : \/ tstate'[u] = tstate[u]
                              \/ tstate[u] = "BLOCKED" /\ tstate'[u] = "RUNNABLE"
  BY <1>2, <1>3, WakeLemma, ZenonT(30)
<1>5. Range(thread_list[p]) = {t}
  BY <1>2, SingletonLemma, Zenon
<1>6. \A u \in Tid \ {t} : \A k \in {"UNUSED", "ZOMBIE"} : tstate'[u] = k <=> tstate[u] = k
  BY <1>4, ZenonT(30)
<1>7. \A q \in Pid : thread_list[q] \in Seq(Tid) /\ Range(thread_list[q]) \subseteq Tid
  <2>1. \A q \in Pid : thread_list[q] \in Seq(Tid)
    BY <1>1, ZenonT(30) DEF TypeOK
  <2> QED BY <2>1 DEF Range
<1>8. pstate'[p] = "ZOMBIE" /\ \A q \in Pid \ {p} : pstate'[q] = pstate[q]
  BY <1>1, <1>2, <1>3, ZenonT(30) DEF TypeOK
<1>9. ListsInv'
  <2>1. \A u \in Tid : tstate'[u] \notin {"UNUSED", "ZOMBIE"} => u \in Range(thread_list'[tproc'[u]])
    BY <1>2, <1>3, <1>6, ZenonT(30) DEF IInv, ListsInv
  <2>2. ASSUME NEW q \in Pid PROVE ListInv(q)'
    <3>1. CASE q = p
      BY <1>2, <3>1, <1>3, <1>4, <1>5, <1>8, ZenonT(30) DEF IInv, ListsInv, p, ListInv
    <3>2. CASE q # p
      <4>1. \A u \in Range(thread_list[q]) : u \in Tid \ {t} /\ tstate[u] # "UNUSED" /\ tproc[u] = q
        BY <3>2, <1>7, OnList, ZenonT(30) DEF IInv, p
      <4>2. /\ \A u \in Range(thread_list[q]) : tproc'[u] = tproc[u]
            /\ thread_list'[q] = thread_list[q] /\ main_thread'[q] = main_thread[q]
            /\ live_thread_count'[q] = live_thread_count[q] /\ pstate'[q] = pstate[q]
        BY <3>2, <1>2, <1>3, <1>8, ZenonT(30)
      <4>3. ListInv(q)
        BY ZenonT(30) DEF IInv, ListsInv
      <4> QED BY <4>1, <4>2, <4>3, <1>6, ZenonT(30) DEF ListInv
    <3> QED BY <3>1, <3>2, Zenon
  <2> QED BY <2>1, <2>2, <1>2, <1>6, Zenon DEF ListsInv, IInv
<1> QED BY <1>4, <1>9, ZenonT(30)

\* Any other thread: it is found on the list, and leaves it.
LEMMA OtherExitLists ==
  ASSUME WellOrdered, IInv, NEW t \in Tid, sched_thread_exit(t), live_thread_count[tproc[t]] # 1
  PROVE  /\ ListsInv' /\ UNCHANGED <<pstate, waitVars, panicked>>
         /\ thread_list' \in [Pid -> Seq(Tid)] /\ main_thread' \in [Pid -> Tid \cup {NULL}]
         /\ \A q \in Pid \ {tproc[t]} : thread_list'[q] = thread_list[q]
         /\ tstate' \in [Tid -> TStates] /\ tstate'[t] = "ZOMBIE"
         /\ \A u \in Tid \ {t} : tstate'[u] = tstate[u]
<1> DEFINE p  == tproc[t]
           at == {i \in DOMAIN thread_list[p] : thread_list[p][i] = t}
           k  == Min(at)
           l  == RemoveAt(thread_list[p], k)
<1>1. TypeOK
  BY ZenonT(30) DEF IInv
<1>2. /\ tstate[t] = "RUNNING" /\ p \in Pid /\ pstate[p] = "ALIVE"
      /\ t \in Range(thread_list[p]) /\ thread_list[p] \in Seq(Tid)
      /\ live_thread_count[p] = Len(thread_list[p]) /\ Len(thread_list[p]) \in Nat \ {0}
      /\ live_thread_count'[p] = live_thread_count[p] - 1
      /\ \A q \in Pid \ {p} : live_thread_count'[q] = live_thread_count[q]
      /\ UNCHANGED tproc
  BY ExitFacts, ZenonT(30)
<1>3. at # {} /\ k \in DOMAIN thread_list[p] /\ thread_list[p][k] = t
  <2>1. at \in SUBSET Nat
    <3>1. DOMAIN thread_list[p] \subseteq Nat
      BY <1>2, MemberLemma, Zenon
    <3> QED BY <3>1, Zenon
  <2> QED BY <2>1, MinLemma, <1>2, ZenonT(30) DEF Range
<1>4. /\ tstate' = [tstate EXCEPT ![t] = "ZOMBIE"]
      /\ thread_list' = [thread_list EXCEPT ![p] = l]
      /\ main_thread' = [main_thread EXCEPT ![p] =
           IF k > 1 THEN @ ELSE IF l = <<>> THEN NULL ELSE l[1]]
      /\ UNCHANGED <<pstate, waitVars, panicked>>
  BY <1>3, Zenon DEF sched_thread_exit
<1> HIDE DEF at, k
<1>5. IsInjective(thread_list[p])
  BY <1>2, ZenonT(30) DEF IInv, ListsInv, ListInv
<1>6. /\ l \in Seq(Tid) /\ Range(l) = Range(thread_list[p]) \ {t}
      /\ Len(l) = Len(thread_list[p]) - 1 /\ IsInjective(l)
  BY <1>2, <1>3, <1>5, RemoveLemma
<1> HIDE DEF l, p
<1>7. thread_list'[p] = l /\ \A q \in Pid \ {p} : thread_list'[q] = thread_list[q]
  BY <1>1, <1>2, <1>4, ZenonT(30) DEF TypeOK
<1>8. thread_list' \in [Pid -> Seq(Tid)]
  BY <1>1, <1>4, <1>6, Zenon DEF TypeOK
<1>9. l # <<>> => l[1] \in Tid
  BY <1>6
<1>10. /\ main_thread'[p] = (IF k > 1 THEN main_thread[p] ELSE IF l = <<>> THEN NULL ELSE l[1])
       /\ \A q \in Pid \ {p} : main_thread'[q] = main_thread[q]
       /\ main_thread' \in [Pid -> Tid \cup {NULL}]
  BY <1>1, <1>2, <1>4, <1>9, ZenonT(30) DEF TypeOK
<1>11. main_thread'[p] = NULL <=> l = <<>>
  BY <1>2, <1>6, <1>10, Slots DEF IInv, ListsInv, ListInv
<1>12. /\ tstate' \in [Tid -> TStates] /\ tstate'[t] = "ZOMBIE"
       /\ \A u \in Tid \ {t} : tstate'[u] = tstate[u]
  BY <1>1, <1>4, ZenonT(30) DEF TypeOK, TStates
<1>13. \A q \in Pid : thread_list[q] \in Seq(Tid) /\ Range(thread_list[q]) \subseteq Tid
  <2>1. \A q \in Pid : thread_list[q] \in Seq(Tid)
    BY <1>1, ZenonT(30) DEF TypeOK
  <2> QED BY <2>1 DEF Range
<1>14. ListsInv'
  <2>1. \A u \in Tid : tstate'[u] # "UNUSED" => tproc'[u] \in Pid
    BY <1>2, <1>12, ZenonT(30) DEF IInv, ListsInv
  <2>2. \A u \in Tid : tstate'[u] \notin {"UNUSED", "ZOMBIE"} => u \in Range(thread_list'[tproc'[u]])
    <3>1. ASSUME NEW u \in Tid, tstate'[u] \notin {"UNUSED", "ZOMBIE"}
          PROVE  u \in Range(thread_list'[tproc'[u]])
      <4>1. u # t /\ tproc'[u] = tproc[u] /\ tproc[u] \in Pid /\ u \in Range(thread_list[tproc[u]])
        BY <3>1, <1>2, <1>12, ZenonT(30) DEF IInv, ListsInv
      <4> QED BY <4>1, <1>6, <1>7, Zenon
    <3> QED BY <3>1, ZenonT(30)
  <2>3. ASSUME NEW q \in Pid PROVE ListInv(q)'
    <3>1. CASE q = p
      <4>1. \A u \in Range(l) : u \in Tid \ {t} /\ tstate[u] \notin {"UNUSED", "ZOMBIE"} /\ tproc[u] = p
        BY <1>2, <1>6, <1>13, ZenonT(30) DEF IInv, ListsInv, ListInv
      <4>2. pstate'[q] = "ALIVE"
        BY <3>1, <1>2, <1>4, ZenonT(30)
      <4>3. live_thread_count'[q] = Len(l)
        BY <3>1, <1>2, <1>6, ZenonT(30)
      <4>4. \A u \in Range(l) : tstate'[u] \notin {"UNUSED", "ZOMBIE"} /\ tproc'[u] = p
        BY <4>1, <1>2, <1>12, ZenonT(30)
      <4> QED BY <3>1, <4>2, <4>3, <4>4, <1>6, <1>7, <1>11, ZenonT(30) DEF ListInv
    <3>2. CASE q # p
      <4>1. /\ thread_list'[q] = thread_list[q] /\ main_thread'[q] = main_thread[q]
            /\ live_thread_count'[q] = live_thread_count[q] /\ pstate'[q] = pstate[q]
        BY <3>2, <1>2, <1>4, <1>7, <1>10, ZenonT(30)
      <4>2. \A u \in Range(thread_list[q]) : tstate'[u] = tstate[u] /\ tproc'[u] = tproc[u]
        <5>1. ASSUME NEW u \in Range(thread_list[q]) PROVE u \in Tid /\ u # t
          BY <1>2, <1>13, <3>2, OnList, ZenonT(30) DEF IInv, p
        <5> QED BY <5>1, <1>2, <1>12, Zenon
      <4> QED BY <4>1, <4>2, ListSame, Zenon DEF IInv
    <3> QED BY <3>1, <3>2, ZenonT(30)
  <2> QED BY <2>1, <2>2, <2>3, ZenonT(30) DEF ListsInv
<1> QED BY <1>4, <1>8, <1>10, <1>12, <1>14, ZenonT(30) DEF p

\* What an exit changes, of either kind.
LEMMA ExitChanges ==
  ASSUME WellOrdered, IInv, NEW t \in Tid, sched_thread_exit(t)
  PROVE  /\ ListsInv' /\ WaitersExact'
         /\ waiters' \in [Pid -> Seq(Tid)] /\ wait_for' \in [Tid -> Pid \cup {ANY, NONE}]
         /\ tstate' \in [Tid -> TStates] /\ tstate'[t] = "ZOMBIE"
         /\ \A u \in Tid \ {t} : \/ tstate'[u] = tstate[u]
                                 \/ tstate[u] = "BLOCKED" /\ tstate'[u] = "RUNNABLE"
         /\ pstate' \in [Pid -> {"UNUSED", "ALIVE", "ZOMBIE"}] /\ pstate'[tproc[t]] # "UNUSED"
         /\ \A q \in Pid \ {tproc[t]} : pstate'[q] = pstate[q]
         /\ \A q \in Pid \ {tproc[t]} : thread_list'[q] = thread_list[q]
         /\ thread_list' \in [Pid -> Seq(Tid)] /\ main_thread' \in [Pid -> Tid \cup {NULL}]
         /\ UNCHANGED panicked
<1>1. TypeOK
  BY ZenonT(30) DEF IInv
<1>2. tproc[t] \in Pid /\ pstate[tproc[t]] = "ALIVE"
  BY ExitFacts, Zenon
<1>3. pstate \in [Pid -> {"UNUSED", "ALIVE", "ZOMBIE"}]
  BY <1>1, Zenon DEF TypeOK
<1>4. CASE live_thread_count[tproc[t]] = 1
  <2>1. UNCHANGED thread_list /\ UNCHANGED main_thread /\ UNCHANGED panicked
    BY <1>4, Zenon DEF sched_thread_exit
  <2>2. /\ pstate' \in [Pid -> {"UNUSED", "ALIVE", "ZOMBIE"}] /\ pstate'[tproc[t]] # "UNUSED"
        /\ \A q \in Pid \ {tproc[t]} : pstate'[q] = pstate[q]
    BY <1>2, <1>3, Zenon DEF sched_thread_exit
  <2> QED BY <2>1, <2>2, <1>4, LastExitLists, <1>1, ZenonT(30) DEF TypeOK
<1>5. CASE live_thread_count[tproc[t]] # 1
  <2>1. /\ ListsInv' /\ UNCHANGED <<pstate, waitVars, panicked>>
        /\ thread_list' \in [Pid -> Seq(Tid)] /\ main_thread' \in [Pid -> Tid \cup {NULL}]
        /\ \A q \in Pid \ {tproc[t]} : thread_list'[q] = thread_list[q]
        /\ tstate' \in [Tid -> TStates] /\ tstate'[t] = "ZOMBIE"
        /\ \A u \in Tid \ {t} : tstate'[u] = tstate[u]
    BY <1>5, OtherExitLists, ZenonT(30)
  <2>2. /\ UNCHANGED pstate /\ UNCHANGED panicked
        /\ UNCHANGED waiters /\ UNCHANGED wait_for /\ UNCHANGED match_pid /\ UNCHANGED tproc
    BY <2>1, ExitFacts, Zenon DEF waitVars
  <2>3. \A u \in Tid : tstate'[u] = "BLOCKED" <=> tstate[u] = "BLOCKED"
    <3>1. tstate'[t] = "ZOMBIE" /\ \A u \in Tid : u # t => tstate'[u] = tstate[u]
      BY <2>1, ZenonT(30)
    <3> QED BY <3>1, ExitFacts, ZenonT(30)
  <2>4. WaitersExact'
    BY <2>2, <2>3, ZenonT(30) DEF IInv, WaitersExact
  <2>5. pstate' \in [Pid -> {"UNUSED", "ALIVE", "ZOMBIE"}] /\ pstate'[tproc[t]] # "UNUSED"
    BY <2>2, <1>2, <1>3, Zenon
  <2> QED BY <2>1, <2>2, <2>4, <2>5, <1>1, ZenonT(30) DEF TypeOK
<1> QED BY <1>4, <1>5, ZenonT(30)

\* A thread exits, and with its last one the process.
LEMMA ExitIInv == ASSUME WellOrdered, IInv, NEW t \in Tid, sched_thread_exit(t) PROVE IInv'
<1> DEFINE p == tproc[t]
<1>1. TypeOK
  BY Zenon DEF IInv
<1>2. t = thread_current /\ tstate[t] = "RUNNING" /\ p \in Pid /\ pstate[p] = "ALIVE"
  BY ExitFacts, ZenonT(30)
<1>3. /\ live_thread_count' \in [Pid -> Nat]
      /\ pc' \in [Tid -> {"code", "yield", "int"}] /\ pc'[t] = "yield"
      /\ cont' \in [Tid -> {"run", "wait", "dead"}]
  BY ExitFacts, ZenonT(30)
<1>4. UNCHANGED <<parent, children, addr_space, mms, match_pid, mode, cpuVars,
                  sleepVars, rr_ticks_left, tproc, runq, next_tid, kmainVars>>
  BY ExitFacts, ZenonT(30)
<1>5. ListsInv' /\ WaitersExact' /\ UNCHANGED panicked
  BY ExitChanges, ZenonT(30)
<1>6. /\ waiters' \in [Pid -> Seq(Tid)] /\ wait_for' \in [Tid -> Pid \cup {ANY, NONE}]
      /\ tstate' \in [Tid -> TStates] /\ pstate' \in [Pid -> {"UNUSED", "ALIVE", "ZOMBIE"}]
      /\ thread_list' \in [Pid -> Seq(Tid)] /\ main_thread' \in [Pid -> Tid \cup {NULL}]
  BY ExitChanges, ZenonT(30)
<1>7. /\ tstate'[t] = "ZOMBIE"
      /\ \A u \in Tid \ {t} : \/ tstate'[u] = tstate[u]
                              \/ tstate[u] = "BLOCKED" /\ tstate'[u] = "RUNNABLE"
  BY ExitChanges, ZenonT(30)
<1>8. /\ pstate'[p] # "UNUSED"
      /\ \A q \in Pid \ {p} : pstate'[q] = pstate[q]
      /\ \A q \in Pid \ {p} : thread_list'[q] = thread_list[q]
  BY ExitChanges, ZenonT(30)
<1>9. ~(boot = "add" /\ testproc = p)
  BY ExitFacts, ZenonT(30)
<1> HIDE DEF p
<1>10. TypeOK'
  <2>1. /\ UNCHANGED parent /\ UNCHANGED children /\ UNCHANGED addr_space /\ UNCHANGED mms
        /\ UNCHANGED match_pid /\ UNCHANGED mode /\ UNCHANGED tproc /\ UNCHANGED runq
        /\ UNCHANGED next_tid /\ UNCHANGED rr_ticks_left
    BY <1>4, ZenonT(30)
  <2>2. UNCHANGED cpuVars /\ UNCHANGED sleepVars /\ UNCHANGED kmainVars
    BY <1>4, Zenon
  <2> QED
    BY <2>1, <2>2, <1>1, <1>3, <1>5, <1>6, ZenonT(30)
       DEF TypeOK, TStates, cpuVars, sleepVars, kmainVars
<1>11. \A u \in Tid : /\ tstate'[u] = "UNUSED" <=> tstate[u] = "UNUSED"
                      /\ tstate'[u] = "ZOMBIE" \/ tstate[u] # "ZOMBIE"
                      /\ tstate'[u] = "RUNNING" => u # t /\ tstate[u] = "RUNNING"
  BY <1>2, <1>7, ZenonT(30)
<1>12. RunqExact'
  BY <1>4, <1>11, Zenon DEF IInv, RunqExact
<1>13. CpuInv'
  BY <1>2, <1>11, <1>4, <1>3, <1>7, ZenonT(30) DEF IInv, CpuInv, RunningIsCurrent, cpuVars
<1>14. \A q \in Pid : pstate'[q] = "UNUSED" <=> pstate[q] = "UNUSED"
  BY <1>2, <1>8, ZenonT(30)
<1>15. KinInv'
  <2>1. \A q \in Pid : children[q] \in Seq(Pid) /\ Range(children[q]) \subseteq Pid
    <3>1. \A q \in Pid : children[q] \in Seq(Pid)
      BY <1>1, Zenon DEF TypeOK
    <3> QED BY <3>1 DEF Range
  <2>2. UNCHANGED parent /\ UNCHANGED children /\ UNCHANGED addr_space
    BY <1>4, ZenonT(30)
  <2> QED BY <2>1, <2>2, <1>14, ZenonT(30) DEF IInv, KinInv
<1>16. SpaceInv'
  <2>1. LoadedSpaceLive'
    BY <1>4, ZenonT(30) DEF cpuVars, IInv, SpaceInv, LoadedSpaceLive
  <2>3. SpacesOwned'
    <3>1. UNCHANGED <<addr_space, mms>> /\ SpacesOwned
      BY <1>4, Zenon DEF IInv, SpaceInv
    <3> QED BY <3>1, <1>14, Zenon DEF SpacesOwned, InUse
  <2>2. ASSUME NEW u \in Tid, tstate'[u] \notin {"UNUSED", "ZOMBIE"}, mode'[u] = "user"
        PROVE  addr_space'[tproc'[u]] # NULL
    BY <2>2, <1>4, <1>11, ZenonT(30) DEF IInv, SpaceInv
  <2> QED BY <2>1, <2>2, <2>3, Zenon DEF SpaceInv
<1>17. BootInv' /\ NoPanic'
  BY <1>4, <1>5, <1>8, <1>9, Zenon DEF kmainVars, TypeOK, IInv, BootInv, NoPanic
<1> QED BY <1>5, <1>10, <1>12, <1>13, <1>15, <1>16, <1>17, ZenonT(30) DEF IInv

-----------------------------------------------------------------------------
(* Fork and exec.                                                           *)

\* fork makes a process and its thread.
LEMMA ForkIInv == ASSUME WellOrdered, IInv, NEW t \in Tid, _fork(t) PROVE IInv'
<1> DEFINE p == alloc_process_slot
           n == alloc_thread_slot
           par == tproc[t]
<1>1. /\ TypeOK /\ t = thread_current /\ pc[t] = "code" /\ mode[t] = "user"
      /\ UNCHANGED <<cpuVars, sleepq, rr_ticks_left, kmainVars, panicked>>
  BY Zenon DEF IInv, _fork, User, At
<1>2. /\ tstate[t] = "RUNNING" /\ par \in Pid /\ pstate[par] = "ALIVE" /\ addr_space[par] # NULL
  BY <1>1, CurrentFacts, ZenonT(30) DEF IInv, SpaceInv
<1>3. /\ p \in Pid /\ pstate[p] = "UNUSED" /\ pstate' = [pstate EXCEPT ![p] = "ALIVE"]
      /\ pstate' \in [Pid -> {"UNUSED", "ALIVE", "ZOMBIE"}]
      /\ parent' \in [Pid -> Pid \cup {NULL}] /\ children' \in [Pid -> Seq(Pid)]
      /\ addr_space' \in [Pid -> Mm \cup {NULL}] /\ mms' \in SUBSET Mm
      /\ waiters' \in [Pid -> Seq(Tid)] /\ waiters'[p] = <<>>
      /\ \A q \in Pid \ {p} : waiters'[q] = waiters[q] /\ addr_space'[q] = addr_space[q]
      /\ addr_space'[p] # NULL /\ mms \subseteq mms'
      /\ KinInv' /\ SpacesOwned'
  BY <1>2, ProcAllocLemma, ZenonT(30) DEF _fork
<1>4. /\ ListsInv' /\ RunqExact'
      /\ runq' \in Seq(Tid) /\ next_tid' \in Tid
      /\ thread_list' \in [Pid -> Seq(Tid)] /\ main_thread' \in [Pid -> Tid \cup {NULL}]
      /\ live_thread_count' \in [Pid -> Nat]
      /\ \A q \in Pid : q # p => thread_list'[q] = thread_list[q]
  BY <1>3, AddThreadLists, ZenonT(30) DEF _fork
<1>5. /\ n \in Tid /\ tstate[n] = "UNUSED"
      /\ tstate'[n] = "RUNNABLE" /\ tproc'[n] = p /\ wait_for'[n] = NONE /\ mode'[n] = "user"
      /\ \A u \in Tid \ {n} : /\ tstate'[u] = tstate[u] /\ tproc'[u] = tproc[u]
                              /\ wait_for'[u] = wait_for[u] /\ mode'[u] = mode[u]
                              /\ match_pid'[u] = match_pid[u] /\ pc'[u] = pc[u]
      /\ tstate' \in [Tid -> TStates] /\ tproc' \in [Tid -> Pid \cup {NULL}]
      /\ wait_for' \in [Tid -> Pid \cup {ANY, NONE}] /\ wake_tick' \in [Tid -> Nat]
      /\ pc' \in [Tid -> {"code", "yield", "int"}]
      /\ cont' \in [Tid -> {"run", "wait", "dead"}]
      /\ match_pid' \in [Tid -> Pid \cup {ANY}] /\ mode' \in [Tid -> {"kernel", "user"}]
  BY <1>3, AddThreadFields, ZenonT(30) DEF _fork
<1> HIDE DEF p, n, par
<1>6. TypeOK'
  BY <1>1, <1>3, <1>4, <1>5, ZenonT(30) DEF TypeOK, TStates, cpuVars, kmainVars
<1>7. t \in Tid \ {n}
  BY <1>2, <1>5, ZenonT(30)
<1>8. CpuInv'
  BY <1>1, <1>5 DEF cpuVars, IInv, CpuInv, RunningIsCurrent
<1>9. WaitersExact'
  <2>1. Range(thread_list[p]) = {}
    BY <1>3 DEF IInv, ListsInv, ListInv, Range
  <2>2. \A u \in Tid : tstate[u] = "BLOCKED" => tproc[u] # p
    BY <2>1, Zenon DEF IInv, ListsInv
  <2>3. ASSUME NEW q \in Pid
        PROVE  /\ IsInjective(waiters'[q])
               /\ Range(waiters'[q]) = {u \in Tid : tstate[u] = "BLOCKED" /\ tproc[u] = q}
    <3>1. CASE q = p
      BY <3>1, <2>2, <1>3 DEF IsInjective, Range
    <3>2. CASE q # p
      <4>1. waiters'[q] = waiters[q]
        BY <3>2, <1>3, Zenon
      <4> QED BY <4>1, Zenon DEF IInv, WaitersExact
    <3> QED BY <3>1, <3>2, Zenon
  <2>4. \A u \in Tid : \A q \in Pid : tstate'[u] = "BLOCKED" /\ tproc'[u] = q
                                      <=> tstate[u] = "BLOCKED" /\ tproc[u] = q
    BY <1>5, Zenon
  <2>5. \A u \in Tid : wait_for'[u] = IF tstate'[u] = "BLOCKED" THEN match_pid'[u] ELSE NONE
    BY <1>5 DEF IInv, WaitersExact
  <2> QED BY <2>3, <2>4, <2>5, ZenonT(30) DEF WaitersExact
<1>10. LoadedSpaceLive'
  <2>1. par # p /\ tproc'[t] = par /\ addr_space'[par] = addr_space[par]
    BY <1>2, <1>3, <1>5, <1>7, ZenonT(30) DEF par
  <2> QED BY <2>1, <1>1, <1>3, ZenonT(30) DEF IInv, SpaceInv, LoadedSpaceLive, cpuVars, par
<1>11. \A u \in Tid : tstate'[u] \notin {"UNUSED", "ZOMBIE"} /\ mode'[u] = "user" =>
                        addr_space'[tproc'[u]] # NULL
  <2>1. ASSUME NEW u \in Tid \ {n}, tstate[u] \notin {"UNUSED", "ZOMBIE"}, mode[u] = "user"
        PROVE  addr_space'[tproc[u]] # NULL
    <3>1. addr_space[tproc[u]] # NULL
      BY <2>1, Zenon DEF IInv, SpaceInv
    <3> QED BY <3>1, <1>3, <2>1, Zenon DEF IInv, ListsInv
  <2>2. addr_space'[tproc'[n]] # NULL
    BY <1>3, <1>5, ZenonT(30)
  <2> QED BY <2>1, <2>2, <1>5
<1>12. BootInv' /\ NoPanic'
  <2>1. testproc # NULL /\ boot = "add" => testproc \in Pid /\ testproc # p
    BY <1>3, ZenonT(30) DEF IInv, BootInv, TypeOK
  <2>2. \A q \in Pid : q # p => pstate'[q] = pstate[q]
    BY <1>3, ZenonT(30)
  <2> QED BY <2>1, <2>2, <1>1, <1>4, ZenonT(30) DEF IInv, BootInv, NoPanic, kmainVars
<1>13. SpaceInv'
  BY <1>3, <1>10, <1>11, ZenonT(30) DEF SpaceInv
<1> QED BY <1>3, <1>4, <1>6, <1>8, <1>9, <1>12, <1>13, ZenonT(30) DEF IInv

\* execve replaces the space of the current process.
LEMMA ExecIInv == ASSUME WellOrdered, IInv, NEW t \in Tid, _execve(t) PROVE IInv'
<1> DEFINE p == tproc[t]
           m == Min(FreeMms)
<1>1. TypeOK /\ t = thread_current /\ pc[t] = "code" /\ mode[t] = "user"
  BY Zenon DEF IInv, _execve, User, At
<1>2. tstate[t] = "RUNNING" /\ p \in Pid /\ pstate[p] = "ALIVE" /\ addr_space[p] # NULL
  BY <1>1, CurrentFacts, Zenon DEF IInv, SpaceInv
<1>3. m \in Mm /\ m \notin mms /\ NULL \notin Mm
  BY <1>1, FreeSlots, Slots, ZenonT(30) DEF _execve
<1>4. /\ addr_space' = [addr_space EXCEPT ![p] = m] /\ cr3' = m
      /\ mms' = (mms \cup {m}) \ {addr_space[p]}
      /\ panicked' = (addr_space[p] = m)
      /\ UNCHANGED <<pstate, parent, children, listVars, waitVars, placeVars,
                     thread_current, sched_pending, sleepVars, rr_ticks_left, tstate,
                     tproc, pc, runq, next_tid, kmainVars>>
  BY Zenon DEF _execve
<1> HIDE DEF p, m
<1>5. addr_space'[p] = m /\ \A q \in Pid \ {p} : addr_space'[q] = addr_space[q]
  BY <1>1, <1>2, <1>4, ZenonT(30) DEF TypeOK
<1>6. \A q \in Pid : addr_space[q] # NULL => addr_space[q] \in mms
  BY ZenonT(30) DEF IInv, SpaceInv, SpacesOwned
<1>7. TypeOK'
  BY <1>1, <1>2, <1>3, <1>4, Zenon DEF TypeOK, listVars, waitVars, placeVars, sleepVars, kmainVars
<1>8. ListsInv' /\ RunqExact' /\ WaitersExact' /\ BootInv'
  <2>1. /\ UNCHANGED pstate /\ UNCHANGED tstate /\ UNCHANGED tproc /\ UNCHANGED runq
        /\ UNCHANGED listVars /\ UNCHANGED waitVars /\ UNCHANGED placeVars /\ UNCHANGED kmainVars
    BY <1>4, Zenon
  <2>2. /\ UNCHANGED thread_list /\ UNCHANGED main_thread /\ UNCHANGED live_thread_count
        /\ UNCHANGED waiters /\ UNCHANGED wait_for /\ UNCHANGED match_pid
        /\ UNCHANGED boot /\ UNCHANGED testproc
    BY <2>1, Zenon DEF listVars, waitVars, placeVars, kmainVars
  <2>3. BootInv'
    BY <2>1, <2>2, ZenonT(30) DEF IInv, BootInv
  <2>4. ListsInv'
    <3>1. ASSUME NEW q \in Pid PROVE ListInv(q)'
      BY <2>1, <2>2, ListSame, Zenon DEF IInv
    <3> QED BY <3>1, <2>1, <2>2, Zenon DEF IInv, ListsInv
  <2> QED BY <2>3, <2>4, <2>1, <2>2, ZenonT(30) DEF IInv, RunqExact, WaitersExact
<1>9. CpuInv' /\ NoPanic'
  BY <1>4, <1>2, <1>3, <1>6, Zenon DEF IInv, CpuInv, RunningIsCurrent, NoPanic
<1>10. KinInv'
  <2>1. \A q \in Pid : addr_space'[q] = NULL <=> addr_space[q] = NULL
    BY <1>2, <1>3, <1>5, Zenon
  <2>2. \A q \in Pid : Range(children[q]) \subseteq Pid
    BY <1>1, Members, Zenon
  <2>3. pstate' = pstate /\ parent' = parent /\ children' = children
    BY <1>4, Zenon
  <2>4. ASSUME NEW q \in Pid, NEW c \in Range(children[q])
        PROVE  /\ pstate[q] # "UNUSED" /\ pstate[c] # "UNUSED" /\ parent[c] = q /\ c # q
               /\ addr_space'[c] = NULL <=> addr_space'[q] = NULL
    <3>1. c \in Pid
      BY <2>2, Zenon
    <3> QED BY <3>1, <2>1, Zenon DEF IInv, KinInv
  <2>5. \A q \in Pid : IsInjective(children[q])
    BY Zenon DEF IInv, KinInv
  <2> QED BY <2>3, <2>4, <2>5, Zenon DEF KinInv
<1>11. SpacesOwned'
  <2>1. mms' = {addr_space'[q] : q \in Pid} \ {NULL}
    <3>1. /\ mms = {addr_space[q] : q \in Pid} \ {NULL}
          /\ \A q \in Pid \ {p} : addr_space[q] # addr_space[p] \/ addr_space[q] = NULL
      BY <1>2, Zenon DEF IInv, SpaceInv, SpacesOwned
    <3>2. ASSUME NEW x \in mms' PROVE x \in {addr_space'[q] : q \in Pid} \ {NULL}
      <4>1. CASE x = m
        BY <4>1, <1>2, <1>3, <1>5, Zenon
      <4>2. CASE x \in mms /\ x # addr_space[p]
        <5>1. PICK q \in Pid : x = addr_space[q] /\ x # NULL
          BY <4>2, <3>1, Zenon
        <5> QED BY <5>1, <4>2, <1>5, Zenon
      <4> QED BY <4>1, <4>2, <3>2, <1>4, Zenon
    <3>3. ASSUME NEW q \in Pid, addr_space'[q] # NULL PROVE addr_space'[q] \in mms'
      <4>1. CASE q = p
        <5>1. m # addr_space[p]
          BY <1>2, <1>3, <1>6, Zenon
        <5>2. m \in mms'
          BY <5>1, <1>4, Zenon
        <5> QED BY <4>1, <5>2, <1>5, Zenon
      <4>2. CASE q # p
        <5>1. addr_space'[q] = addr_space[q]
          BY <4>2, <1>5, Zenon
        <5>2. addr_space[q] \in mms /\ addr_space[q] # addr_space[p]
          BY <4>2, <5>1, <3>1, <3>3, <1>6, Zenon
        <5>3. addr_space[q] \in (mms \cup {m}) \ {addr_space[p]}
          BY <5>2, Zenon
        <5>4. mms' = (mms \cup {m}) \ {addr_space[p]}
          BY <1>4, Zenon
        <5> QED BY <5>1, <5>3, <5>4, Zenon
      <4> QED BY <4>1, <4>2, Zenon
    <3> QED BY <3>2, <3>3, Zenon
  <2>2. \A q \in Pid : addr_space'[q] # NULL => pstate'[q] # "UNUSED"
    BY <1>2, <1>4, <1>5, ZenonT(30) DEF IInv, SpaceInv, SpacesOwned, InUse
  <2> QED BY <2>1, <2>2, <1>3, <1>5, <1>6, ZenonT(30) DEF SpacesOwned, InUse, IInv, SpaceInv
<1>12. LoadedSpaceLive'
  <2>1. m \in mms'
    BY <1>2, <1>3, <1>4, <1>6, ZenonT(30)
  <2> QED BY <2>1, <1>1, <1>4, <1>5, ZenonT(30) DEF LoadedSpaceLive, p
<1>13. SpaceInv'
  <2>1. ASSUME NEW u \in Tid, tstate'[u] \notin {"UNUSED", "ZOMBIE"}, mode'[u] = "user"
        PROVE  addr_space'[tproc'[u]] # NULL
    <3>1. /\ tproc'[u] = tproc[u] /\ tproc[u] \in Pid /\ addr_space[tproc[u]] # NULL
      BY <2>1, <1>4, ZenonT(30) DEF IInv, ListsInv, SpaceInv, placeVars
    <3> QED BY <3>1, <1>3, <1>5, Zenon
  <2> QED BY <2>1, <1>11, <1>12, Zenon DEF SpaceInv
<1> QED BY <1>7, <1>8, <1>9, <1>10, <1>13, ZenonT(30) DEF IInv

-----------------------------------------------------------------------------
(* Reaping.                                                                 *)

\* The child a waitpid picks is a listed child and a zombie.
LEMMA ReapFacts ==
  ASSUME WellOrdered, IInv, NEW t \in Tid, WaitReap(t)
  PROVE  LET p == tproc[t]
             c == children[p][Min(Zombies(t))]
         IN /\ t = thread_current /\ tstate[t] = "RUNNING" /\ p \in Pid /\ pstate[p] = "ALIVE"
            /\ c \in Pid /\ c \in Range(children[p]) /\ pstate[c] = "ZOMBIE" /\ parent[c] = p /\ c # p
            /\ proc_reap_child(p, c)
            /\ cont' = [u \in Tid |-> IF u = t \/ u \in Range(thread_list[c]) THEN "run" ELSE cont[u]]
            /\ match_pid' = [match_pid EXCEPT ![t] = ANY]
            /\ UNCHANGED <<cpuVars, wake_tick, rr_ticks_left, next_tid, kmainVars>>
<1> DEFINE p == tproc[t]
           k == Min(Zombies(t))
           c == children[p][k]
<1>1. TypeOK /\ t = thread_current /\ pc[t] = "code"
  BY Zenon DEF IInv, WaitReap, At
<1>2. tstate[t] = "RUNNING" /\ p \in Pid /\ pstate[p] = "ALIVE"
  BY <1>1, CurrentFacts, ZenonT(30)
<1>3. children[p] \in Seq(Pid)
  BY <1>1, <1>2, ZenonT(30) DEF TypeOK
<1>4. k \in DOMAIN children[p] /\ pstate[c] = "ZOMBIE"
  <2>1. Zombies(t) \in SUBSET Nat /\ Zombies(t) # {}
    <3>1. Zombies(t) \subseteq DOMAIN children[p]
      BY Zenon DEF Zombies, Matching
    <3>2. DOMAIN children[p] \subseteq Nat
      BY <1>3, MemberLemma, Zenon
    <3> QED BY <3>1, <3>2, Zenon DEF WaitReap
  <2> QED BY <2>1, MinLemma, Zenon DEF Zombies, Matching
<1>5. c \in Pid /\ c \in Range(children[p])
  <2>1. c \in Range(children[p])
    BY <1>4, Zenon DEF Range
  <2> QED BY <2>1, <1>3, MemberLemma, Zenon
<1>6. parent[c] = p /\ c # p
  BY <1>2, <1>5, ZenonT(30) DEF IInv, KinInv
<1>7. /\ proc_reap_child(p, c)
      /\ cont' = [u \in Tid |-> IF u = t \/ u \in Range(thread_list[c]) THEN "run" ELSE cont[u]]
      /\ match_pid' = [match_pid EXCEPT ![t] = ANY]
      /\ UNCHANGED <<cpuVars, wake_tick, rr_ticks_left, next_tid, kmainVars>>
  BY <1>6, Zenon DEF WaitReap
<1> QED BY <1>1, <1>2, <1>4, <1>5, <1>6, <1>7, ZenonT(30)

\* waitpid frees a zombie child, its threads and its space.
LEMMA ReapIInv == ASSUME WellOrdered, IInv, NEW t \in Tid, WaitReap(t) PROVE IInv'
<1> DEFINE p == tproc[t]
           c == children[p][Min(Zombies(t))]
           dead == Range(thread_list[c])
           at == {i \in DOMAIN children[p] : children[p][i] = c}
<1>1. TypeOK
  BY ZenonT(30) DEF IInv
<1>2. /\ t = thread_current /\ tstate[t] = "RUNNING" /\ p \in Pid /\ pstate[p] = "ALIVE"
      /\ c \in Pid /\ c \in Range(children[p]) /\ pstate[c] = "ZOMBIE" /\ parent[c] = p /\ c # p
      /\ proc_reap_child(p, c)
      /\ cont' = [u \in Tid |-> IF u = t \/ u \in Range(thread_list[c]) THEN "run" ELSE cont[u]]
      /\ match_pid' = [match_pid EXCEPT ![t] = ANY]
      /\ UNCHANGED <<cpuVars, wake_tick, rr_ticks_left, next_tid, kmainVars>>
  BY ReapFacts, ZenonT(30)
<1> HIDE DEF c
<1>3. /\ runq' \in Without(runq, dead) /\ sleepq' \in Without(sleepq, dead)
      /\ tstate' = [u \in Tid |-> IF u \in dead THEN "UNUSED" ELSE tstate[u]]
      /\ tproc' = [u \in Tid |-> IF u \in dead THEN NULL ELSE tproc[u]]
      /\ wait_for' = [u \in Tid |-> IF u \in dead THEN NONE ELSE wait_for[u]]
      /\ pc' = [u \in Tid |-> IF u \in dead THEN "code" ELSE pc[u]]
      /\ mode' = [u \in Tid |-> IF u \in dead THEN "kernel" ELSE mode[u]]
  BY <1>2, ZenonT(30) DEF ThreadsOf, proc_reap_child
<1>4. /\ thread_list' = [thread_list EXCEPT ![c] = <<>>]
      /\ main_thread' = [main_thread EXCEPT ![c] = NULL]
      /\ live_thread_count' = [live_thread_count EXCEPT ![c] = 0]
      /\ pstate' = [pstate EXCEPT ![c] = "UNUSED"]
      /\ parent' = [parent EXCEPT ![c] = NULL]
      /\ children' = [q \in Pid |-> IF q = c THEN <<>>
                                    ELSE IF q = p THEN RemoveAt(children[q], Min(at))
                                    ELSE children[q]]
      /\ waiters' = [waiters EXCEPT ![c] = <<>>]
      /\ addr_space' = [addr_space EXCEPT ![c] = NULL]
      /\ mms' = mms \ {addr_space[c]}
      /\ panicked' = (addr_space[c] # NULL /\ addr_space[c] = cr3)
  BY <1>2, Zenon DEF ThreadsOf, proc_reap_child
<1> HIDE DEF p, at
<1>5. \A q \in Pid : thread_list[q] \in Seq(Tid) /\ Range(thread_list[q]) \subseteq Tid
  BY <1>1, Members, Zenon DEF TypeOK
<1>6. \A u \in dead : u \in Tid /\ tstate[u] = "ZOMBIE" /\ tproc[u] = c
  <2>1. ListInv(c)
    BY <1>2, Zenon DEF IInv, ListsInv
  <2> QED BY <2>1, <1>2, <1>5, Zenon DEF ListInv
<1>7. \A u \in Tid : tproc[u] = c /\ tstate[u] \notin {"UNUSED", "ZOMBIE"} => FALSE
  BY <1>6, ZenonT(30) DEF IInv, ListsInv
<1> HIDE DEF dead
<1>8. /\ \A u \in Tid \ dead : /\ tstate'[u] = tstate[u] /\ tproc'[u] = tproc[u]
                               /\ wait_for'[u] = wait_for[u] /\ pc'[u] = pc[u] /\ mode'[u] = mode[u]
      /\ \A u \in dead : tstate'[u] = "UNUSED" /\ wait_for'[u] = NONE
  BY <1>3, <1>6, ZenonT(30)
<1>9. t \in Tid \ dead
  BY <1>2, <1>6, ZenonT(30)
<1>10. /\ \A q \in Pid \ {c} : /\ thread_list'[q] = thread_list[q] /\ main_thread'[q] = main_thread[q]
                               /\ live_thread_count'[q] = live_thread_count[q]
                               /\ pstate'[q] = pstate[q] /\ parent'[q] = parent[q]
                               /\ waiters'[q] = waiters[q] /\ addr_space'[q] = addr_space[q]
       /\ thread_list'[c] = <<>> /\ main_thread'[c] = NULL /\ pstate'[c] = "UNUSED"
       /\ waiters'[c] = <<>> /\ addr_space'[c] = NULL
  BY <1>1, <1>2, <1>4, ZenonT(30) DEF TypeOK
<1>11. /\ children[p] \in Seq(Pid) /\ IsInjective(children[p])
       /\ \A q \in Pid : children[q] \in Seq(Pid) /\ Range(children[q]) \subseteq Pid
  <2>1. \A q \in Pid : children[q] \in Seq(Pid)
    BY <1>1, ZenonT(30) DEF TypeOK
  <2> QED BY <2>1, <1>1, <1>2, Members, Zenon DEF IInv, KinInv
<1>12. /\ children'[p] \in Seq(Pid) /\ Range(children'[p]) = Range(children[p]) \ {c}
       /\ IsInjective(children'[p])
  <2>1. at # {} /\ at \in SUBSET Nat
    <3>1. DOMAIN children[p] \subseteq Nat
      BY <1>11, MemberLemma, Zenon
    <3> QED BY <3>1, <1>2, Zenon DEF at, Range
  <2>2. Min(at) \in DOMAIN children[p] /\ children[p][Min(at)] = c
    BY <2>1, MinLemma, Zenon DEF at
  <2>3. children'[p] = RemoveAt(children[p], Min(at))
    BY <1>2, <1>4, Zenon
  <2> DEFINE i == Min(at)
             s == children[p]
  <2>4. s \in Seq(Pid) /\ i \in DOMAIN s /\ IsInjective(s) /\ s[i] = c
    BY <2>2, <1>11, Zenon
  <2> HIDE DEF i, s
  <2>5. RemoveAt(s, i) \in Seq(Pid) /\ Range(RemoveAt(s, i)) = Range(s) \ {c} /\ IsInjective(RemoveAt(s, i))
    BY <2>4, RemoveLemma
  <2> QED BY <2>3, <2>5, Zenon DEF i, s
<1>13. children'[c] = <<>> /\ \A q \in Pid \ {c, p} : children'[q] = children[q]
  BY <1>2, <1>4, ZenonT(30)
<1>14. runq' \in Seq(Tid) /\ sleepq' \in Seq(Tid) /\ RunqExact'
  <2>1. runq \in Seq(Tid) /\ sleepq \in Seq(Tid) /\ IsInjective(runq)
        /\ Range(runq) = {u \in Tid : tstate[u] # "UNUSED"}
    BY ZenonT(30) DEF TypeOK, IInv, RunqExact
  <2>2. sleepq' \in Seq(Tid)
    BY <2>1, <1>3, WithoutLemma, ZenonT(30)
  <2>3. runq' \in Seq(Tid) /\ Range(runq') = Range(runq) \ dead /\ IsInjective(runq')
    BY <2>1, <1>3, WithoutLemma, ZenonT(30)
  <2>4. \A u \in Tid : tstate'[u] # "UNUSED" <=> u \notin dead /\ tstate[u] # "UNUSED"
    BY <1>8, ZenonT(30)
  <2>5. Range(runq') = {u \in Tid : tstate'[u] # "UNUSED"}
    BY <2>1, <2>3, <2>4, Zenon
  <2> QED BY <2>2, <2>3, <2>5, Zenon DEF RunqExact
<1>15. TypeOK'
  <2>1. <<>> \in Seq(Tid)
    OBVIOUS
  <2>2. thread_list' \in [Pid -> Seq(Tid)] /\ waiters' \in [Pid -> Seq(Tid)]
    BY <1>1, <2>1, <1>4, Zenon DEF TypeOK
  <2>3. children' \in [Pid -> Seq(Pid)]
    BY <1>4, <1>11, <1>12
  <2>4. /\ tstate' \in [Tid -> TStates] /\ tproc' \in [Tid -> Pid \cup {NULL}]
        /\ wait_for' \in [Tid -> Pid \cup {ANY, NONE}]
        /\ pc' \in [Tid -> {"code", "yield", "int"}]
        /\ mode' \in [Tid -> {"kernel", "user"}]
    BY <1>1, <1>3, Zenon DEF TypeOK, TStates
  <2>5. cont' \in [Tid -> {"run", "wait", "dead"}] /\ match_pid' \in [Tid -> Pid \cup {ANY}]
    BY <1>1, <1>2, ZenonT(30) DEF TypeOK
  <2>6. /\ main_thread' \in [Pid -> Tid \cup {NULL}] /\ live_thread_count' \in [Pid -> Nat]
        /\ pstate' \in [Pid -> {"UNUSED", "ALIVE", "ZOMBIE"}]
        /\ parent' \in [Pid -> Pid \cup {NULL}]
        /\ addr_space' \in [Pid -> Mm \cup {NULL}] /\ mms' \in SUBSET Mm
    BY <1>1, <1>4, ZenonT(30) DEF TypeOK
  <2>7. panicked' \in BOOLEAN
    BY <1>4, Zenon
  <2> QED
    BY <2>2, <2>3, <2>4, <2>5, <2>6, <2>7, <1>1, <1>2, <1>14, ZenonT(30)
       DEF TypeOK, TStates, cpuVars, kmainVars
<1>16. ListsInv'
  <2>1. \A u \in Tid : tstate'[u] # "UNUSED" => tproc'[u] \in Pid
    BY <1>8, ZenonT(30) DEF IInv, ListsInv
  <2>2. ASSUME NEW u \in Tid, tstate'[u] \notin {"UNUSED", "ZOMBIE"}
        PROVE  u \in Range(thread_list'[tproc'[u]])
    <3>1. tproc'[u] = tproc[u] /\ tproc[u] \in Pid \ {c} /\ u \in Range(thread_list[tproc[u]])
      BY <2>2, <1>7, <1>8, ZenonT(30) DEF IInv, ListsInv
    <3> QED BY <3>1, <1>10, Zenon
  <2>3. ASSUME NEW q \in Pid PROVE ListInv(q)'
    <3>1. CASE q = c
      <4>1. thread_list'[q] = <<>> /\ main_thread'[q] = NULL /\ pstate'[q] = "UNUSED"
        BY <3>1, <1>10, Zenon
      <4> QED BY <4>1, EmptyLemma, Zenon DEF ListInv
    <3>2. CASE q # c
      <4>1. \A u \in Range(thread_list[q]) : u \in Tid \ dead
        BY <3>2, <1>5, <1>6, OnList, ZenonT(30) DEF IInv
      <4> QED BY <4>1, <3>2, <1>8, <1>10, ListSame, Zenon DEF IInv
    <3> QED BY <3>1, <3>2, ZenonT(30)
  <2> QED BY <2>1, <2>2, <2>3, ZenonT(30) DEF ListsInv
<1>17. CpuInv'
  BY <1>2, <1>8, <1>9, ZenonT(30) DEF IInv, CpuInv, RunningIsCurrent, cpuVars
<1>18. WaitersExact'
  <2>1. \A u \in Tid : tstate'[u] = "BLOCKED" <=> tstate[u] = "BLOCKED"
    BY <1>6, <1>8, ZenonT(30)
  <2>2. ASSUME NEW q \in Pid
        PROVE  /\ IsInjective(waiters'[q])
               /\ Range(waiters'[q]) = {u \in Tid : tstate'[u] = "BLOCKED" /\ tproc'[u] = q}
    <3>1. \A u \in Tid : tstate'[u] = "BLOCKED" /\ tproc'[u] = q <=> tstate[u] = "BLOCKED" /\ tproc[u] = q
      BY <2>1, <1>8, ZenonT(30)
    <3>2. CASE q = c
      <4>1. waiters'[q] = <<>> /\ \A u \in Tid : ~(tstate[u] = "BLOCKED" /\ tproc[u] = q)
        BY <3>2, <1>7, <1>10, ZenonT(30)
      <4> QED BY <4>1, <3>1, EmptyLemma, Zenon
    <3>3. CASE q # c
      <4>1. /\ waiters'[q] = waiters[q] /\ IsInjective(waiters[q])
            /\ Range(waiters[q]) = {u \in Tid : tstate[u] = "BLOCKED" /\ tproc[u] = q}
        BY <3>3, <1>10, Zenon DEF IInv, WaitersExact
      <4> QED BY <4>1, <3>1, Zenon
    <3> QED BY <3>2, <3>3
  <2>3. \A u \in Tid : wait_for'[u] = IF tstate'[u] = "BLOCKED" THEN match_pid'[u] ELSE NONE
    <3>1. \A u \in Tid : u # t => match_pid'[u] = match_pid[u]
      BY <1>1, <1>2, ZenonT(30) DEF TypeOK
    <3>2. wait_for'[t] = NONE /\ tstate'[t] = "RUNNING"
      BY <1>2, <1>8, <1>9, ZenonT(30) DEF IInv, WaitersExact
    <3>3. ASSUME NEW u \in Tid, u # t
          PROVE  wait_for'[u] = IF tstate'[u] = "BLOCKED" THEN match_pid'[u] ELSE NONE
      <4>1. wait_for[u] = IF tstate[u] = "BLOCKED" THEN match_pid[u] ELSE NONE
        BY Zenon DEF IInv, WaitersExact
      <4> QED BY <4>1, <3>1, <3>3, <1>8, ZenonT(30)
    <3> QED BY <3>2, <3>3, Zenon
  <2> QED BY <2>2, <2>3, ZenonT(30) DEF WaitersExact
<1>19. KinInv'
  <2> SUFFICES ASSUME NEW q \in Pid
      PROVE  /\ IsInjective(children'[q])
             /\ \A d \in Range(children'[q]) :
                  /\ pstate'[q] # "UNUSED" /\ pstate'[d] # "UNUSED" /\ parent'[d] = q /\ d # q
                  /\ addr_space'[d] = NULL <=> addr_space'[q] = NULL
    BY Zenon DEF KinInv
  <2>1. CASE q = c
    <3>1. children'[q] = <<>>
      BY <2>1, <1>13, Zenon
    <3> QED BY <3>1, EmptyLemma, Zenon
  <2>2. CASE q # c
    <3>1. /\ IsInjective(children'[q])
          /\ \A d \in Range(children'[q]) : d \in Range(children[q]) /\ d \in Pid /\ d # c
      <4>1. CASE q # p
        <5>1. children'[q] = children[q]
          BY <2>2, <4>1, <1>13, Zenon
        <5>2. IsInjective(children[q]) /\ \A d \in Range(children[q]) : parent[d] = q
          BY Zenon DEF IInv, KinInv
        <5> QED BY <5>1, <5>2, <4>1, <1>2, <1>11, Zenon
      <4> QED BY <4>1, <1>11, <1>12, Zenon
    <3>2. \A d \in Range(children[q]) :
            /\ pstate[q] # "UNUSED" /\ pstate[d] # "UNUSED" /\ parent[d] = q /\ d # q
            /\ addr_space[d] = NULL <=> addr_space[q] = NULL
      BY Zenon DEF IInv, KinInv
    <3> QED BY <2>2, <3>1, <3>2, <1>10, ZenonT(30)
  <2> QED BY <2>1, <2>2, ZenonT(30)
<1>20. SpacesOwned'
  <2>0. /\ SpacesOwned /\ addr_space'[c] = NULL
        /\ \A q \in Pid \ {c} : addr_space'[q] = addr_space[q] /\ pstate'[q] = pstate[q]
    BY <1>10, Zenon DEF IInv, SpaceInv
  <2>1. mms' = {addr_space'[q] : q \in Pid} \ {NULL}
    BY <2>0, <1>2, <1>4 DEF SpacesOwned
  <2> QED BY <2>0, <2>1, Zenon DEF SpacesOwned, InUse
<1>21. addr_space[c] # NULL => addr_space[c] # cr3
  <2>1. addr_space[c] # NULL => addr_space[p] # NULL /\ addr_space[p] # addr_space[c]
    BY <1>2, Zenon DEF IInv, KinInv, SpaceInv, SpacesOwned
  <2>2. addr_space[p] # NULL => cr3 = addr_space[p]
    BY <1>2, Slots, ZenonT(30) DEF IInv, SpaceInv, LoadedSpaceLive, p
  <2> QED BY <2>1, <2>2, ZenonT(30)
<1>22. NoPanic'
  BY <1>4, <1>21, ZenonT(30) DEF NoPanic
<1>23. LoadedSpaceLive'
  <2>1. cr3' = cr3 /\ thread_current' = t /\ tproc'[t] = p /\ addr_space'[p] = addr_space[p]
    BY <1>2, <1>8, <1>9, <1>10, ZenonT(30) DEF cpuVars, p
  <2> QED BY <2>1, <1>2, <1>4, <1>21, Zenon DEF IInv, SpaceInv, LoadedSpaceLive, p
<1>24. SpaceInv'
  <2>1. ASSUME NEW u \in Tid, tstate'[u] \notin {"UNUSED", "ZOMBIE"}, mode'[u] = "user"
        PROVE  addr_space'[tproc'[u]] # NULL
    <3>1. u \notin dead /\ tstate'[u] = tstate[u] /\ tproc'[u] = tproc[u] /\ mode'[u] = mode[u]
      BY <2>1, <1>8, ZenonT(30)
    <3>2. addr_space'[tproc[u]] = addr_space[tproc[u]]
      BY <1>10, <2>1, <3>1, <1>7, Zenon DEF IInv, ListsInv
    <3> QED BY <3>1, <3>2, <2>1, Zenon DEF IInv, SpaceInv
  <2> QED BY <2>1, <1>20, <1>23, ZenonT(30) DEF SpaceInv
<1>25. BootInv'
  BY <1>1, <1>2, <1>10, ZenonT(30) DEF IInv, BootInv, kmainVars, TypeOK
<1> QED BY <1>14, <1>15, <1>16, <1>17, <1>18, <1>19, <1>22, <1>24, <1>25, ZenonT(30) DEF IInv


-----------------------------------------------------------------------------
(* Every step keeps the invariant.                                          *)

\* Every step keeps the invariant.
LEMMA NextIInv == ASSUME WellOrdered, IInv, [Next]_vars PROVE IInv'
<1>1. CASE UNCHANGED vars
  <2> USE <1>1 DEF vars, procVars, listVars, waitVars, placeVars, cpuVars, sleepVars, kmainVars
  <2>1. TypeOK'
    BY ZenonT(30) DEF IInv, TypeOK
  <2> QED BY <2>1, QuietIInv, Zenon DEF IInv, CpuInv, RunningIsCurrent, SpaceInv, LoadedSpaceLive
<1>2. ASSUME NEW t \in Tid, Call(t) PROVE IInv'
  BY <1>2, YieldIInv, SleepIInv, WaitEdgeIInv, ExitIInv, SiblingIInv, EnterIInv, ForkIInv,
     ForkUndoneIInv, ExecIInv, ZenonT(30)
     DEF Call
<1>3. ASSUME NEW t \in Tid, Continue(t) PROVE IInv'
  BY <1>3, YieldIInv, Int81IInv, ReapIInv, WaitEdgeIInv, BlockIInv, ZenonT(30)
     DEF Continue, proc_waitpid
<1> QED BY <1>1, <1>2, <1>3, TickIInv, KmainProcIInv, KmainAddIInv, Zenon DEF Next
=============================================================================
