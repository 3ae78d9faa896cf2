--------------------------- MODULE SchedTheorems ----------------------------
(* The steps of Sched against the abstract life cycle ProcLife, exited      *)
(* threads, wakeups, the sleep queue and the counts; then what follows for  *)
(* every behaviour of Sched and every value of the constants.               *)
EXTENDS SchedProofs


-----------------------------------------------------------------------------
(* The refinement mapping.  Because a listed child points back at the       *)
(* process listing it, the lists that name it are one or none.              *)

\* The process chosen among those that list a child is its parent.
LEMMA Lister ==
  ASSUME NEW ch, NEW par, NEW c \in Pid,
         \A p \in Pid : c \in Range(ch[p]) => par[c] = p
  PROVE  LET lists == {p \in Pid : c \in Range(ch[p])}
             who   == IF lists = {} THEN NULL ELSE CHOOSE p \in lists : TRUE
         IN /\ \A p \in Pid : c \in Range(ch[p]) => who = p
            /\ (\A p \in Pid : c \notin Range(ch[p])) => who = NULL
<1> DEFINE lists == {p \in Pid : c \in Range(ch[p])}
<1> QED BY ZenonT(30)

\* Creator is a function on the process slots.
LEMMA CreatorFunction ==
  /\ \A S : (\A c \in Pid : Creator[c] \in S) => Creator \in [Pid -> S]
  /\ \A f : (\A c \in Pid : Creator'[c] = f[c]) => Creator' = [c \in Pid |-> f[c]]
<1> DEFINE who(ch, c) == LET lists == {p \in Pid : c \in Range(ch[p])}
                         IN IF lists = {} THEN NULL ELSE CHOOSE p \in lists : TRUE
<1> HIDE DEF who
<1> QED BY Zenon DEF Creator

\* The process whose child list names c, before a step and after it.
LEMMA Creators ==
  ASSUME KinInv
  PROVE  \A c \in Pid : /\ \A p \in Pid : c \in Range(children[p]) => Creator[c] = p
                        /\ (\A p \in Pid : c \notin Range(children[p])) => Creator[c] = NULL
  BY DEF Creator

\* The same after the step.
LEMMA CreatorsNext ==
  ASSUME KinInv'
  PROVE  \A c \in Pid : /\ \A p \in Pid : c \in Range(children'[p]) => Creator'[c] = p
                        /\ (\A p \in Pid : c \notin Range(children'[p])) => Creator'[c] = NULL
  BY DEF Creator

\* A child that the same lists name before and after has the same creator.
LEMMA SameCreator ==
  ASSUME KinInv, KinInv', NEW c \in Pid,
         \A p \in Pid : c \in Range(children'[p]) <=> c \in Range(children[p])
  PROVE  Creator'[c] = Creator[c]
BY Creators, CreatorsNext, Zenon

\* The three states of a process, as ProcLife names them.
LEMMA Lives ==
  ASSUME TypeOK
  PROVE  \A p \in Pid : /\ pstate[p] = "UNUSED" <=> Life[p] = "free"
                        /\ pstate[p] = "ALIVE" <=> Life[p] = "alive"
                        /\ pstate[p] = "ZOMBIE" <=> Life[p] = "zombie"
BY Zenon DEF TypeOK, Life

\* Initial states map to initial states.
LEMMA InitRefines == ASSUME Init PROVE PL!Init
  BY InitIInv, Creators, CreatorFunction, Zenon DEF IInv, Init, Life, PL!Init

-----------------------------------------------------------------------------
(* The steps.  Only fork, kmain's proc_alloc, the exit of a last thread and *)
(* reaping show; every other step leaves process states and child lists.    *)

\* A step that ProcLife does not see.
LEMMA HiddenStep ==
  ASSUME UNCHANGED <<pstate, children>>
  PROVE  UNCHANGED PL!vars
BY DEF PL!vars, Life, Creator

\* Allocating a process is a Create.
LEMMA CreateRefines ==
  ASSUME WellOrdered, IInv, IInv', NEW par \in Pid \cup {NULL}, proc_alloc(par, TRUE),
         par # NULL => pstate[par] = "ALIVE" /\ addr_space[par] # NULL
  PROVE  PL!Create(alloc_process_slot, par) /\ alloc_process_slot \in Pid
<1> DEFINE p == alloc_process_slot
<1>1. TypeOK /\ KinInv /\ KinInv' /\ NULL \notin Pid
  BY Slots, Zenon DEF IInv
<1>2. p \in Pid /\ pstate[p] = "UNUSED" /\ pstate' = [pstate EXCEPT ![p] = "ALIVE"]
  BY ProcAllocLemma, ZenonT(30)
<1>3. children' = [q \in Pid |-> IF q = p THEN <<>>
                                 ELSE IF q = par THEN Append(children[q], p)
                                 ELSE children[q]]
  BY Zenon DEF proc_alloc
<1> HIDE DEF p
<1>4. \A q \in Pid : children[q] \in Seq(Pid)
  BY <1>1, Zenon DEF TypeOK
<1>5. \A q \in Pid : p \notin Range(children[q]) /\ Range(children[p]) = {}
  BY <1>1, <1>2, ZenonT(30) DEF KinInv
<1>6. par # p
  BY <1>1, <1>2, Zenon
<1>7. ASSUME NEW q \in Pid
      PROVE  Range(children'[q]) = IF q = par THEN Range(children[q]) \cup {p} ELSE Range(children[q])
  <2>1. CASE q = p
    <3>1. children'[q] = <<>>
      BY <2>1, <1>3, Zenon
    <3> QED BY <2>1, <3>1, <1>5, <1>6, EmptyLemma, Zenon
  <2>2. CASE q = par
    <3>1. Append(children[q], p) = children'[q]
      BY <2>2, <1>3, <1>4, <1>6, Zenon
    <3>2. children[q] \in Seq(Pid) /\ p \in Pid
      BY <1>2, <1>4, Zenon
    <3>3. Range(Append(children[q], p)) = Range(children[q]) \cup {p}
      BY <3>2, AppendRange
    <3> QED BY <2>2, <3>1, <3>3, Zenon
  <2> QED BY <2>1, <2>2, <1>3, Zenon
<1>8. Life' = [Life EXCEPT ![p] = "alive"]
  <2>1. pstate \in [Pid -> {"UNUSED", "ALIVE", "ZOMBIE"}]
    BY <1>1, ZenonT(30) DEF TypeOK
  <2> QED BY <1>2, <2>1, ZenonT(30) DEF Life
<1>9. Creator' = [Creator EXCEPT ![p] = par]
  <2>1. ASSUME NEW c \in Pid \ {p} PROVE Creator'[c] = Creator[c]
    BY <1>1, <1>7, SameCreator, ZenonT(30)
  <2>2. Creator'[p] = par
    BY <1>1, <1>2, <1>5, <1>7, CreatorsNext, Zenon
  <2>3. Creator \in [Pid -> Pid \cup {NULL}]
    BY <1>1, Creators, CreatorFunction, ZenonT(30)
  <2> DEFINE f == [Creator EXCEPT ![p] = par]
  <2> HIDE DEF f
  <2> QED BY CreatorFunction, <2>1, <2>2, <2>3, Zenon
<1> QED BY <1>2, <1>8, <1>9, <1>1, Lives, Zenon DEF PL!Create, p

\* The exit of a last thread is an Exit.
LEMMA ExitRefines ==
  ASSUME WellOrdered, IInv, NEW t \in Tid, sched_thread_exit(t)
  PROVE  UNCHANGED PL!vars \/ (tproc[t] \in Pid /\ PL!Exit(tproc[t]))
<1> DEFINE p == tproc[t]
<1>1. TypeOK /\ p \in Pid /\ pstate[p] = "ALIVE" /\ UNCHANGED children
  BY ExitFacts, Zenon DEF IInv
<1>2. CASE live_thread_count[p] = 1
  <2>1. pstate' = [pstate EXCEPT ![p] = "ZOMBIE"]
    BY <1>2, Zenon DEF sched_thread_exit
  <2> HIDE DEF p
  <2>2. Life' = [Life EXCEPT ![p] = "zombie"]
    BY <1>1, <2>1, ZenonT(30) DEF Life, TypeOK
  <2> QED BY <1>1, <2>2, Lives DEF PL!Exit, p, Creator
<1> QED BY <1>2, OtherExitLists, <1>1, HiddenStep, Zenon

\* What a reap does to the child lists: c leaves the list of p, and its own
\* list is emptied.
LEMMA ReapLists ==
  ASSUME WellOrdered, IInv, NEW p \in Pid, NEW c \in Range(children[p]), c \in Pid, c # p,
         proc_reap_child(p, c)
  PROVE  /\ \A q \in Pid \ {c} : Range(children'[q]) = Range(children[q]) \ {c}
         /\ Range(children'[c]) = {}
<1> DEFINE at == {i \in DOMAIN children[p] : children[p][i] = c}
<1>1. children' = [q \in Pid |-> IF q = c THEN <<>>
                                 ELSE IF q = p THEN RemoveAt(children[q], Min(at))
                                 ELSE children[q]]
  BY ZenonT(30) DEF proc_reap_child
<1>2. children[p] \in Seq(Pid) /\ IsInjective(children[p])
  BY ZenonT(30) DEF IInv, TypeOK, KinInv
<1>3. Min(at) \in at
  <2>1. at \in SUBSET Nat /\ at # {}
    BY <1>2 DEF Range
  <2> QED BY <2>1, MinLemma, Zenon
<1>4. Min(at) \in DOMAIN children[p] /\ children[p][Min(at)] = c
  BY <1>3, Zenon
<1> HIDE DEF at
<1>5. Range(RemoveAt(children[p], Min(at))) = Range(children[p]) \ {c}
  BY <1>2, <1>4, RemoveLemma, Zenon
<1>6. ASSUME NEW q \in Pid \ {c} PROVE Range(children'[q]) = Range(children[q]) \ {c}
  <2>1. CASE q = p
    BY <2>1, <1>1, <1>5, Zenon
  <2>2. CASE q # p
    <3>1. children'[q] = children[q]
      BY <2>2, <1>1, Zenon
    <3>2. c \notin Range(children[q])
      <4>1. \A r \in Pid : c \in Range(children[r]) => parent[c] = r
        BY Zenon DEF IInv, KinInv
      <4> QED BY <2>2, <4>1, Zenon
    <3> QED BY <3>1, <3>2, Zenon
  <2> QED BY <2>1, <2>2
<1>7. Range(children'[c]) = {}
  <2>1. children'[c] = <<>>
    BY <1>1, Zenon
  <2> QED BY <2>1, EmptyLemma, Zenon
<1> QED BY <1>6, <1>7, ZenonT(30)

\* Freeing a zombie child is a Reap.
LEMMA ReapRefines ==
  ASSUME WellOrdered, IInv, IInv', NEW t \in Tid, WaitReap(t)
  PROVE  \E q, c \in Pid : PL!Reap(q, c)
<1> DEFINE p == tproc[t]
           c == children[p][Min(Zombies(t))]
<1>1. TypeOK /\ KinInv /\ KinInv'
  BY ZenonT(30) DEF IInv
<1>2. /\ p \in Pid /\ pstate[p] = "ALIVE" /\ c \in Pid /\ c \in Range(children[p])
      /\ pstate[c] = "ZOMBIE" /\ c # p /\ proc_reap_child(p, c)
  BY ReapFacts, ZenonT(30)
<1> HIDE DEF p, c
<1>3. pstate' = [pstate EXCEPT ![c] = "UNUSED"]
  BY <1>2, Zenon DEF proc_reap_child
<1>4. /\ \A q \in Pid \ {c} : Range(children'[q]) = Range(children[q]) \ {c}
      /\ Range(children'[c]) = {}
  BY <1>2, ReapLists, Zenon
<1>5. Life' = [Life EXCEPT ![c] = "free"]
  <2>1. pstate \in [Pid -> {"UNUSED", "ALIVE", "ZOMBIE"}]
    BY <1>1, Zenon DEF TypeOK
  <2> QED BY <1>3, <2>1, ZenonT(30) DEF Life
<1> DEFINE f == [x \in Pid |-> IF x = c \/ Creator[x] = c THEN NULL ELSE Creator[x]]
<1>6. ASSUME NEW x \in Pid PROVE Creator'[x] = f[x]
  <2>1. CASE x = c \/ x \in Range(children[c])
    <3>1. \A q \in Pid : x \notin Range(children'[q])
      BY <2>1, <1>1, <1>2, <1>4 DEF KinInv
    <3> QED BY <2>1, <1>1, <1>2, Creators, <3>1, CreatorsNext, Zenon
  <2>2. CASE x # c /\ x \notin Range(children[c])
    <3>1. Creator'[x] = Creator[x]
      BY <1>1, SameCreator, <2>2, <1>4, Zenon
    <3> QED BY <2>2, <3>1, <1>1, Creators, Zenon
  <2> QED BY <2>1, <2>2, ZenonT(30)
<1>7. Creator' = f
  <2>1. f = [x \in Pid |-> f[x]]
    BY Zenon
  <2> HIDE DEF f
  <2> QED BY <1>6, <2>1, CreatorFunction, ZenonT(30)
<1> QED BY <1>2, <1>5, <1>7, <1>1, Lives, Creators, Zenon DEF PL!Reap

\* Every step is a step of ProcLife or hidden.
LEMMA StepRefines == ASSUME WellOrdered, IInv, IInv', [Next]_vars PROVE [PL!Next]_(PL!vars)
<1> USE DEF procVars
<1>1. CASE KmainProcAlloc
  BY CreateRefines, HiddenStep, <1>1, Zenon DEF PL!Next, KmainProcAlloc
<1>2. ASSUME NEW t \in Tid, sched_thread_exit(t) PROVE [PL!Next]_(PL!vars)
  BY <1>2, ExitRefines, ZenonT(30) DEF PL!Next
<1>3. ASSUME NEW t \in Tid, _fork(t) PROVE [PL!Next]_(PL!vars)
  BY <1>3, CurrentFacts, CreateRefines, Zenon DEF _fork, User, At, IInv, SpaceInv, PL!Next
<1>4. ASSUME NEW t \in Tid, WaitReap(t) PROVE [PL!Next]_(PL!vars)
  BY <1>4, ReapRefines, Zenon DEF PL!Next
<1>5. ASSUME NEW t \in Tid, Call(t), ~sched_thread_exit(t), ~_fork(t)
      PROVE  UNCHANGED <<pstate, children>>
  BY <1>5, ZenonT(30)
     DEF Call, sched_thread_yield, sched_thread_sleep, _waitpid, AddSibling, enter_usermode,
         ForkUndone, _execve
<1>6. ASSUME NEW t \in Tid, Continue(t), ~WaitReap(t)
      PROVE  UNCHANGED <<pstate, children>>
  BY <1>6, ZenonT(30) DEF Continue, sched_thread_yield, int81, proc_waitpid, WaitNoChild, WaitBlock
<1> QED
  BY <1>1, <1>2, <1>3, <1>4, <1>5, <1>6, HiddenStep, Zenon DEF Next, vars, Tick, KmainAddThread

-----------------------------------------------------------------------------
(* Exited threads.                                                          *)

\* The timer and the switch move threads between RUNNABLE, RUNNING and
\* SLEEPING only.
LEMMA TickKeeps ==
  ASSUME WellOrdered, IInv, Tick, NEW u \in Tid, NEW s \in {"UNUSED", "ZOMBIE", "BLOCKED"}
  PROVE  tstate'[u] = s <=> tstate[u] = s
<1> DEFINE k     == DueWithin(1)
           woken == {t \in Range(SubSeq(sleepq, 1, k)) : tstate[t] = "SLEEPING"}
           ts    == [t \in Tid |-> IF t \in woken THEN "RUNNABLE" ELSE tstate[t]]
<1>1. TypeOK /\ tstate \in [Tid -> TStates]
  BY ZenonT(30) DEF IInv, TypeOK, TStates
<1>2. ts \in [Tid -> TStates]
  BY <1>1, ZenonT(30) DEF TStates
<1>3. /\ ts[u] = s <=> tstate[u] = s
      /\ \A t \in Tid : ts[t] = "RUNNING" => t = thread_current
  BY Zenon DEF IInv, CpuInv, RunningIsCurrent
<1>4. sched_do_switch(ts) \/ tstate' = ts
  BY ZenonT(30) DEF Tick
<1> HIDE DEF ts
<1>5. CASE sched_do_switch(ts)
  <2>1. tstate'[u] = s <=> ts[u] = s
    BY <1>1, <1>2, <1>3, <1>5, SwitchLemma, ZenonT(30)
  <2> QED BY <1>3, <2>1, Zenon
<1> QED BY <1>3, <1>4, <1>5, ZenonT(30)

\* A switch changes only which threads are RUNNABLE and RUNNING.
LEMMA Int81Keeps ==
  ASSUME WellOrdered, IInv, NEW t \in Tid, int81(t), NEW u \in Tid, NEW s \in {"UNUSED", "ZOMBIE", "BLOCKED"}
  PROVE  tstate'[u] = s <=> tstate[u] = s
<1>1. TypeOK /\ tstate \in [Tid -> TStates]
  BY ZenonT(30) DEF IInv, TypeOK, TStates
<1>2. \A v \in Tid : tstate[v] = "RUNNING" => v = thread_current
  BY Zenon DEF IInv, CpuInv, RunningIsCurrent
<1>3. CASE sched_do_switch(tstate)
  BY <1>1, <1>2, <1>3, SwitchLemma, ZenonT(30)
<1> QED BY <1>3, ZenonT(30) DEF int81

\* What a step may do to a zombie thread.
StaysExited(t) ==
  tstate[t] = "ZOMBIE" => /\ tstate'[t] \in {"ZOMBIE", "UNUSED"}
                          /\ tstate'[t] = "UNUSED" => t # thread_current

\* A reaper frees exited threads of others only.
LEMMA ReapExited == ASSUME WellOrdered, IInv, NEW t \in Tid, WaitReap(t), NEW u \in Tid PROVE StaysExited(u)
<1> DEFINE c == children[tproc[t]][Min(Zombies(t))]
<1> HIDE DEF c
<1> QED BY ReapFacts DEF StaysExited, proc_reap_child

\* A new thread goes into a slot that was free, not into a zombie's.
LEMMA AddExited ==
  ASSUME WellOrdered, IInv, NEW p \in Pid, NEW fresh \in BOOLEAN, NEW ring \in {"kernel", "user"},
         sched_add_thread(p, fresh, ring), NEW u \in Tid
  PROVE  StaysExited(u)
  BY AddThreadFields, Zenon DEF StaysExited

\* No step revives an exited thread.
LEMMA StepExited == ASSUME WellOrdered, IInv, [Next]_vars, NEW u \in Tid PROVE StaysExited(u)
<1>1. CASE UNCHANGED tstate
  BY <1>1, ZenonT(30) DEF StaysExited
<1>2. CASE KmainAddThread
  BY <1>2, AddExited, <1>1, Zenon DEF IInv, TypeOK, KmainAddThread
<1>3. ASSUME NEW t \in Tid, sched_thread_exit(t) PROVE StaysExited(u)
  BY <1>3, ExitChanges, Zenon DEF StaysExited
<1>4. ASSUME NEW t \in Tid, _fork(t) PROVE StaysExited(u)
  BY <1>4, FreeSlots, AddExited, Zenon DEF IInv, _fork, proc_alloc
<1>5. ASSUME NEW t \in Tid, AddSibling(t) PROVE StaysExited(u)
  BY <1>5, CurrentFacts, AddExited, Zenon DEF AddSibling, KernelThread, At
<1>6. ASSUME NEW t \in Tid, NEW s \in {"SLEEPING", "BLOCKED"}, t = thread_current, pc[t] = "code",
             tstate' = [tstate EXCEPT ![t] = s]
      PROVE  StaysExited(u)
  <2>1. tstate[t] = "RUNNING"
    BY <1>6, CurrentFacts, ZenonT(30)
  <2> QED BY <2>1, <1>6, ZenonT(30) DEF IInv, TypeOK, StaysExited
<1>7. ASSUME NEW t \in Tid, (\E n \in Sleeps : sched_thread_sleep(t, n)) \/ WaitBlock(t)
      PROVE  StaysExited(u)
  BY <1>6, <1>7, Zenon DEF sched_thread_sleep, WaitBlock, KernelThread, At
<1>8. ASSUME NEW t \in Tid, Call(t) PROVE StaysExited(u)
  BY <1>1, <1>3, <1>4, <1>5, <1>7, <1>8, ZenonT(30)
     DEF Call, sched_thread_yield, _waitpid, enter_usermode, ForkUndone, _execve
<1>9. ASSUME NEW t \in Tid, Continue(t) PROVE StaysExited(u)
  BY Int81Keeps, <1>7, <1>9, ReapExited, Zenon
     DEF StaysExited, Continue, sched_thread_yield, proc_waitpid, WaitNoChild
<1> QED BY <1>2, <1>8, <1>9, TickKeeps, Zenon DEF Next, vars, KmainProcAlloc, StaysExited

-----------------------------------------------------------------------------
(* Wakeups.  While every process has one thread, which is all that the      *)
(* kernel's callers of sched_add_thread make, no wakeup of a waitpid is     *)
(* lost and no thread outlives its process.  With sibling threads           *)
(* wake_parent_waiter wakes one of two waiters only, and an exited sibling  *)
(* is never reaped.                                                         *)

\* What single-threadedness means for the lists: SIBLINGS = {} keeps it.
OneThread == \A p \in Pid : Len(thread_list[p]) <= 1

\* Two threads of one process that have not exited are the same.
LEMMA Alone ==
  ASSUME IInv, OneThread, NEW t \in Tid, NEW u \in Tid, tproc[t] = tproc[u],
         tstate[t] \notin {"UNUSED", "ZOMBIE"}, tstate[u] \notin {"UNUSED", "ZOMBIE"}
  PROVE  t = u
<1> DEFINE l == thread_list[tproc[t]]
<1>1. tproc[t] \in Pid /\ t \in Range(l) /\ u \in Range(l)
  BY Zenon DEF IInv, ListsInv
<1>2. l \in Seq(Tid) /\ Len(l) <= 1
  BY <1>1, Zenon DEF IInv, TypeOK, OneThread
<1> HIDE DEF l
<1> QED BY <1>1, <1>2 DEF Range

\* A thread that exits is the last one of its process.
LEMMA LastThread ==
  ASSUME IInv, OneThread, NEW t \in Tid, sched_thread_exit(t)
  PROVE  live_thread_count[tproc[t]] = 1
  BY ExitFacts DEF OneThread

\* A first thread is alone on the list of its process.
LEMMA AddOneThread ==
  ASSUME IInv, OneThread, NEW p \in Pid, NEW fresh \in BOOLEAN, NEW ring,
         sched_add_thread(p, fresh, ring), fresh \/ thread_list[p] = <<>>
  PROVE  OneThread'
  BY DEF IInv, ListsInv, ListInv, sched_add_thread, OneThread

\* At the start no process has two threads.
LEMMA InitOneThread == ASSUME Init PROVE OneThread
  BY DEF Init, OneThread

\* Without siblings it stays so.
LEMMA StepOneThread ==
  ASSUME WellOrdered, IInv, OneThread, SIBLINGS = {}, [Next]_vars
  PROVE  OneThread'
<1> USE DEF listVars
<1>1. CASE UNCHANGED thread_list
  BY <1>1, Zenon DEF OneThread
<1>2. CASE KmainProcAlloc
  <2>1. CASE thread_list' = [thread_list EXCEPT ![alloc_process_slot] = <<>>]
    BY <2>1 DEF IInv, OneThread
  <2> QED BY <1>1, <1>2, <2>1, ZenonT(30) DEF KmainProcAlloc
<1>3. CASE KmainAddThread
  BY <1>3, AddOneThread, <1>1, Zenon DEF KmainAddThread, IInv, TypeOK, BootInv
<1>4. ASSUME NEW t \in Tid, _fork(t) PROVE OneThread'
  BY <1>4, FreeSlots, AddOneThread, Zenon DEF IInv, _fork, proc_alloc
<1>5. ASSUME NEW t \in Tid, sched_thread_exit(t) PROVE OneThread'
  BY <1>5, LastThread, <1>1, Zenon DEF sched_thread_exit
<1>6. ASSUME NEW t \in Tid, WaitReap(t) PROVE OneThread'
  <2> DEFINE c == children[tproc[t]][Min(Zombies(t))]
  <2>1. proc_reap_child(tproc[t], c)
    BY <1>6, ReapFacts, Zenon
  <2> HIDE DEF c
  <2> QED BY <2>1 DEF OneThread, proc_reap_child
<1>7. ASSUME NEW t \in Tid, Call(t) PROVE OneThread'
  BY <1>1, <1>4, <1>5, <1>7, ZenonT(30)
     DEF Call, sched_thread_yield, sched_thread_sleep, _waitpid, AddSibling, enter_usermode,
         ForkUndone, _execve
<1>8. ASSUME NEW t \in Tid, Continue(t) PROVE OneThread'
  BY <1>1, <1>6, <1>8, ZenonT(30)
     DEF Continue, sched_thread_yield, int81, proc_waitpid, WaitNoChild, WaitBlock
<1> QED BY <1>2, <1>3, <1>7, <1>8, <1>1, Zenon DEF Next, vars, Tick

-----------------------------------------------------------------------------
(* NoLostWakeup, read off the children themselves: one with the pid m asked *)
(* for is there, and none of those is a zombie.                             *)

Served(kids, m, ps) ==
  /\ \E c \in kids : m \in {ANY, c}
  /\ \A c \in kids : m \in {ANY, c} => ps[c] # "ZOMBIE"

\* waitpid's scan of the child list finds a match and no zombie iff the waiter is served.
LEMMA ServedLemma ==
  ASSUME NEW s, NEW m, NEW ps
  PROVE  LET matching == {i \in DOMAIN s : m \in {ANY, s[i]}}
             zombies  == {i \in matching : ps[s[i]] = "ZOMBIE"}
         IN matching # {} /\ zombies = {} <=> Served(Range(s), m, ps)
BY Zenon DEF Served, Range

\* NoLostWakeup in these terms, before and after a step.
LEMMA Wakeups ==
  /\ NoLostWakeup <=> \A t \in Tid : tstate[t] = "BLOCKED" =>
                        Served(Range(children[tproc[t]]), match_pid[t], pstate)
  /\ NoLostWakeup' <=> \A t \in Tid : tstate'[t] = "BLOCKED" =>
                         Served(Range(children'[tproc'[t]]), match_pid'[t], pstate')
<1>1. \A t \in Tid : /\ Matching(t) # {} /\ Zombies(t) = {} <=>
                         Served(Range(children[tproc[t]]), match_pid[t], pstate)
                     /\ Matching(t)' # {} /\ Zombies(t)' = {} <=>
                         Served(Range(children'[tproc'[t]]), match_pid'[t], pstate')
  BY ServedLemma, ZenonT(30) DEF Matching, Zombies
<1> QED BY <1>1, ZenonT(30) DEF NoLostWakeup

\* A thread that was blocked and asks for the same, of children of whom none
\* left and none became a zombie, is still served.
LEMMA StillServed ==
  ASSUME NoLostWakeup, NEW u \in Tid,
         tstate[u] = "BLOCKED", match_pid'[u] = match_pid[u], tproc'[u] = tproc[u],
         Range(children[tproc[u]]) = Range(children'[tproc[u]]),
         \A c \in Range(children[tproc[u]]) : pstate'[c] = "ZOMBIE" => pstate[c] = "ZOMBIE"
  PROVE  Served(Range(children'[tproc'[u]]), match_pid'[u], pstate')
  BY Wakeups, Zenon DEF Served

\* A step that changes no child and blocks no thread.
LEMMA QuietServed ==
  ASSUME NoLostWakeup, UNCHANGED <<children, pstate>>,
         \A u \in Tid : tstate'[u] = "BLOCKED" =>
           tstate[u] = "BLOCKED" /\ match_pid'[u] = match_pid[u] /\ tproc'[u] = tproc[u]
  PROVE  NoLostWakeup'
  BY Wakeups, Zenon

\* waitpid blocks only after a scan that found a match and no zombie.
LEMMA BlockServed ==
  ASSUME IInv, NoLostWakeup, NEW t \in Tid, WaitBlock(t)
  PROVE  NoLostWakeup'
<1>1. /\ Matching(t) # {} /\ Zombies(t) = {}
      /\ UNCHANGED <<children, pstate, match_pid, tproc>>
  BY ZenonT(30) DEF WaitBlock, procVars, placeVars
<1>2. \A u \in Tid \ {t} : tstate'[u] = tstate[u]
  BY Zenon DEF WaitBlock, IInv, TypeOK
<1> QED BY <1>1, <1>2 DEF NoLostWakeup, Matching, Zombies

\* A fork adds a live child; the parent is running, not waiting.
LEMMA CreateServed ==
  ASSUME WellOrdered, IInv, NoLostWakeup, NEW par \in Pid \cup {NULL}, proc_alloc(par, TRUE),
         par # NULL => pstate[par] = "ALIVE" /\ addr_space[par] # NULL,
         \A u \in Tid : tstate'[u] = "BLOCKED" =>
           /\ tstate[u] = "BLOCKED" /\ match_pid'[u] = match_pid[u] /\ tproc'[u] = tproc[u]
           /\ tproc[u] # par
  PROVE  NoLostWakeup'
<1> DEFINE p == alloc_process_slot
<1>1. p \in Pid /\ pstate[p] = "UNUSED" /\ pstate' = [pstate EXCEPT ![p] = "ALIVE"]
  BY ProcAllocLemma, ZenonT(30)
<1>2. children' = [q \in Pid |-> IF q = p THEN <<>>
                                 ELSE IF q = par THEN Append(children[q], p)
                                 ELSE children[q]]
  BY ZenonT(30) DEF proc_alloc
<1> HIDE DEF p
<1>3. ASSUME NEW u \in Tid, tstate'[u] = "BLOCKED"
      PROVE  Served(Range(children'[tproc'[u]]), match_pid'[u], pstate')
  <2>1. tproc[u] \in Pid /\ u \in Range(thread_list[tproc[u]])
    BY <1>3, ZenonT(30) DEF IInv, ListsInv
  <2>2. children'[tproc[u]] = children[tproc[u]]
    <3>1. tproc[u] # par
      BY <1>3, Zenon
    <3>2. tproc[u] # p
      <4>1. thread_list[p] = <<>>
        BY <1>1, Zenon DEF IInv, ListsInv, ListInv
      <4> QED BY <4>1, <2>1, EmptyLemma, Zenon
    <3> QED BY <3>1, <3>2, <2>1, <1>2, Zenon
  <2>3. \A c \in Range(children[tproc[u]]) : c \in Pid
    <3>1. children[tproc[u]] \in Seq(Pid)
      BY <2>1, ZenonT(30) DEF IInv, TypeOK
    <3> QED BY <3>1, MemberLemma, Zenon
  <2>4. \A c \in Range(children[tproc[u]]) : pstate'[c] = "ZOMBIE" => pstate[c] = "ZOMBIE"
    BY <1>1, <2>3
  <2> QED BY <1>3, <2>2, <2>4, StillServed, ZenonT(30)
<1> QED BY <1>3, Wakeups, Zenon

\* The reaper takes its own child; nobody else lists it, and the reaper's
\* process has no other thread that could be waiting.
LEMMA ReapServed ==
  ASSUME WellOrdered, IInv, OneThread, NoLostWakeup, NEW t \in Tid, WaitReap(t)
  PROVE  NoLostWakeup'
<1> DEFINE p == tproc[t]
           c == children[p][Min(Zombies(t))]
<1>1. /\ tstate[t] = "RUNNING" /\ p \in Pid /\ c \in Pid /\ c \in Range(children[p])
      /\ pstate[c] = "ZOMBIE" /\ c # p /\ proc_reap_child(p, c)
      /\ match_pid' = [match_pid EXCEPT ![t] = ANY]
  BY ReapFacts, ZenonT(30)
<1> HIDE DEF p, c
<1>2. /\ pstate' = [pstate EXCEPT ![c] = "UNUSED"]
      /\ tstate' = [u \in Tid |-> IF u \in ThreadsOf(c) THEN "UNUSED" ELSE tstate[u]]
      /\ tproc' = [u \in Tid |-> IF u \in ThreadsOf(c) THEN NULL ELSE tproc[u]]
  BY <1>1, Zenon DEF proc_reap_child
<1>3. /\ \A q \in Pid \ {c} : Range(children'[q]) = Range(children[q]) \ {c}
  BY <1>1, ReapLists, ZenonT(30)
<1>4. ASSUME NEW u \in Tid, tstate'[u] = "BLOCKED"
      PROVE  Served(Range(children'[tproc'[u]]), match_pid'[u], pstate')
  <2>1. tstate[u] = "BLOCKED" /\ tproc'[u] = tproc[u]
    BY <1>2, <1>4, ZenonT(30)
  <2>2. tproc[u] \in Pid /\ u \in Range(thread_list[tproc[u]])
    BY <2>1, ZenonT(30) DEF IInv, ListsInv
  <2>3. tproc[u] # c
    BY <1>1, <2>1, ZenonT(30) DEF IInv, ListsInv, ListInv
  <2>4. c \notin Range(children[tproc[u]])
    <3>1. \A q \in Pid : c \in Range(children[q]) => parent[c] = q
      BY Zenon DEF IInv, KinInv
    <3>2. parent[c] = p /\ tproc[u] # p
      BY <1>1, <2>1, <2>2, <3>1, Alone, ZenonT(30) DEF p
    <3> QED BY <3>1, <3>2, <2>2, Zenon
  <2>5. Range(children'[tproc[u]]) = Range(children[tproc[u]])
    BY <1>3, <2>2, <2>3, <2>4, ZenonT(30)
  <2>6. \A x \in Range(children[tproc[u]]) : x \in Pid
    <3>1. children[tproc[u]] \in Seq(Pid)
      BY <2>2, ZenonT(30) DEF IInv, TypeOK
    <3> QED BY <3>1, MemberLemma, Zenon
  <2>7. \A x \in Range(children[tproc[u]]) : pstate'[x] = "ZOMBIE" => pstate[x] = "ZOMBIE"
    BY <1>2, <2>6, Zenon DEF IInv, TypeOK
  <2> QED BY <2>1, <2>5, <2>7, StillServed, <1>1, Zenon DEF IInv, TypeOK
<1> QED BY <1>4, Wakeups, ZenonT(30)

\* wake_parent_waiter finds the one thread that waits for the process whose
\* last thread exits, if there is one.
LEMMA WakesWaiter ==
  ASSUME WellOrdered, IInv, OneThread, NEW p \in Pid, NEW ts \in [Tid -> TStates],
         wake_parent_waiter(p, ts),
         NEW u \in Tid, tstate[u] = "BLOCKED", p \in Range(children[tproc[u]]),
         match_pid[u] \in {ANY, p}
  PROVE  tstate'[u] = "RUNNABLE"
<1> DEFINE q == parent[p]
           hits == WaitingFor(q, p)
           w == waiters[q][Min(hits)]
<1>1. tproc[u] \in Pid /\ NULL \notin Pid
  BY Slots, ZenonT(30) DEF IInv, ListsInv
<1>2. q = tproc[u] /\ q # NULL /\ q \in Pid
  BY <1>1 DEF IInv, KinInv
<1>3. waiters[q] \in Seq(Tid)
  BY <1>2, ZenonT(30) DEF IInv, TypeOK
<1> HIDE DEF q
<1>4. hits \in SUBSET Nat /\ hits # {}
  <2>1. DOMAIN waiters[q] \subseteq Nat
    BY <1>3, MemberLemma, Zenon
  <2>2. u \in Range(waiters[q]) /\ wait_for[u] = match_pid[u]
    BY <1>2, Zenon DEF IInv, WaitersExact
  <2> QED BY <2>1, <2>2, Zenon DEF WaitingFor, Range
<1>5. w \in Range(waiters[q])
  BY <1>4, MinLemma, Zenon DEF WaitingFor, Range
<1>6. w \in Tid /\ tstate[w] = "BLOCKED" /\ tproc[w] = q
  BY <1>2, <1>5, ZenonT(30) DEF IInv, WaitersExact
<1> QED BY <1>2, <1>4, <1>6, Alone, Zenon DEF wake_parent_waiter, q

\* An exit wakes the thread that waits for it.
LEMMA ExitServed ==
  ASSUME WellOrdered, IInv, OneThread, NoLostWakeup, NEW t \in Tid, sched_thread_exit(t)
  PROVE  NoLostWakeup'
<1> DEFINE p  == tproc[t]
           ts == [tstate EXCEPT ![t] = "ZOMBIE"]
<1>1. p \in Pid /\ UNCHANGED <<children, match_pid, tproc>>
  BY ExitFacts, ZenonT(30)
<1>2. pstate' = [pstate EXCEPT ![p] = "ZOMBIE"] /\ wake_parent_waiter(p, ts)
  BY LastThread, ZenonT(30) DEF sched_thread_exit
<1>3. ts \in [Tid -> TStates] /\ pstate \in [Pid -> {"UNUSED", "ALIVE", "ZOMBIE"}]
  BY ZenonT(30) DEF IInv, TypeOK, TStates
<1> HIDE DEF p, ts
<1>4. ASSUME NEW u \in Tid, tstate'[u] = "BLOCKED"
      PROVE  Served(Range(children'[tproc'[u]]), match_pid'[u], pstate')
  <2>1. tstate[u] = "BLOCKED"
    BY <1>4, ExitChanges, Zenon
  <2>2. \A c \in Range(children[tproc[u]]) : c \in Pid
    <3>1. children[tproc[u]] \in Seq(Pid)
      BY <2>1, ZenonT(30) DEF IInv, TypeOK, ListsInv
    <3> QED BY <3>1, MemberLemma, Zenon
  <2>3. \A c \in Range(children[tproc[u]]) :
          match_pid[u] \in {ANY, c} => c # p /\ pstate'[c] = pstate[c]
    BY <1>2, <1>3, <2>2, <1>1, <2>1, WakesWaiter, <1>4, Zenon
  <2>4. Served(Range(children[tproc[u]]), match_pid[u], pstate')
    BY <2>3, <2>1, Wakeups, Zenon DEF Served
  <2> QED BY <1>1, <2>4, ZenonT(30)
<1> QED BY <1>4, Wakeups, Zenon

\* No step loses a wakeup.
LEMMA StepServed ==
  ASSUME WellOrdered, IInv, OneThread, SIBLINGS = {}, NoLostWakeup, [Next]_vars
  PROVE  NoLostWakeup'
<1> USE DEF procVars, placeVars
<1>1. CASE UNCHANGED <<children, pstate, tstate, match_pid, tproc>>
  BY <1>1, QuietServed, ZenonT(30)
<1>2. CASE KmainProcAlloc
  <2>1. UNCHANGED <<tstate, match_pid, tproc>>
    BY <1>2, Zenon DEF KmainProcAlloc
  <2>2. CASE proc_alloc(NULL, TRUE)
    BY Slots, <2>1, <2>2, CreateServed, Zenon DEF IInv, ListsInv
  <2> QED BY <1>1, <1>2, <2>2, ZenonT(30) DEF KmainProcAlloc
<1>3. CASE KmainAddThread
  BY <1>3, AddThreadFields, QuietServed, Zenon DEF KmainAddThread, IInv, TypeOK
<1>4. ASSUME NEW t \in Tid, _fork(t) PROVE NoLostWakeup'
  <2>1. /\ t = thread_current /\ pc[t] = "code" /\ mode[t] = "user"
        /\ proc_alloc(tproc[t], TRUE) /\ sched_add_thread(alloc_process_slot, TRUE, "user")
    BY <1>4, ZenonT(30) DEF _fork, User, At
  <2>2. /\ tstate[t] = "RUNNING" /\ tproc[t] \in Pid /\ pstate[tproc[t]] = "ALIVE"
        /\ addr_space[tproc[t]] # NULL
    BY <2>1, CurrentFacts, ZenonT(30) DEF IInv, SpaceInv
  <2>3. /\ tstate'[alloc_thread_slot] = "RUNNABLE"
        /\ \A u \in Tid \ {alloc_thread_slot} :
             tstate'[u] = tstate[u] /\ tproc'[u] = tproc[u] /\ match_pid'[u] = match_pid[u]
    BY <2>1, AddThreadFields, FreeSlots, Zenon DEF IInv, proc_alloc
  <2>4. \A u \in Tid : tstate[u] = "BLOCKED" => tproc[u] # tproc[t]
    BY <2>2, Alone, ZenonT(30)
  <2>5. \A u \in Tid : tstate'[u] = "BLOCKED" =>
          /\ tstate[u] = "BLOCKED" /\ match_pid'[u] = match_pid[u] /\ tproc'[u] = tproc[u]
          /\ tproc[u] # tproc[t]
    BY <2>3, <2>4, Zenon
  <2> QED BY <2>1, <2>2, <2>5, CreateServed, ZenonT(30)
<1>5. ASSUME NEW t \in Tid, t = thread_current, pc[t] = "code",
             UNCHANGED <<children, pstate, tproc>>,
             tstate'[t] # "BLOCKED",
             \A u \in Tid \ {t} : tstate'[u] = tstate[u] /\ match_pid'[u] = match_pid[u]
      PROVE  NoLostWakeup'
  BY <1>5, QuietServed, ZenonT(30)
<1>6. ASSUME NEW t \in Tid, NEW n \in Sleeps, sched_thread_sleep(t, n) PROVE NoLostWakeup'
  BY <1>5, <1>6, ZenonT(30) DEF sched_thread_sleep, KernelThread, At, IInv, TypeOK
<1>7. ASSUME NEW t \in Tid, (\E f \in Waits : _waitpid(t, f)) \/ WaitNoChild(t)
      PROVE  NoLostWakeup'
  <2>1. /\ UNCHANGED <<children, pstate, tproc, tstate>>
        /\ \A u \in Tid \ {t} : match_pid'[u] = match_pid[u]
    BY <1>7, ZenonT(30) DEF _waitpid, WaitNoChild, IInv, TypeOK
  <2> QED BY <2>1, <1>5, CurrentFacts, <1>7, Zenon DEF _waitpid, WaitNoChild, User, KernelThread, At
<1>8. ASSUME NEW t \in Tid, Call(t) PROVE NoLostWakeup'
  BY <1>1, <1>4, <1>6, <1>7, <1>8, ExitServed, ZenonT(30)
     DEF Call, sched_thread_yield, AddSibling, enter_usermode, ForkUndone, _execve
<1>9. ASSUME NEW t \in Tid, Continue(t) PROVE NoLostWakeup'
  BY Int81Keeps, QuietServed, <1>7, <1>9, ReapServed, BlockServed, Zenon
     DEF int81, Continue, sched_thread_yield, proc_waitpid
<1> QED BY <1>2, <1>3, <1>8, <1>9, TickKeeps, QuietServed, Zenon DEF Next, vars, Tick

-----------------------------------------------------------------------------
(* Exited threads stay on the list of their process, so the reaper finds    *)
(* them and no thread slot is lost.                                         *)

AllListed == \A t \in Tid : tstate[t] # "UNUSED" => t \in Range(thread_list[tproc[t]])

\* A step that moves no thread between processes.
LEMMA QuietListed ==
  ASSUME AllListed, UNCHANGED <<thread_list, tproc>>,
         \A t \in Tid : tstate[t] = "UNUSED" => tstate'[t] = "UNUSED"
  PROVE  AllListed'
BY Zenon DEF AllListed

\* A new thread is on the list of its process.
LEMMA AddListed ==
  ASSUME WellOrdered, IInv, AllListed, NEW p \in Pid, NEW fresh \in BOOLEAN, NEW ring \in {"kernel", "user"},
         sched_add_thread(p, fresh, ring), fresh => pstate[p] = "UNUSED"
  PROVE  AllListed'
<1> DEFINE n == alloc_thread_slot
           first == fresh \/ main_thread[p] = NULL
<1>1. /\ n \in Tid /\ tproc'[n] = p
      /\ \A u \in Tid \ {n} : tstate'[u] = tstate[u] /\ tproc'[u] = tproc[u]
  BY AddThreadFields, ZenonT(30)
<1>2. thread_list' = [thread_list EXCEPT ![p] = IF first THEN <<n>> ELSE Append(thread_list[p], n)]
  BY ZenonT(30) DEF sched_add_thread, Linked
<1>3. first => thread_list[p] = <<>>
  BY ZenonT(30) DEF IInv, ListsInv, ListInv
<1> HIDE DEF n, first
<1>4. thread_list \in [Pid -> Seq(Tid)] /\ thread_list[p] \in Seq(Tid)
  BY ZenonT(30) DEF IInv, TypeOK
<1>5. Range(thread_list'[p]) = Range(thread_list[p]) \cup {n}
  <2>1. CASE first
    <3>1. thread_list[p] = <<>> /\ thread_list'[p] = <<n>>
      BY <2>1, <1>2, <1>3, <1>4, Zenon
    <3> QED BY <3>1, EmptyLemma
  <2>2. CASE ~first
    <3>1. thread_list'[p] = Append(thread_list[p], n)
      BY <2>2, <1>1, <1>2, <1>4, Zenon
    <3>2. Range(Append(thread_list[p], n)) = Range(thread_list[p]) \cup {n}
      <4>1. thread_list[p] \in Seq(Tid) /\ n \in Tid
        BY <1>1, <1>4, Zenon
      <4> QED BY <4>1, AppendRange
    <3> QED BY <3>1, <3>2, Zenon
  <2> QED BY <2>1, <2>2, ZenonT(30)
<1>6. \A q \in Pid \ {p} : thread_list'[q] = thread_list[q]
  BY <1>2, <1>4, ZenonT(30)
<1>7. ASSUME NEW u \in Tid, tstate'[u] # "UNUSED" PROVE u \in Range(thread_list'[tproc'[u]])
  BY <1>1, <1>5, <1>7, <1>6, ZenonT(30) DEF IInv, ListsInv, AllListed
<1> QED BY <1>7, ZenonT(30) DEF AllListed

\* Without siblings every thread in use stays listed.
LEMMA StepListed ==
  ASSUME WellOrdered, IInv, OneThread, SIBLINGS = {}, AllListed, [Next]_vars
  PROVE  AllListed'
<1> USE DEF listVars
<1>1. tstate \in [Tid -> TStates] /\ thread_list \in [Pid -> Seq(Tid)]
  BY Zenon DEF IInv, TypeOK, TStates
<1>2. CASE UNCHANGED <<thread_list, tproc, tstate>>
  BY <1>2, ZenonT(30) DEF AllListed
<1>3. CASE KmainProcAlloc
  <2>1. UNCHANGED <<tstate, tproc>>
    BY <1>3, ZenonT(30) DEF KmainProcAlloc
  <2>2. CASE proc_alloc(NULL, TRUE) /\ thread_list' = [thread_list EXCEPT ![alloc_process_slot] = <<>>]
    <3>1. alloc_process_slot \in Pid /\ pstate[alloc_process_slot] = "UNUSED"
      BY <2>2, ProcAllocLemma, ZenonT(30)
    <3>2. thread_list[alloc_process_slot] = <<>>
      BY <3>1, Zenon DEF IInv, ListsInv, ListInv
    <3>3. thread_list' = thread_list
      BY <2>2, <3>1, <3>2, <1>1, Zenon
    <3> QED BY <2>1, <3>3, <1>2, Zenon
  <2> QED BY <1>2, <1>3, <2>2, ZenonT(30) DEF KmainProcAlloc
<1>4. CASE KmainAddThread
  BY <1>4, AddListed, <1>2, Zenon DEF IInv, TypeOK, KmainAddThread
<1>5. ASSUME NEW t \in Tid, _fork(t) PROVE AllListed'
  BY <1>5, FreeSlots, AddListed, Zenon DEF IInv, _fork, proc_alloc
<1>6. ASSUME NEW t \in Tid, sched_thread_exit(t) PROVE AllListed'
  <2>1. \A u \in Tid : tstate[u] = "UNUSED" => tstate'[u] = "UNUSED"
    BY <1>6, ExitFacts, ExitChanges, Zenon
  <2> QED BY <2>1, QuietListed, <1>6, LastThread, Zenon DEF sched_thread_exit
<1>7. ASSUME NEW t \in Tid, WaitReap(t) PROVE AllListed'
  <2> DEFINE c == children[tproc[t]][Min(Zombies(t))]
  <2>1. c \in Pid /\ proc_reap_child(tproc[t], c)
    BY <1>7, ReapFacts, ZenonT(30)
  <2> HIDE DEF c
  <2>2. ASSUME NEW u \in Tid, tstate'[u] # "UNUSED" PROVE u \in Range(thread_list'[tproc'[u]])
    BY <2>2, <1>1, <2>1, Zenon DEF IInv, ListsInv, AllListed, proc_reap_child, ThreadsOf
  <2> QED BY <2>2, Zenon DEF AllListed
<1>8. ASSUME NEW t \in Tid, t = thread_current, pc[t] = "code",
             UNCHANGED <<thread_list, tproc>>, NEW s, tstate' = [tstate EXCEPT ![t] = s]
      PROVE  AllListed'
  BY <1>1, <1>8, QuietListed, CurrentFacts, Zenon
<1>9. ASSUME NEW t \in Tid, (\E n \in Sleeps : sched_thread_sleep(t, n)) \/ WaitBlock(t)
      PROVE  AllListed'
  BY <1>8, <1>9, ZenonT(30) DEF sched_thread_sleep, WaitBlock, KernelThread, At
<1>10. ASSUME NEW t \in Tid, Call(t) PROVE AllListed'
  BY <1>2, <1>5, <1>6, <1>9, <1>10, ZenonT(30)
     DEF Call, sched_thread_yield, _waitpid, AddSibling, enter_usermode, ForkUndone, _execve
<1>11. ASSUME NEW t \in Tid, Continue(t) PROVE AllListed'
  BY <1>7, <1>9, <1>11, Int81Keeps, QuietListed, Zenon
     DEF Continue, sched_thread_yield, proc_waitpid, WaitNoChild, int81
<1> QED BY <1>3, <1>4, <1>10, <1>11, TickKeeps, QuietListed, Zenon DEF Next, vars, Tick

-----------------------------------------------------------------------------
(* The sleep queue.                                                         *)

\* Filtering keeps the order.
LEMMA WithoutOrder ==
  ASSUME NEW S, NEW s \in Seq(S), NEW R, NEW q \in Without(s, R)
  PROVE  \A i, j \in DOMAIN q : i < j =>
           \E k, l \in DOMAIN s : k < l /\ q[i] = s[k] /\ q[j] = s[l]
<1> DEFINE keep == {i \in DOMAIN s : s[i] \notin R}
<1>1. PICK g \in UNION {[1 .. n -> keep] : n \in 0 .. Len(s)} :
        /\ q = [i \in DOMAIN g |-> s[g[i]]]
        /\ \A i, j \in DOMAIN g : i < j => g[i] < g[j]
  BY ZenonT(30) DEF Without
<1>2. PICK n \in 0 .. Len(s) : g \in [1 .. n -> keep]
  BY ZenonT(30)
<1>3. ASSUME NEW i \in DOMAIN q, NEW j \in DOMAIN q, i < j
      PROVE  g[i] \in DOMAIN s /\ g[j] \in DOMAIN s /\ g[i] < g[j]
             /\ q[i] = s[g[i]] /\ q[j] = s[g[j]]
  BY <1>1, <1>3, Zenon
<1> QED BY <1>3, ZenonT(30)

\* The sleepers walked past are due within w ticks, the next one is not.
LEMMA DueOrder ==
  ASSUME WellOrdered, TypeOK, NEW w \in Nat
  PROVE  /\ DueWithin(w) \in 0 .. Len(sleepq)
         /\ \A i \in 1 .. DueWithin(w) : wake_tick[sleepq[i]] <= w
         /\ DueWithin(w) < Len(sleepq) => wake_tick[sleepq[DueWithin(w) + 1]] > w
<1> DEFINE ks == {k \in 0 .. Len(sleepq) : k = Len(sleepq) \/ wake_tick[sleepq[k + 1]] > w}
           m == Min(ks)
<1>1. Len(sleepq) \in Nat /\ \A i \in 1 .. Len(sleepq) : wake_tick[sleepq[i]] \in Nat
  BY DEF TypeOK
<1>2. Len(sleepq) \in ks /\ ks \in SUBSET Nat
  OBVIOUS
<1>3. m \in ks /\ \A k \in ks : m <= k
  BY <1>2, MinLemma, ZenonT(30)
<1>4. m \in 0 .. Len(sleepq) /\ (m < Len(sleepq) => wake_tick[sleepq[m + 1]] > w)
  BY <1>3
<1>5. ASSUME NEW i \in 1 .. m  PROVE wake_tick[sleepq[i]] <= w
  <2> HIDE DEF m
  <2>1. i - 1 \in 0 .. Len(sleepq) /\ i \in 1 .. Len(sleepq) /\ i - 1 # Len(sleepq) /\ ~(m <= i - 1)
        /\ i - 1 + 1 = i
    BY <1>4
  <2>2. i - 1 \notin ks
    <3> HIDE DEF ks
    <3> QED BY <2>1, <1>3, Zenon
  <2> QED BY <2>1, <2>2, <1>1
<1> QED BY <1>4, <1>5, Zenon DEF DueWithin
\* A step that leaves the queue and its deadlines alone needs to leave its
\* threads asleep and put no other one to sleep.
LEMMA SleepSame ==
  ASSUME TypeOK, SleepqExact, sleepq' = sleepq,
         \A t \in Tid : tstate'[t] = "SLEEPING" <=> tstate[t] = "SLEEPING",
         \A t \in Tid : tstate[t] = "SLEEPING" => wake_tick'[t] = wake_tick[t]
  PROVE  SleepqExact'
  BY DEF Range, SleepqExact

\* The timer takes the due ones off the front and wakes them.
LEMMA TickSleep == ASSUME WellOrdered, IInv, SleepqExact, Tick PROVE SleepqExact'
<1> DEFINE k     == DueWithin(1)
           woken == {t \in Range(SubSeq(sleepq, 1, k)) : tstate[t] = "SLEEPING"}
           ts    == [t \in Tid |-> IF t \in woken THEN "RUNNABLE" ELSE tstate[t]]
           s     == sleepq
<1>1. TypeOK /\ s \in Seq(Tid) /\ tstate \in [Tid -> TStates] /\ wake_tick \in [Tid -> Nat]
  BY ZenonT(30) DEF IInv, TypeOK, TStates
<1>2. k \in 0 .. Len(s) /\ k \in Nat /\ Len(s) \in Nat /\ DOMAIN s = 1 .. Len(s)
  BY <1>1, DueLemma
<1>3. /\ sleepq' = SubSeq(s, k + 1, Len(s))
      /\ wake_tick' = [t \in Tid |-> IF wake_tick[t] > 0 THEN wake_tick[t] - 1 ELSE 0]
  BY Zenon DEF Tick
<1>4. \A t \in Tid : tstate'[t] = "SLEEPING" <=> ts[t] = "SLEEPING"
  <2>1. ts \in [Tid -> TStates]
    BY <1>1, Zenon DEF TStates
  <2>2. \A t \in Tid : ts[t] = "RUNNING" => t = thread_current
    BY Zenon DEF IInv, CpuInv, RunningIsCurrent
  <2>3. sched_do_switch(ts) \/ tstate' = ts
    BY ZenonT(30) DEF Tick
  <2> HIDE DEF ts
  <2> QED BY <2>1, <2>2, <2>3, <1>1, SwitchLemma, ZenonT(30)
<1>5. \A t : t \in Range(SubSeq(s, 1, k)) <=> \E i \in 1 .. k : t = s[i]
  <2> DEFINE a == SubSeq(s, 1, k)
  <2>1. DOMAIN a = 1 .. k /\ \A i \in 1 .. k : a[i] = s[i]
    BY <1>1, <1>2
  <2> HIDE DEF a
  <2> QED BY <2>1, ZenonT(30) DEF Range, a
<1>6. \A t \in Tid : ts[t] = "SLEEPING" <=> tstate[t] = "SLEEPING" /\ \A i \in 1 .. k : t # s[i]
  BY <1>5, ZenonT(30)
<1>7. IsInjective(s) /\ \A t \in Tid : t \in Range(s) <=> tstate[t] = "SLEEPING"
  BY Zenon DEF SleepqExact
<1>8. \A m, n \in DOMAIN s : m < n => wake_tick[s[m]] <= wake_tick[s[n]]
  BY Zenon DEF SleepqExact
<1> DEFINE q == SubSeq(s, k + 1, Len(s))
<1> HIDE DEF k, ts, s
<1>9. /\ q \in Seq(Tid) /\ IsInjective(q)
      /\ \A x : x \in Range(q) <=> x \in Range(s) /\ \A i \in 1 .. k : x # s[i]
      /\ \A i, j \in DOMAIN q : i < j =>
           \E m, n \in DOMAIN s : m < n /\ q[i] = s[m] /\ q[j] = s[n]
  <2>1. s \in Seq(Tid) /\ k \in 0 .. Len(s) /\ IsInjective(s)
    BY <1>1, <1>2, <1>7, Zenon
  <2>2. q \in Seq(Tid) /\ IsInjective(q)
    BY <2>1, DropLemma, Zenon
  <2>3. \A x : x \in Range(q) <=> x \in Range(s) /\ \A i \in 1 .. k : x # s[i]
    BY <2>1, DropLemma
  <2>4. \A i, j \in DOMAIN q : i < j =>
          \E m, n \in DOMAIN s : m < n /\ q[i] = s[m] /\ q[j] = s[n]
    BY <2>1, DropOrder, Zenon
  <2> QED BY <2>2, <2>3, <2>4, Zenon
<1> HIDE DEF q
<1>10. ASSUME NEW t \in Tid PROVE t \in Range(q) <=> tstate'[t] = "SLEEPING"
  <2>1. tstate'[t] = "SLEEPING" <=> tstate[t] = "SLEEPING" /\ \A i \in 1 .. k : t # s[i]
    BY <1>4, <1>6, Zenon
  <2>2. tstate[t] = "SLEEPING" <=> t \in Range(s)
    BY <1>7, Zenon
  <2> QED BY <2>1, <2>2, <1>9, Zenon
<1>11. Range(q) \subseteq Tid /\ Range(s) \subseteq Tid
  BY <1>1, <1>9, MemberLemma, Zenon
<1>12. ASSUME NEW i \in DOMAIN q, NEW j \in DOMAIN q, i < j
       PROVE  wake_tick'[q[i]] <= wake_tick'[q[j]]
  <2>1. PICK m, n \in DOMAIN s : m < n /\ q[i] = s[m] /\ q[j] = s[n]
    BY <1>9, <1>12, Zenon
  <2>2. s[m] \in Tid /\ s[n] \in Tid /\ wake_tick[s[m]] <= wake_tick[s[n]]
    BY <2>1, <1>8, <1>11, Zenon DEF Range
  <2>3. /\ wake_tick[s[m]] \in Nat /\ wake_tick[s[n]] \in Nat
        /\ wake_tick'[s[m]] = IF wake_tick[s[m]] > 0 THEN wake_tick[s[m]] - 1 ELSE 0
        /\ wake_tick'[s[n]] = IF wake_tick[s[n]] > 0 THEN wake_tick[s[n]] - 1 ELSE 0
    BY <2>2, <1>1, <1>3, Zenon
  <2>4. wake_tick'[s[m]] <= wake_tick'[s[n]]
    BY <2>2, <2>3
  <2> QED BY <2>1, <2>4, Zenon
<1>13. Range(q) = {t \in Tid : tstate'[t] = "SLEEPING"}
  BY <1>10, <1>11, Zenon
<1>14. sleepq' = q
  BY <1>3, Zenon DEF q, s
<1> QED BY <1>9, <1>12, <1>13, <1>14, Zenon DEF SleepqExact

\* A thread that goes to sleep is put in behind the ones due before it.
LEMMA SleepSleep ==
  ASSUME WellOrdered, IInv, SleepqExact, NEW t \in Tid, NEW n \in Sleeps, sched_thread_sleep(t, n)
  PROVE  SleepqExact'
<1> DEFINE k == DueWithin(n)
           s == sleepq
           q == sleepq'
<1>1. TypeOK /\ s \in Seq(Tid) /\ tstate \in [Tid -> TStates] /\ wake_tick \in [Tid -> Nat]
      /\ n \in Nat
  BY SizesAssumption, ZenonT(30) DEF IInv, TypeOK, TStates
<1>2. /\ wake_tick' = [wake_tick EXCEPT ![t] = n] /\ tstate' = [tstate EXCEPT ![t] = "SLEEPING"]
      /\ q = InsertAt(s, k + 1, t)
  BY Zenon DEF sched_thread_sleep, sleepq_insert
<1>3. /\ k \in 0 .. Len(s) /\ \A i \in 1 .. k : wake_tick[s[i]] <= n
      /\ k < Len(s) => wake_tick[s[k + 1]] > n
  BY <1>1, DueOrder, ZenonT(30)
<1>4. Len(s) \in Nat /\ k \in Nat /\ DOMAIN s = 1 .. Len(s) /\ \A i \in 1 .. Len(s) : s[i] \in Tid
  BY <1>1, <1>3
<1>5. t \notin Range(s)
  BY CurrentFacts, Zenon DEF SleepqExact, sched_thread_sleep, KernelThread, At
<1> HIDE DEF k, s, q
<1>6. /\ q \in Seq(Tid) /\ DOMAIN q = 1 .. Len(s) + 1
      /\ \A j \in 1 .. Len(s) + 1 :
           q[j] = IF j <= k THEN s[j] ELSE IF j = k + 1 THEN t ELSE s[j - 1]
      /\ Range(q) = Range(s) \cup {t}
      /\ IsInjective(s) /\ t \notin Range(s) => IsInjective(q)
  <2>1. s \in Seq(Tid) /\ k \in 0 .. Len(s) /\ q = InsertAt(s, k + 1, t)
    BY <1>1, <1>2, <1>3, ZenonT(30)
  <2> DEFINE r == InsertAt(s, k + 1, t)
  <2>2. /\ r \in Seq(Tid) /\ DOMAIN r = 1 .. Len(s) + 1
        /\ \A j \in 1 .. Len(s) + 1 :
             r[j] = IF j <= k THEN s[j] ELSE IF j = k + 1 THEN t ELSE s[j - 1]
        /\ Range(r) = Range(s) \cup {t}
        /\ IsInjective(s) /\ t \notin Range(s) => IsInjective(r)
    BY <2>1, InsertLemma, ZenonT(30)
  <2>3. q = r
    BY <2>1, Zenon
  <2> HIDE DEF r
  <2> QED BY <2>2, <2>3, ZenonT(30)
<1>7. Range(q) = {u \in Tid : tstate'[u] = "SLEEPING"}
  <2>1. Range(s) = {u \in Tid : tstate[u] = "SLEEPING"}
    BY ZenonT(30) DEF SleepqExact, s
  <2> QED BY <2>1, <1>6, <1>1, <1>2, ZenonT(30)
<1>8. \A i \in 1 .. Len(s) : wake_tick'[s[i]] = wake_tick[s[i]] /\ wake_tick[s[i]] \in Nat
  BY <1>4, <1>5, <1>1, <1>2, Zenon DEF Range
<1>9. wake_tick'[t] = n
  BY <1>1, <1>2, ZenonT(30)
<1>10. \A i, j \in 1 .. Len(s) : i < j => wake_tick[s[i]] <= wake_tick[s[j]]
  BY <1>4, ZenonT(30) DEF SleepqExact, s
<1>11. \A i \in k + 1 .. Len(s) : wake_tick[s[i]] > n
  <2> SUFFICES ASSUME NEW i \in k + 1 .. Len(s)  PROVE wake_tick[s[i]] > n
    BY Zenon
  <2>1. k < Len(s) /\ k + 1 \in 1 .. Len(s) /\ i \in 1 .. Len(s) /\ (k + 1 < i \/ i = k + 1)
    BY <1>4
  <2>2. CASE i = k + 1
    BY <2>1, <2>2, <1>3, ZenonT(30)
  <2>3. CASE k + 1 < i
    <3>1. wake_tick[s[k + 1]] <= wake_tick[s[i]] /\ wake_tick[s[k + 1]] > n
      BY <2>1, <2>3, <1>3, <1>10, ZenonT(30)
    <3>2. wake_tick[s[k + 1]] \in Nat /\ wake_tick[s[i]] \in Nat /\ n \in Nat
      BY <2>1, <1>1, <1>8, Zenon
    <3> QED BY <3>1, <3>2
  <2> QED BY <2>1, <2>2, <2>3, ZenonT(30)
<1>12. ASSUME NEW i \in DOMAIN q, NEW j \in DOMAIN q, i < j
       PROVE  wake_tick'[q[i]] <= wake_tick'[q[j]]
  <2> DEFINE at(m) == IF m <= k THEN s[m] ELSE IF m = k + 1 THEN t ELSE s[m - 1]
  <2>0. i \in 1 .. Len(s) + 1 /\ j \in 1 .. Len(s) + 1 /\ q[i] = at(i) /\ q[j] = at(j)
    BY <1>6, Zenon
  <2>1. i \in Nat /\ j \in Nat /\ 1 <= i /\ j <= Len(s) + 1 /\ i < j /\ Len(s) \in Nat /\ k \in Nat
        /\ k <= Len(s)
    <3>1. k \in 0 .. Len(s) /\ Len(s) \in Nat
      BY <1>3, <1>4, Zenon
    <3> HIDE DEF at
    <3> QED BY <3>1, <2>0, <1>12
  <2>2. CASE j <= k
    <3>1. q[i] = s[i] /\ q[j] = s[j] /\ i \in 1 .. Len(s) /\ j \in 1 .. Len(s)
      BY <2>0, <2>1, <2>2
    <3> QED BY <3>1, <1>12, <1>8, <1>10, ZenonT(30)
  <2>3. CASE j = k + 1
    <3>1. q[i] = s[i] /\ q[j] = t /\ i \in 1 .. k /\ i \in 1 .. Len(s)
      BY <2>0, <2>1, <2>3
    <3> QED BY <3>1, <1>3, <1>8, <1>9, ZenonT(30)
  <2>4. CASE j > k + 1 /\ i <= k
    <3>1. q[i] = s[i] /\ q[j] = s[j - 1] /\ i \in 1 .. Len(s) /\ j - 1 \in 1 .. Len(s) /\ i < j - 1
      BY <2>0, <2>1, <2>4
    <3> QED BY <3>1, <1>8, <1>10, ZenonT(30)
  <2>5. CASE j > k + 1 /\ i = k + 1
    <3>1. q[i] = t /\ q[j] = s[j - 1] /\ j - 1 \in k + 1 .. Len(s) /\ j - 1 \in 1 .. Len(s)
      BY <2>0, <2>1, <2>5
    <3>2. wake_tick[s[j - 1]] > n /\ wake_tick'[s[j - 1]] = wake_tick[s[j - 1]]
          /\ wake_tick[s[j - 1]] \in Nat
      BY <3>1, <1>8, <1>11, ZenonT(30)
    <3>3. wake_tick'[q[i]] = n /\ n \in Nat /\ wake_tick'[q[j]] = wake_tick[s[j - 1]]
      BY <3>1, <3>2, <1>1, <1>9, Zenon
    <3> QED BY <3>2, <3>3
  <2>6. CASE i > k + 1
    <3>1. /\ q[i] = s[i - 1] /\ q[j] = s[j - 1]
          /\ i - 1 \in 1 .. Len(s) /\ j - 1 \in 1 .. Len(s) /\ i - 1 < j - 1
      BY <2>0, <2>1, <2>6
    <3> QED BY <3>1, <1>8, <1>10, ZenonT(30)
  <2>7. j <= k \/ j = k + 1 \/ (j > k + 1 /\ i <= k) \/ (j > k + 1 /\ i = k + 1) \/ i > k + 1
    BY <2>1
  <2> QED BY <2>2, <2>3, <2>4, <2>5, <2>6, <2>7, Zenon
<1> QED BY <1>7, <1>12, <1>5, <1>6, Zenon DEF SleepqExact, q, s

\* A new thread does not sleep.
LEMMA AddSleep ==
  ASSUME WellOrdered, IInv, SleepqExact, NEW p \in Pid, NEW fresh \in BOOLEAN,
         NEW ring \in {"kernel", "user"},
         sched_add_thread(p, fresh, ring), sleepq' = sleepq
  PROVE  SleepqExact'
<1> DEFINE n == alloc_thread_slot
<1>1. /\ n \in Tid /\ tstate[n] = "UNUSED" /\ tstate'[n] = "RUNNABLE"
      /\ \A u \in Tid \ {n} : tstate'[u] = tstate[u]
  BY AddThreadFields, ZenonT(30)
<1>2. TypeOK /\ wake_tick \in [Tid -> Nat]
  BY ZenonT(30) DEF IInv, TypeOK
<1> HIDE DEF n
<1>3. \A u \in Tid : tstate'[u] = "SLEEPING" <=> tstate[u] = "SLEEPING"
  BY <1>1, Zenon
<1>4. \A u \in Tid : tstate[u] = "SLEEPING" => wake_tick'[u] = wake_tick[u]
  BY <1>1, <1>2, ZenonT(30) DEF sched_add_thread, n
<1> QED BY <1>2, <1>3, <1>4, SleepSame, Zenon

\* The reaper takes its threads off the queue; they are not on it.
LEMMA ReapSleep == ASSUME WellOrdered, IInv, SleepqExact, NEW t \in Tid, WaitReap(t) PROVE SleepqExact'
<1> DEFINE c == children[tproc[t]][Min(Zombies(t))]
           dead == Range(thread_list[c])
<1>1. c \in Pid /\ pstate[c] = "ZOMBIE" /\ proc_reap_child(tproc[t], c) /\ wake_tick' = wake_tick
  BY ReapFacts, ZenonT(30)
<1> HIDE DEF c
<1>2. /\ sleepq' \in Without(sleepq, dead)
      /\ tstate' = [u \in Tid |-> IF u \in dead THEN "UNUSED" ELSE tstate[u]]
  BY <1>1, ZenonT(30) DEF proc_reap_child, ThreadsOf
<1> HIDE DEF dead
<1>3. sleepq \in Seq(Tid)
  BY ZenonT(30) DEF IInv, TypeOK
<1>4. Range(sleepq') = Range(sleepq) \ dead /\ IsInjective(sleepq')
  BY <1>2, <1>3, WithoutLemma, ZenonT(30) DEF SleepqExact
<1>5. Range(sleepq') = {u \in Tid : tstate'[u] = "SLEEPING"}
  BY <1>2, <1>4, Zenon DEF SleepqExact
<1>6. ASSUME NEW i \in DOMAIN sleepq', NEW j \in DOMAIN sleepq', i < j
      PROVE  wake_tick'[sleepq'[i]] <= wake_tick'[sleepq'[j]]
  <2>1. PICK a, b \in DOMAIN sleepq : a < b /\ sleepq'[i] = sleepq[a] /\ sleepq'[j] = sleepq[b]
    <3>1. \A m, n \in DOMAIN sleepq' : m < n =>
            \E a, b \in DOMAIN sleepq : a < b /\ sleepq'[m] = sleepq[a] /\ sleepq'[n] = sleepq[b]
      <4>1. sleepq' \in Without(sleepq, dead)
        BY <1>2, Zenon
      <4> QED BY <4>1, <1>3, WithoutOrder
    <3> QED BY <3>1, <1>6, Zenon
  <2> QED BY <2>1, <1>1, Zenon DEF SleepqExact
<1> QED BY <1>4, <1>5, <1>6, ZenonT(30) DEF SleepqExact

\* No step disturbs the sleep queue.
LEMMA StepSleep == ASSUME WellOrdered, IInv, SleepqExact, [Next]_vars PROVE SleepqExact'
<1>1. TypeOK /\ tstate \in [Tid -> TStates]
  BY ZenonT(30) DEF IInv, TypeOK, TStates
<1>2. CASE UNCHANGED <<sleepVars, tstate>>
  BY <1>2, ZenonT(30) DEF SleepqExact, sleepVars
<1>3. CASE KmainAddThread
  BY <1>3, AddSleep, <1>2, Zenon DEF IInv, TypeOK, KmainAddThread, sleepVars
<1>4. ASSUME NEW t \in Tid, AddSibling(t) PROVE SleepqExact'
  BY <1>4, CurrentFacts, AddSleep, Zenon DEF AddSibling, KernelThread, At
<1>5. ASSUME NEW t \in Tid, _fork(t) PROVE SleepqExact'
  BY <1>5, FreeSlots, AddSleep, Zenon DEF IInv, _fork, proc_alloc
<1>6. ASSUME UNCHANGED sleepVars,
             \A u \in Tid : tstate'[u] = "SLEEPING" <=> tstate[u] = "SLEEPING"
      PROVE  SleepqExact'
  BY <1>6, <1>1, SleepSame, Zenon DEF sleepVars
<1>7. ASSUME NEW t \in Tid, sched_thread_exit(t) PROVE SleepqExact'
  BY <1>7, ExitFacts, ExitChanges, <1>6, Zenon
<1>8. ASSUME NEW t \in Tid, WaitBlock(t) PROVE SleepqExact'
  BY <1>8, CurrentFacts, <1>1, <1>6, Zenon DEF WaitBlock, At
<1>9. ASSUME NEW t \in Tid, int81(t) PROVE SleepqExact'
  BY <1>9, <1>1, SwitchLemma, <1>6, Zenon DEF int81, IInv, CpuInv, RunningIsCurrent
<1>10. ASSUME NEW t \in Tid, Call(t) PROVE SleepqExact'
  BY <1>2, <1>4, <1>5, <1>7, <1>10, SleepSleep, ZenonT(30)
     DEF Call, sched_thread_yield, _waitpid, enter_usermode, ForkUndone, _execve
<1>11. ASSUME NEW t \in Tid, Continue(t) PROVE SleepqExact'
  BY <1>2, <1>8, <1>9, <1>11, ReapSleep, ZenonT(30)
     DEF Continue, sched_thread_yield, proc_waitpid, WaitNoChild
<1> QED BY <1>3, <1>10, <1>11, TickSleep, <1>2, Zenon DEF Next, vars, KmainProcAlloc

-----------------------------------------------------------------------------
(* The counts and the head of the thread lists.                             *)

CountInv(p) ==
  /\ pstate[p] # "ALIVE" => live_thread_count[p] = 0
  /\ pstate[p] = "ZOMBIE" => Len(thread_list[p]) = 1
  /\ main_thread[p] = IF thread_list[p] = <<>> THEN NULL ELSE thread_list[p][1]

Counts == \A p \in Pid : CountInv(p)

\* A process that a step leaves alone keeps its count.
LEMMA CountSame ==
  ASSUME NEW p \in Pid, CountInv(p),
         /\ thread_list'[p] = thread_list[p] /\ main_thread'[p] = main_thread[p]
         /\ live_thread_count'[p] = live_thread_count[p] /\ pstate'[p] = pstate[p]
  PROVE  CountInv(p)'
BY ZenonT(30) DEF CountInv

\* The first thread of a process stays first when another one is linked.
LEMMA AddCount ==
  ASSUME WellOrdered, IInv, Counts, NEW p \in Pid, NEW fresh \in BOOLEAN, NEW ring \in {"kernel", "user"},
         sched_add_thread(p, fresh, ring), pstate' \in [Pid -> {"UNUSED", "ALIVE", "ZOMBIE"}],
         pstate'[p] = "ALIVE", \A q \in Pid \ {p} : pstate'[q] = pstate[q]
  PROVE  Counts'
<1> DEFINE n == alloc_thread_slot
           first == fresh \/ main_thread[p] = NULL
<1>1. /\ thread_list \in [Pid -> Seq(Tid)] /\ main_thread \in [Pid -> Tid \cup {NULL}]
      /\ live_thread_count \in [Pid -> Nat]
  BY ZenonT(30) DEF IInv, TypeOK
<1>2. /\ main_thread' = [main_thread EXCEPT ![p] = IF first THEN n ELSE main_thread[p]]
      /\ thread_list' = [thread_list EXCEPT ![p] = IF first THEN <<n>> ELSE Append(thread_list[p], n)]
      /\ live_thread_count' = [live_thread_count EXCEPT ![p] = IF fresh THEN 1 ELSE live_thread_count[p] + 1]
  BY ZenonT(30) DEF sched_add_thread, Linked
<1> HIDE DEF n, first
<1>3. ASSUME NEW q \in Pid \ {p}  PROVE CountInv(q)'
  BY <1>1, <1>2, CountSame, Zenon DEF Counts
<1>4. CountInv(p)'
  <2>1. CASE ~first
    <3> DEFINE l == thread_list[p]
    <3>1. main_thread'[p] = main_thread[p] /\ thread_list'[p] = Append(l, n) /\ main_thread[p] # NULL
      BY <2>1, <1>1, <1>2, Zenon DEF first
    <3>2. l # <<>> /\ main_thread[p] = l[1]
      BY <3>1, ZenonT(30) DEF Counts, CountInv
    <3> HIDE DEF l
    <3>3. l \in Seq(Tid)
      BY <1>1, Zenon DEF l
    <3>4. Append(l, n) # <<>> /\ Append(l, n)[1] = l[1]
      BY <3>2, <3>3
    <3> QED BY <3>1, <3>2, <3>4, <2>1, <1>1, <1>2, ZenonT(30) DEF CountInv
  <2> QED BY <2>1, <1>1, <1>2, Zenon DEF CountInv
<1> QED BY <1>3, <1>4, ZenonT(30) DEF Counts

\* Unlinking another thread than the first leaves the first one first.
LEMMA RemoveHead ==
  ASSUME NEW S, NEW s \in Seq(S), NEW i \in 2 .. Len(s)
  PROVE  RemoveAt(s, i) # <<>> /\ RemoveAt(s, i)[1] = s[1]
<1> DEFINE a == SubSeq(s, 1, i - 1)
           b == SubSeq(s, i + 1, Len(s))
<1> HIDE DEF a, b
<1> QED BY DEF RemoveAt

\* An exit takes the thread off the list, unless it is the last one.
LEMMA ExitCount ==
  ASSUME WellOrdered, IInv, Counts, NEW t \in Tid, sched_thread_exit(t)
  PROVE  Counts'
<1>1. PICK p \in Pid : p = tproc[t]
  BY ExitFacts, Zenon
<1> DEFINE list == thread_list[p]
           at == {i \in DOMAIN list : list[i] = t}
           l == RemoveAt(list, Min(at))
<1>2. /\ p \in Pid /\ pstate[p] = "ALIVE" /\ t \in Range(list) /\ list \in Seq(Tid)
      /\ live_thread_count[p] = Len(list)
      /\ live_thread_count'[p] = live_thread_count[p] - 1
      /\ \A q \in Pid \ {p} : live_thread_count'[q] = live_thread_count[q]
  BY <1>1, ExitFacts, ZenonT(30)
<1>3. /\ pstate \in [Pid -> {"UNUSED", "ALIVE", "ZOMBIE"}] /\ thread_list \in [Pid -> Seq(Tid)]
      /\ main_thread \in [Pid -> Tid \cup {NULL}]
  BY ZenonT(30) DEF IInv, TypeOK
<1>4. at # {} /\ at \in SUBSET Nat /\ Min(at) \in at
  <2>1. at # {} /\ at \in SUBSET Nat
    BY <1>2 DEF Range
  <2> QED BY <2>1, MinLemma, ZenonT(30)
<1>5. \/ /\ live_thread_count[p] = 1 /\ pstate' = [pstate EXCEPT ![p] = "ZOMBIE"]
         /\ UNCHANGED <<thread_list, main_thread>>
      \/ /\ thread_list' = [thread_list EXCEPT ![p] = l] /\ pstate' = pstate
         /\ main_thread' = [main_thread EXCEPT ![p] =
              IF Min(at) > 1 THEN main_thread[p] ELSE IF l = <<>> THEN NULL ELSE l[1]]
  BY <1>1, <1>4, ZenonT(30) DEF sched_thread_exit
<1>6. Min(at) \in 1 .. Len(list) /\ Len(list) \in Nat
  BY <1>2, <1>4
<1> HIDE DEF at
<1>7. ASSUME NEW q \in Pid \ {p}  PROVE CountInv(q)'
  BY <1>3, <1>5, <1>2, CountSame, Zenon DEF Counts
<1>8. CountInv(p)'
  <2>1. CASE /\ live_thread_count[p] = 1 /\ pstate' = [pstate EXCEPT ![p] = "ZOMBIE"]
             /\ UNCHANGED <<thread_list, main_thread>>
    <3>1. main_thread[p] = IF thread_list[p] = <<>> THEN NULL ELSE thread_list[p][1]
      BY ZenonT(30) DEF Counts, CountInv
    <3>2. 1 - 1 = 0
      OBVIOUS
    <3> QED BY <3>1, <3>2, <2>1, <1>2, Zenon DEF CountInv
  <2>2. CASE /\ thread_list' = [thread_list EXCEPT ![p] = l] /\ pstate' = pstate
             /\ main_thread' = [main_thread EXCEPT ![p] =
                  IF Min(at) > 1 THEN main_thread[p] ELSE IF l = <<>> THEN NULL ELSE l[1]]
    <3>1. /\ thread_list'[p] = l /\ pstate'[p] = "ALIVE"
          /\ main_thread'[p] = IF Min(at) > 1 THEN main_thread[p] ELSE IF l = <<>> THEN NULL ELSE l[1]
      BY <2>2, <1>2, <1>3, ZenonT(30)
    <3>2. ASSUME Min(at) > 1  PROVE l # <<>> /\ l[1] = main_thread[p]
      <4>1. l # <<>> /\ l[1] = list[1]
        <5>1. Min(at) \in 2 .. Len(list)
          BY <1>6, <3>2
        <5> QED BY <5>1, <1>2, RemoveHead, Zenon
      <4>2. list # <<>>
        BY <1>2, EmptyLemma, Zenon
      <4> QED BY <4>1, <4>2, <1>2, Zenon DEF Counts, CountInv
    <3> HIDE DEF l
    <3> QED BY <3>1, <3>2, Zenon DEF CountInv
  <2> QED BY <1>5, <2>1, <2>2, ZenonT(30)
<1> QED BY <1>7, <1>8, ZenonT(30) DEF Counts

\* Every step keeps the counts.
LEMMA StepCount == ASSUME WellOrdered, IInv, Counts, [Next]_vars PROVE Counts'
<1> USE DEF listVars
<1>1. /\ pstate \in [Pid -> {"UNUSED", "ALIVE", "ZOMBIE"}] /\ thread_list \in [Pid -> Seq(Tid)]
      /\ main_thread \in [Pid -> Tid \cup {NULL}] /\ live_thread_count \in [Pid -> Nat]
  BY ZenonT(30) DEF IInv, TypeOK
<1>2. CASE UNCHANGED <<pstate, listVars>>
  BY <1>2, CountSame, ZenonT(30) DEF Counts
<1>3. CASE UNCHANGED vars \/ Tick
  BY <1>2, <1>3, ZenonT(30) DEF vars, Tick, procVars
<1>4. ASSUME NEW p \in Pid, NEW s \in {"UNUSED", "ALIVE"}, pstate' = [pstate EXCEPT ![p] = s],
             thread_list' = [thread_list EXCEPT ![p] = <<>>],
             main_thread' = [main_thread EXCEPT ![p] = NULL],
             live_thread_count' = [live_thread_count EXCEPT ![p] = 0]
      PROVE  Counts'
  BY <1>1, <1>4, Zenon DEF Counts, CountInv
<1>5. CASE KmainProcAlloc
  BY ProcAllocLemma, <1>4, <1>2, <1>5, Zenon DEF KmainProcAlloc, procVars
<1>6. ASSUME NEW p \in Pid, sched_add_thread(p, FALSE, "kernel"), pstate' = pstate, pstate[p] = "ALIVE"
      PROVE  Counts'
  BY <1>1, <1>6, AddCount, ZenonT(30)
<1>7. CASE KmainAddThread
  BY <1>7, <1>6, <1>2, Zenon DEF KmainAddThread, IInv, TypeOK, BootInv, procVars
<1>8. ASSUME NEW t \in Tid, AddSibling(t) PROVE Counts'
  BY <1>8, CurrentFacts, <1>6, Zenon DEF AddSibling, KernelThread, At, procVars
<1>9. ASSUME NEW t \in Tid, _fork(t) PROVE Counts'
  <2> DEFINE p == alloc_process_slot
  <2>1. p \in Pid /\ pstate' = [pstate EXCEPT ![p] = "ALIVE"]
    BY <1>9, FreeSlots, ZenonT(30) DEF IInv, _fork, proc_alloc
  <2>2. sched_add_thread(p, TRUE, "user")
    BY <1>9, ZenonT(30) DEF _fork
  <2> HIDE DEF p
  <2>3. /\ pstate' \in [Pid -> {"UNUSED", "ALIVE", "ZOMBIE"}] /\ pstate'[p] = "ALIVE"
        /\ \A q \in Pid \ {p} : pstate'[q] = pstate[q]
    BY <2>1, <1>1, ZenonT(30)
  <2> QED BY <2>1, <2>2, <2>3, AddCount, ZenonT(30)
<1>10. ASSUME NEW t \in Tid, WaitReap(t) PROVE Counts'
  <2> DEFINE c == children[tproc[t]][Min(Zombies(t))]
  <2> HIDE DEF c
  <2> QED BY <1>4, <1>10, ReapFacts, Zenon DEF proc_reap_child
<1>11. ASSUME NEW t \in Tid, Call(t) PROVE Counts'
  BY <1>2, <1>8, <1>9, <1>11, ExitCount, ZenonT(30)
     DEF Call, sched_thread_yield, sched_thread_sleep, _waitpid, enter_usermode, ForkUndone,
         _execve, procVars
<1>12. ASSUME NEW t \in Tid, Continue(t) PROVE Counts'
  BY <1>2, <1>10, <1>12, ZenonT(30)
     DEF Continue, sched_thread_yield, int81, proc_waitpid, WaitNoChild, WaitBlock, procVars
<1> QED BY <1>3, <1>5, <1>7, <1>11, <1>12, ZenonT(30) DEF Next
-----------------------------------------------------------------------------
(* What follows for every behaviour.                                        *)

INSTANCE WellFoundedInduction

\* Every non-empty set of numbers has a least one.
LEMMA LeastNumber == WellOrdered
<1> SUFFICES ASSUME NEW S \in SUBSET Nat, S # {}
             PROVE  \E x \in S : \A y \in S : x <= y
  BY Zenon DEF WellOrdered
<1>1. PICK x \in S : \A y \in S : ~(<<y, x>> \in OpToRel(<, Nat))
  BY WFMin, NatLessThanWellFounded, ZenonT(30)
<1>2. \A y \in S : ~(y < x)
  BY <1>1, ZenonT(30) DEF OpToRel
<1> QED BY <1>2

-----------------------------------------------------------------------------
(* The invariant, and what it implies.                                      *)

\* The inductive invariant holds.
LEMMA Inductive == Spec => []IInv
<1>1. Init => IInv
  BY InitIInv, ZenonT(30)
<1>2. IInv /\ [Next]_vars => IInv'
  BY NextIInv, LeastNumber, ZenonT(30)
<1> QED BY <1>1, <1>2, PTL DEF Spec

\* Every variable keeps its type: live_thread_count never wraps below zero,
\* the queues only ever hold thread slots.
THEOREM TypeCorrect == Spec => []TypeOK
  BY Inductive, PTL DEF IInv

\* The run queue of sched.c holds every thread in use exactly once, through
\* every interleaving of ticks with fork, exit, sleep and reap.
THEOREM RunQueueExact == Spec => []RunqExact
  BY Inductive, PTL DEF IInv

\* Only thread_current is RUNNING, and it is not RUNNING only on its way to
\* the switch.
THEOREM OneRunning == Spec => []RunningIsCurrent
<1>1. IInv => RunningIsCurrent
  BY Zenon DEF IInv, CpuInv
<1> QED BY <1>1, Inductive, PTL

\* The wait queue of a process holds exactly its BLOCKED threads, each with
\* the filter of its waitpid call.
THEOREM WaitQueuesExact == Spec => []WaitersExact
  BY Inductive, PTL DEF IInv

\* Neither sched_thread_exit nor mm_destroy panics: an exiting thread is on
\* its process's list, and the address space a reap or an exec destroys is
\* never the loaded one.
THEOREM NeverPanics == Spec => []NoPanic
  BY Inductive, PTL DEF IInv

\* CR3 always points to a live page directory, the running process's own if
\* it has one.
THEOREM LoadedSpaceIsLive == Spec => []LoadedSpaceLive
<1>1. IInv => LoadedSpaceLive
  BY Zenon DEF IInv, SpaceInv
<1> QED BY <1>1, Inductive, PTL

\* Address spaces are neither leaked nor shared by fork, exec and reap.
THEOREM SpacesNeverLeak == Spec => []SpacesOwned
<1>1. IInv => SpacesOwned
  BY Zenon DEF IInv, SpaceInv
<1> QED BY <1>1, Inductive, PTL

\* Child lists form a forest whose edges agree with the parent pointers.
THEOREM ChildrenFormForest == Spec => []ChildListsForest
<1>1. ASSUME IInv PROVE ChildListsForest
  <2> SUFFICES ASSUME NEW p \in Pid, NEW q \in Pid,
                      NEW i \in DOMAIN children[p], NEW j \in DOMAIN children[q]
      PROVE  /\ InUse(p) /\ InUse(children[p][i]) /\ parent[children[p][i]] = p
             /\ children[p][i] # p
             /\ children[p][i] = children[q][j] => p = q /\ i = j
    BY Zenon DEF ChildListsForest
  <2>1. /\ pstate[p] # "UNUSED" /\ pstate[children[p][i]] # "UNUSED"
        /\ parent[children[p][i]] = p /\ children[p][i] # p /\ parent[children[q][j]] = q
    BY <1>1 DEF IInv, KinInv, Range
  <2>2. IsInjective(children[p])
    BY <1>1, Zenon DEF IInv, KinInv
  <2> QED BY <2>1, <2>2, Zenon DEF InUse, IsInjective
<1> QED BY <1>1, Inductive, PTL

-----------------------------------------------------------------------------
(* Lives of processes and threads.                                          *)

\* Processes live and die as ProcLife says, whatever the number of slots: a
\* process is freed by proc_reap_child only, called by the process that
\* created it, after its last thread has exited.
THEOREM ImplementsLife == Spec => ImplementsProcLife
<1>1. Init => PL!Init
  BY InitRefines, ZenonT(30)
<1>2. IInv /\ IInv' /\ [Next]_vars => [PL!Next]_(PL!vars)
  BY StepRefines, LeastNumber, ZenonT(30)
<1> QED BY <1>1, <1>2, Inductive, PTL DEF Spec, ImplementsProcLife, PL!Spec

\* An exited thread never runs again: sched_thread_exit's yield does not
\* return, and the slot is freed only by a reaper, once another thread runs.
THEOREM ExitedForEver == Spec => ExitIsFinal
<1>1. IInv /\ [Next]_vars => [\A t \in Tid : StaysExited(t)]_vars
  BY StepExited, LeastNumber, ZenonT(30)
<1>2. [\A t \in Tid : StaysExited(t)]_vars =>
        [\A t \in Tid : tstate[t] = "ZOMBIE" =>
            /\ tstate'[t] \in {"ZOMBIE", "UNUSED"}
            /\ tstate'[t] = "UNUSED" => t # thread_current]_vars
  BY Zenon DEF StaysExited
<1> QED BY <1>1, <1>2, Inductive, PTL DEF Spec, ExitIsFinal

\* With one thread per process no wakeup is lost, for any number of slots: a
\* thread blocked in waitpid has a child it waits for and none of those is a
\* zombie, so sched_thread_exit's wake_parent_waiter reached every waiter.
THEOREM NoWakeupLost ==
  ASSUME SIBLINGS = {}
  PROVE  Spec => []NoLostWakeup
<1>1. Init => OneThread /\ NoLostWakeup
  BY InitOneThread, Zenon DEF Init, NoLostWakeup
<1>2. IInv /\ OneThread /\ NoLostWakeup /\ [Next]_vars => OneThread' /\ NoLostWakeup'
  BY StepOneThread, StepServed, LeastNumber, ZenonT(30)
<1> QED BY <1>1, <1>2, Inductive, PTL DEF Spec

\* With one thread per process every thread in use, exited or not, belongs to
\* a process in use: proc_reap_child frees the threads with the process.
THEOREM ThreadsNeverLeak ==
  ASSUME SIBLINGS = {}
  PROVE  Spec => []ThreadsHaveProcess
<1>1. Init => OneThread /\ AllListed
  <2> SUFFICES ASSUME Init PROVE OneThread /\ AllListed
    BY Zenon
  <2>1. ASSUME NEW t \in Tid PROVE t \in Range(<<t>>)
    BY DEF Range
  <2> QED BY <2>1, InitOneThread, Slots, Zenon DEF AllListed, Init
<1>2. IInv /\ OneThread /\ AllListed /\ [Next]_vars => OneThread' /\ AllListed'
  BY StepOneThread, StepListed, LeastNumber, ZenonT(30)
<1>3. IInv /\ AllListed => ThreadsHaveProcess
  BY DEF ThreadsHaveProcess, IInv, ListsInv, AllListed, Range, ListInv, InUse
<1> QED BY <1>1, <1>2, <1>3, Inductive, PTL DEF Spec

\* The sleep queue holds exactly the SLEEPING threads, by deadline, through
\* every insertion, tick and reaping: sched_on_tick may stop at the first
\* sleeper that is not due.
THEOREM SleepQueueExact == Spec => []SleepqExact
<1>1. Init => SleepqExact
  <2> SUFFICES ASSUME Init PROVE SleepqExact
    BY Zenon
  <2>1. sleepq = <<>> /\ \A t \in Tid : tstate[t] # "SLEEPING"
    BY Zenon DEF Init
  <2>2. DOMAIN <<>> = {}
    OBVIOUS
  <2> QED BY <2>1, <2>2, EmptyLemma, ZenonT(30) DEF SleepqExact
<1>2. IInv /\ SleepqExact /\ [Next]_vars => SleepqExact'
  BY StepSleep, LeastNumber, Zenon
<1> QED BY <1>1, <1>2, Inductive, PTL DEF Spec

-----------------------------------------------------------------------------
(* Counts.                                                                  *)

\* The counts and list heads hold.
LEMMA CountsHold == Spec => []Counts
<1>1. Init => Counts
  BY DEF Counts, Init, CountInv
<1>2. IInv /\ Counts /\ [Next]_vars => Counts'
  BY StepCount, LeastNumber, Zenon
<1> QED BY <1>1, <1>2, Inductive, PTL DEF Spec

INSTANCE FiniteSetTheorems

\* A list without duplicates has as many elements as positions.
LEMMA ListSize ==
  ASSUME NEW S, NEW s \in Seq(S), IsInjective(s)
  PROVE  Cardinality(Range(s)) = Len(s)
<1>1. DOMAIN s = 1 .. Len(s) /\ Len(s) \in Nat
  OBVIOUS
<1>2. s \in Bijection(DOMAIN s, Range(s))
  BY DEF Bijection, Injection, Surjection, Range
<1>3. IsFiniteSet(DOMAIN s) /\ Cardinality(DOMAIN s) = Len(s)
  <2>1. /\ IsFiniteSet(1 .. Len(s))
        /\ Cardinality(1 .. Len(s)) = IF 1 > Len(s) THEN 0 ELSE Len(s) - 1 + 1
    <3>1. 1 \in Int /\ Len(s) \in Int
      BY <1>1
    <3> QED BY <3>1, FS_Interval, Zenon
  <2>2. Len(s) = IF 1 > Len(s) THEN 0 ELSE Len(s) - 1 + 1
    BY <1>1
  <2> QED BY <2>1, <2>2, <1>1, Zenon
<1> QED BY <1>3, FS_Bijection, <1>2, Zenon DEF ExistsBijection

\* The live count is the number of threads that have not exited.
LEMMA CountsExact == ASSUME IInv, Counts PROVE LiveCountExact
<1> SUFFICES
      ASSUME NEW p \in Pid
      PROVE  /\ live_thread_count[p] =
                  Cardinality({t \in Tid : tproc[t] = p /\ tstate[t] \notin {"UNUSED", "ZOMBIE"}})
             /\ pstate[p] = "ZOMBIE" =>
                  /\ live_thread_count[p] = 0
                  /\ Len(thread_list[p]) = 1 /\ tstate[thread_list[p][1]] = "ZOMBIE"
             /\ main_thread[p] = IF thread_list[p] = <<>> THEN NULL ELSE thread_list[p][1]
  BY ZenonT(30) DEF LiveCountExact
<1> DEFINE live == {t \in Tid : tproc[t] = p /\ tstate[t] \notin {"UNUSED", "ZOMBIE"}}
           l == thread_list[p]
<1>1. CountInv(p) /\ ListInv(p) /\ l \in Seq(Tid) /\ pstate[p] \in {"UNUSED", "ALIVE", "ZOMBIE"}
  BY ZenonT(30) DEF IInv, ListsInv, TypeOK, Counts
<1>2. live \subseteq Range(l)
  BY ZenonT(30) DEF IInv, ListsInv
<1>3. Range(l) \subseteq Tid
  BY <1>1, MemberLemma, Zenon
<1>4. CASE pstate[p] = "ALIVE"
  <2>1. live = Range(l)
    BY <1>2, <1>3, <1>1, <1>4, Zenon DEF ListInv
  <2> QED BY <1>1, <2>1, ListSize, <1>4, Zenon DEF CountInv, ListInv
<1>5. CASE pstate[p] # "ALIVE"
  <2>1. \A t \in Range(l) : tstate[t] = "ZOMBIE"
    BY <1>1, <1>5, EmptyLemma, Zenon DEF ListInv
  <2>2. Cardinality(live) = 0
    BY FS_EmptySet, <2>1, <1>2, Zenon
  <2>3. ASSUME Len(l) = 1 PROVE l[1] \in Range(l)
    <3>1. 1 \in DOMAIN l
      BY <1>1, <2>3
    <3> QED BY <3>1, Zenon DEF Range
  <2> QED BY <2>1, <2>2, <2>3, <1>1, <1>5, Zenon DEF CountInv
<1> QED BY <1>4, <1>5, ZenonT(30)

\* live_thread_count is the number of threads that have not exited, a zombie
\* keeps just its last thread for the reaper and main_thread is the head of
\* the list, through every sched_add_thread, sched_thread_exit and reaping,
\* whatever sibling threads there are.
THEOREM LiveThreadsCounted == Spec => []LiveCountExact
<1>1. IInv /\ Counts => LiveCountExact
  BY CountsExact, ZenonT(30)
<1> QED BY <1>1, Inductive, CountsHold, PTL
=============================================================================
