--------------------------------- MODULE Mm ---------------------------------
(***************************************************************************)
(* User address spaces: kernel/mm.c and kernel/vma.c, as fork, execve, the *)
(* loader syscall_test and the reaper use them.                            *)
(*                                                                         *)
(* Each of these runs with interrupts off (syscall_test has the only user  *)
(* process there is), so between its begin and its end nothing else        *)
(* happens; within it every allocation is a step that can fail, and op     *)
(* says what is under way.  What dpage_alloc and the scratch page of       *)
(* _mm_alloc_pd do is module KernelVm's: here a slot or a directory may be *)
(* refused at any time, and the frames they use are among the kernel's.    *)
(*                                                                         *)
(* Left out: page contents and flags, the kernel half of a directory, the  *)
(* loaded CR3 and the panic that protects it (module Sched).               *)
(***************************************************************************)
EXTENDS Integers, Sequences, FiniteSets, FiniteSetsExt, Functions, Lists

\* A definition M_X is X with a mistake in it; no other definition uses it.

CONSTANTS
  FRAMES, MMS, VMAS, PROCS,
  USER_PAGES,    \* pages below KERNEL_VIRTUAL_BASE
  PT_SPAN,       \* pages under one page table; 1024
  LAYOUT         \* the regions execve and syscall_test map, as <<first, last>>

Frame == 1 .. FRAMES
Space == 1 .. MMS
Vma   == 1 .. VMAS
Proc  == 1 .. PROCS
VPage == 0 .. USER_PAGES - 1
Pdi(v) == v \div PT_SPAN
Dir == {Pdi(v) : v \in VPage}
NULL == 0

ASSUME LayoutAssumption ==
  /\ FRAMES \in Nat /\ MMS \in Nat /\ VMAS \in Nat /\ PROCS \in Nat
  /\ USER_PAGES \in Nat /\ PT_SPAN \in Nat \ {0}
  /\ LAYOUT \in Seq(VPage \X VPage)
  /\ \A i, j \in DOMAIN LAYOUT :
       LAYOUT[i][1] <= LAYOUT[i][2] /\ (i # j => LAYOUT[i][2] < LAYOUT[j][1]
                                                 \/ LAYOUT[j][2] < LAYOUT[i][1])

VARIABLES
  free,          \* clear bits of the frame bitmap
  kernel,        \* frames the kernel itself has in use
  mm_used, vma_used,                 \* set bits of the two pools
  cr3_phys, pde, pte, page_count,    \* mm_t and its tables, by space
  vma_head,      \* by space: its vma list
  region,        \* by vma: <<first, last>>
  status,        \* by process: "free", "new", "user" or "dead"
  addr_space,    \* by process
  current,       \* the current process
  op             \* the operation it is in: why, the process and space it works
                 \* on, and for mm_map_region the region, its vma and next page

poolVars  == <<mm_used, cr3_phys, vma_used>>
tableVars == <<pde, pte, page_count>>
procVars  == <<status, addr_space, current>>
vars == <<free, kernel, poolVars, tableVars, vma_head, region, procVars, op>>

Idle == [why |-> "idle", p |-> NULL, m |-> NULL, r |-> 0, vma |-> NULL, v |-> 0]
Blank == [d \in Dir |-> NULL]
Empty == [v \in VPage |-> NULL]

Init ==
  /\ free \in {n .. FRAMES : n \in Frame} /\ kernel = Frame \ free
  /\ mm_used = {} /\ vma_used = {}
  /\ cr3_phys = [m \in Space |-> NULL]
  /\ pde = [m \in Space |-> Blank] /\ pte = [m \in Space |-> Empty]
  /\ page_count = [m \in Space |-> 0] /\ vma_head = [m \in Space |-> <<>>]
  /\ region = [a \in Vma |-> <<0, 0>>]
  /\ status = [p \in Proc |-> "free"] /\ addr_space = [p \in Proc |-> NULL]
  /\ current = NULL /\ op = Idle

-----------------------------------------------------------------------------
(* Ending an address space.                                                 *)

\* The frames mm_destroy reaches from the directory of m.
M_Reached(m) == {cr3_phys[m]} \cup {pte[m][v] : v \in VPage}
Reached(m) ==
  {cr3_phys[m]} \cup {pde[m][d] : d \in Dir}
    \cup {pte[m][v] : v \in {w \in VPage : pde[m][Pdi(w)] # NULL}}

\* mm_destroy(m); extra is a vma the caller has freed just before.  The fields
\* are reset here, in the code when the slot and the frames are used again.
mm_destroy(m, extra) ==
  /\ free' = free \cup (Reached(m) \ {NULL})
  /\ vma_used' = vma_used \ (Range(vma_head[m]) \cup {extra})
  /\ mm_used' = mm_used \ {m}
  /\ cr3_phys' = [cr3_phys EXCEPT ![m] = NULL]
  /\ pde' = [pde EXCEPT ![m] = Blank] /\ pte' = [pte EXCEPT ![m] = Empty]
  /\ page_count' = [page_count EXCEPT ![m] = 0]
  /\ vma_head' = [vma_head EXCEPT ![m] = <<>>]

-----------------------------------------------------------------------------
(* Beginnings.  m = NULL: the space is still to be created.                 *)

Begin(why, p, m) ==
  /\ op = Idle
  /\ op' = [Idle EXCEPT !.why = why, !.p = p, !.m = m, !.r = 1]
  /\ UNCHANGED <<free, poolVars, tableVars, vma_head, region, procVars>>

InUser == current # NULL /\ status[current] = "user"

KmainProcAlloc(p) == (\A q \in Proc : status[q] = "free") /\ Begin("boot", p, NULL)
_fork(c) == InUser /\ status[c] = "free" /\ Begin("fork", c, NULL)
_execve == InUser /\ Begin("exec", current, NULL)
syscall_test ==
  /\ current # NULL /\ status[current] = "new"
  /\ Begin("load", current, addr_space[current])

-----------------------------------------------------------------------------
(* mm_create: a directory, then a slot; without a slot the directory goes.  *)

CreateFails == op' = Idle /\ UNCHANGED <<free, poolVars>>

mm_create ==
  LET m == Min(Space \ mm_used)
      f == Min(free)
  IN /\ op.why \in {"boot", "fork", "exec"} /\ op.m = NULL
     /\ \/ CreateFails
        \/ /\ free # {} /\ mm_used # Space
           /\ free' = free \ {f} /\ mm_used' = mm_used \cup {m}
           /\ cr3_phys' = [cr3_phys EXCEPT ![m] = f]
           /\ op' = [op EXCEPT !.m = m]
           /\ UNCHANGED vma_used
     /\ UNCHANGED <<tableVars, vma_head, region, procVars>>

\* The last step of proc_alloc for kmain.
BootDone ==
  /\ op.why = "boot" /\ op.m # NULL
  /\ status' = [status EXCEPT ![op.p] = "new"]
  /\ addr_space' = [addr_space EXCEPT ![op.p] = op.m]
  /\ op' = Idle
  /\ UNCHANGED <<free, poolVars, tableVars, vma_head, region, current>>

-----------------------------------------------------------------------------
(* vma lists.                                                               *)

\* Where vma_insert puts a region that starts at page n: in front if it is
\* before the head, else behind every entry up to the first that is not.
M_InsertPosition(list, n) == 1
InsertPosition(list, n) ==
  LET start(i) == region[list[i]][1]
      stop     == {i \in 2 .. Len(list) : start(i) >= n}
  IN IF list = <<>> \/ n < start(1) THEN 1
     ELSE IF stop = {} THEN Len(list) + 1 ELSE Min(stop)

vma_insert(m, a, reg) ==
  vma_head' = [vma_head EXCEPT ![m] = InsertAt(@, InsertPosition(@, reg[1]), a)]

-----------------------------------------------------------------------------
(* mm_clone_user_eager: table by table, the pages of each, then the vmas.   *)

Cloning == op.why = "fork" /\ op.m # NULL
Old == addr_space[current]
TablesLeft == {d \in Dir : pde[Old][d] # NULL /\ pde[op.m][d] = NULL}
PagesLeft ==
  {v \in VPage : pde[op.m][Pdi(v)] # NULL /\ pte[Old][v] # NULL /\ pte[op.m][v] = NULL}
Copied == TablesLeft = {} /\ PagesLeft = {}

CloneFails ==
  /\ mm_destroy(op.m, NULL) /\ op' = Idle
  /\ UNCHANGED <<region, procVars>>

\* The entry is written at once, so that mm_destroy can undo a failure.
CloneTable ==
  /\ Cloning /\ PagesLeft = {} /\ TablesLeft # {}
  /\ \/ free = {} /\ CloneFails
     \/ /\ free # {}
        /\ free' = free \ {Min(free)}
        /\ pde' = [pde EXCEPT ![op.m][Min(TablesLeft)] = Min(free)]
        /\ UNCHANGED <<pte, page_count, poolVars, vma_head, region, procVars, op>>

ClonePage ==
  /\ Cloning /\ PagesLeft # {}
  /\ \/ free = {} /\ CloneFails
     \/ /\ free # {}
        /\ free' = free \ {Min(free)}
        /\ pte' = [pte EXCEPT ![op.m][Min(PagesLeft)] = Min(free)]
        /\ page_count' = [page_count EXCEPT ![op.m] = @ + 1]
        /\ UNCHANGED <<pde, poolVars, vma_head, region, procVars, op>>

CloneVma ==
  LET k   == Len(vma_head[op.m]) + 1
      a   == Min(Vma \ vma_used)
      reg == region[vma_head[Old][k]]
  IN /\ Cloning /\ Copied /\ k <= Len(vma_head[Old])
     /\ \/ CloneFails
        \/ /\ vma_used # Vma
           /\ vma_used' = vma_used \cup {a}
           /\ region' = [region EXCEPT ![a] = reg]
           /\ vma_insert(op.m, a, reg)
           /\ UNCHANGED <<free, mm_used, cr3_phys, tableVars, procVars, op>>

\* fork ends: the child runs, or it has no thread slot or no descriptors and
\* proc_free destroys the space again.
ForkDone ==
  /\ Cloning /\ Copied /\ Len(vma_head[op.m]) = Len(vma_head[Old])
  /\ \/ CloneFails
     \/ /\ status' = [status EXCEPT ![op.p] = "user"]
        /\ addr_space' = [addr_space EXCEPT ![op.p] = op.m]
        /\ op' = Idle
        /\ UNCHANGED <<free, poolVars, tableVars, vma_head, region, current>>

-----------------------------------------------------------------------------
(* mm_map_region, for each region of the layout.                            *)

Mapping == op.why \in {"exec", "load"} /\ op.m # NULL /\ op.r <= Len(LAYOUT)

\* The vma is freed and the pages mapped so far stay: execve destroys the
\* space, syscall_test returns and its thread exits.
M_MapFails ==
  /\ op' = Idle
  /\ op.why = "exec" /\ mm_destroy(Old, op.vma) /\ UNCHANGED status
  /\ UNCHANGED <<region, addr_space, current>>
MapFails ==
  /\ op' = Idle
  /\ \/ op.why = "exec" /\ mm_destroy(op.m, op.vma) /\ UNCHANGED status
     \/ /\ op.why = "load"
        /\ vma_used' = vma_used \ {op.vma}
        /\ status' = [status EXCEPT ![op.p] = "dead"]
        /\ UNCHANGED <<free, mm_used, cr3_phys, tableVars, vma_head>>
  /\ UNCHANGED <<region, addr_space, current>>

MapVma ==
  LET a == Min(Vma \ vma_used)
  IN /\ Mapping /\ op.vma = NULL
     /\ \/ MapFails
        \/ /\ vma_used # Vma
           /\ vma_used' = vma_used \cup {a}
           /\ region' = [region EXCEPT ![a] = LAYOUT[op.r]]
           /\ op' = [op EXCEPT !.vma = a, !.v = LAYOUT[op.r][1]]
           /\ UNCHANGED <<free, mm_used, cr3_phys, tableVars, vma_head, procVars>>

\* The frames page v takes: its own and, if need be, its table's.
FramesFor(m, v) == IF pde[m][Pdi(v)] = NULL THEN 2 ELSE 1

MapPage ==
  LET f == Min(free)
      t == Min(free \ {f})
      n == FramesFor(op.m, op.v)
  IN /\ Mapping /\ op.vma # NULL /\ op.v <= LAYOUT[op.r][2]
     /\ \/ Cardinality(free) < n /\ MapFails
        \/ /\ Cardinality(free) >= n
           /\ free' = free \ (IF n = 2 THEN {f, t} ELSE {f})
           /\ pde' = IF n = 2 THEN [pde EXCEPT ![op.m][Pdi(op.v)] = t] ELSE pde
           /\ pte' = [pte EXCEPT ![op.m][op.v] = f]
           /\ page_count' = [page_count EXCEPT ![op.m] = @ + 1]
           /\ op' = [op EXCEPT !.v = @ + 1]
           /\ UNCHANGED <<poolVars, vma_head, region, procVars>>

MapDone ==
  /\ Mapping /\ op.vma # NULL /\ op.v > LAYOUT[op.r][2]
  /\ vma_insert(op.m, op.vma, LAYOUT[op.r])
  /\ op' = [op EXCEPT !.vma = NULL, !.r = @ + 1]
  /\ UNCHANGED <<free, poolVars, tableVars, region, procVars>>

LoadDone ==
  /\ op.why = "load" /\ op.r > Len(LAYOUT)
  /\ status' = [status EXCEPT ![op.p] = "user"]
  /\ op' = Idle
  /\ UNCHANGED <<free, poolVars, tableVars, vma_head, region, addr_space, current>>

\* execve commits: the process gets the new space, the old one is destroyed.
M_ExecDone ==
  /\ op.why = "exec" /\ op.m # NULL /\ op.r > Len(LAYOUT)
  /\ addr_space' = [addr_space EXCEPT ![op.p] = op.m]
  /\ op' = Idle
  /\ UNCHANGED <<free, poolVars, tableVars, vma_head, region, status, current>>
ExecDone ==
  /\ op.why = "exec" /\ op.m # NULL /\ op.r > Len(LAYOUT)
  /\ addr_space' = [addr_space EXCEPT ![op.p] = op.m]
  /\ mm_destroy(Old, NULL)
  /\ op' = Idle
  /\ UNCHANGED <<region, status, current>>

-----------------------------------------------------------------------------
(* The rest of a process's life, in module Sched in full.                   *)

Switch(p) ==
  /\ op = Idle /\ status[p] \in {"new", "user"} /\ p # current
  /\ current' = p
  /\ UNCHANGED <<free, poolVars, tableVars, vma_head, region, status, addr_space, op>>

Exit ==
  /\ op = Idle /\ InUser
  /\ status' = [status EXCEPT ![current] = "dead"]
  /\ UNCHANGED <<free, poolVars, tableVars, vma_head, region, addr_space, current, op>>

\* proc_free: the reaper destroys the space of an exited child.
proc_free(c) ==
  /\ op = Idle /\ InUser /\ status[c] = "dead"
  /\ mm_destroy(addr_space[c], NULL)
  /\ status' = [status EXCEPT ![c] = "free"]
  /\ addr_space' = [addr_space EXCEPT ![c] = NULL]
  /\ UNCHANGED <<region, current, op>>

Next ==
  /\ UNCHANGED kernel
  /\ \/ _execve \/ syscall_test \/ mm_create \/ BootDone
     \/ CloneTable \/ ClonePage \/ CloneVma \/ ForkDone
     \/ MapVma \/ MapPage \/ MapDone \/ LoadDone \/ ExecDone \/ Exit
     \/ \E p \in Proc : KmainProcAlloc(p) \/ _fork(p) \/ Switch(p) \/ proc_free(p)

Spec == Init /\ [][Next]_vars

-----------------------------------------------------------------------------
(* Properties.                                                              *)

\* Every frame that is neither free nor the kernel's is the directory, one table or one page of one
\* address space, never two of them: fork "should fully tear down any PMM or
\* paging manager allocations done in the event of a failure-to-fork", and so
\* should a failed execve, a successful one and the reaper.
FramesAccounted ==
  free \cap kernel = {} /\ \A f \in Frame :
    Cardinality({m \in Space : cr3_phys[m] = f})
      + Cardinality({x \in Space \X Dir : pde[x[1]][x[2]] = f})
      + Cardinality({x \in Space \X VPage : pte[x[1]][x[2]] = f})
    = IF f \in free \cup kernel THEN 0 ELSE 1

\* Every allocated space belongs to one process or is the one being built, and
\* every allocated vma is on one list or is the one being mapped.
SlotsAccounted ==
  /\ \A m \in Space : Cardinality({p \in Proc : addr_space[p] = m})
                        + (IF op.m = m /\ op.why # "load" THEN 1 ELSE 0)
                      = IF m \in mm_used THEN 1 ELSE 0
  /\ \A a \in Vma : Cardinality({x \in Space \X Vma : x[2] \in DOMAIN vma_head[x[1]]
                                                     /\ vma_head[x[1]][x[2]] = a})
                      + (IF op.vma = a THEN 1 ELSE 0)
                    = IF a \in vma_used THEN 1 ELSE 0

\* What a process in user mode can reach is what its vmas say, page for page,
\* the list is in order, and page_count agrees.
SpacesDescribed ==
  \A p \in Proc : status[p] = "user" =>
    LET m    == addr_space[p]
        list == vma_head[m]
    IN /\ {v \in VPage : pte[m][v] # NULL}
            = UNION {region[list[i]][1] .. region[list[i]][2] : i \in DOMAIN list}
       /\ \A i, j \in DOMAIN list : i < j => region[list[i]][2] < region[list[j]][1]
       /\ page_count[m] = Cardinality({v \in VPage : pte[m][v] # NULL})

\* No operation of one process touches the memory of another, and a failed
\* execve or fork has not touched the caller's ("nothing in the old address
\* space was touched").
SpacesIsolated ==
  [][\A p \in Proc :
       status[p] = "user" /\ addr_space'[p] = addr_space[p] =>
         LET m == addr_space[p]
         IN /\ cr3_phys'[m] = cr3_phys[m] /\ pde'[m] = pde[m] /\ pte'[m] = pte[m]
            /\ vma_head'[m] = vma_head[m]
            /\ \A i \in DOMAIN vma_head[m] : region'[vma_head[m][i]] = region[vma_head[m][i]]]_vars

=============================================================================
