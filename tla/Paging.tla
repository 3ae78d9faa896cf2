------------------------------- MODULE Paging -------------------------------
(***************************************************************************)
(* The kernel's own page directory: paging_map_page and paging_unmap_page  *)
(* of kernel/paging.c, over the frames of the physical memory manager.     *)
(* They run inside longer operations that are atomic as a whole, so they   *)
(* are operators on a record of the three variables; one that can end in   *)
(* several ways yields the set of its outcomes.                            *)
(*                                                                         *)
(* Left out: flags and alignment, which every caller passes correctly, and *)
(* PT_MAX, which 1024 directory entries cannot exceed.                     *)
(***************************************************************************)
EXTENDS Integers, FiniteSets, FiniteSetsExt

CONSTANTS
  FRAMES,        \* frames the bitmap may hand out
  VPAGES,        \* kernel pages looked at
  PT_SPAN,       \* pages under one page table; 1024
  ZEROED         \* a frame that becomes a page table happens to hold zeros

ASSUME PagingAssumption ==
  /\ FRAMES \in Nat /\ VPAGES \in Nat \ {0} /\ PT_SPAN \in Nat \ {0}
  /\ ZEROED \in BOOLEAN

Frame == 1 .. FRAMES
Page  == 0 .. VPAGES - 1
Pdi(v) == v \div PT_SPAN
Dir == {Pdi(v) : v \in Page}

NULL == -1
JUNK == -2       \* present, as far as anybody can tell, with any address

VARIABLES
  free,          \* clear bits of the frame bitmap
  pd,            \* by directory entry: its table's frame, or NULL
  pte            \* by page: the frame it maps, NULL or JUNK

mem == [free |-> free, pd |-> pd, pte |-> pte]
Becomes(s) == free' = s.free /\ pd' = s.pd /\ pte' = s.pte

\* pmm_get_next_available_block; which of the free frames it is plays no part.
NextBlock(s) == Min(s.free)
Take(s) == [s EXCEPT !.free = @ \ {NextBlock(s)}]

\* pmm_dealloc_specific_block, which refuses what is no frame of its own.
Dealloc(s, f) == [s EXCEPT !.free = @ \cup ({f} \cap Frame)]

\* The page table paging_map_page makes for the directory entry d.  Nothing
\* clears the frame: every entry of it is whatever the frame held.
NewTable(s, d) ==
  LET mine == {v \in Page : Pdi(v) = d}
  IN {[Take(s) EXCEPT !.pd[d] = NextBlock(s),
                      !.pte = [v \in Page |-> IF v \in old THEN JUNK
                                              ELSE IF v \in mine THEN NULL ELSE s.pte[v]]] :
        old \in IF ZEROED THEN {{}} ELSE SUBSET mine}

\* Map page v to frame f: the outcomes, with the state each leaves behind.
paging_map_page(s, v, f) ==
  LET d      == Pdi(v)
      tables == IF s.pd[d] # NULL THEN {s} ELSE NewTable(s, d)
  IN IF s.pd[d] = NULL /\ s.free = {}
     THEN {[ok |-> FALSE, st |-> s]}                       \* PAGING_ERR_NOMEM
     ELSE {IF t.pte[v] = NULL
           THEN [ok |-> TRUE, st |-> [t EXCEPT !.pte[v] = f]]
           ELSE [ok |-> FALSE, st |-> t] : t \in tables}   \* PAGING_ERR_ALREADY_MAPPED

\* Unmap page v: the outcomes, each with the address it reports.
paging_unmap_page(s, v) ==
  {[phys |-> f, st |-> [s EXCEPT !.pte[v] = NULL]] :
     f \in IF s.pte[v] = JUNK THEN Frame \cup {NULL} ELSE {s.pte[v]}}

=============================================================================
