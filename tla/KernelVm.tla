------------------------------ MODULE KernelVm ------------------------------
(***************************************************************************)
(* The users of the kernel's page directory once the kernel runs: one      *)
(* demand-paged pool (kernel/dpage.c; the mm, vma, open-file, descriptor   *)
(* and file-target pools are five of them) and the scratch page through    *)
(* which _mm_alloc_pd of kernel/mm.c fills a new page directory.           *)
(*                                                                         *)
(* Pool slots are ELEM units long in pages of PAGE units, so a slot may    *)
(* lie across two pages: vma_t and mm_t (24 and 36 bytes in 4096) do now   *)
(* and then, fd_entry_t (16 bytes) never does.  Every operation runs with  *)
(* interrupts off and is one step.                                         *)
(***************************************************************************)
EXTENDS Paging

\* A definition M_X is X with a mistake in it; no other definition uses it.

CONSTANTS
  PAGE, ELEM,
  SLOTS,         \* bits of the pool's bitmap
  POOL,          \* the pool's first page
  BOOTED         \* directory entries that exist from boot

Slot == 0 .. SLOTS - 1
FirstPage(i) == POOL + (i * ELEM) \div PAGE
LastPage(i) == POOL + (i * ELEM + ELEM - 1) \div PAGE
TEMP_PAGE == VPAGES - 1

ASSUME PoolAssumption ==
  /\ PAGE \in Nat \ {0} /\ ELEM \in 1 .. PAGE /\ SLOTS \in Nat \ {0}
  /\ POOL \in Page /\ LastPage(SLOTS - 1) < TEMP_PAGE
  /\ BOOTED \subseteq Dir /\ Pdi(POOL) \in BOOTED /\ Cardinality(BOOTED) < FRAMES

VARIABLES
  bitmap,        \* set bits: slots handed out
  others         \* frames handed to page directories and user memory

vars == <<free, pd, pte, bitmap, others>>

\* After dpage_init: the pool's first page is mapped, the pool is empty.
Init ==
  /\ pd \in [Dir -> Frame \cup {NULL}]
  /\ \A d \in Dir : pd[d] # NULL <=> d \in BOOTED
  /\ \A d \in BOOTED : pd[d] = Cardinality({e \in BOOTED : e <= d})
  /\ pte = [v \in Page |-> IF v = POOL THEN FRAMES ELSE NULL]
  /\ free = Frame \ ({FRAMES} \cup {pd[d] : d \in Dir})
  /\ bitmap = {} /\ others = {}

-----------------------------------------------------------------------------
\* Make sure that page v of the pool is mapped: the outcomes, with the call
\* that failed and whether the page is one it has just mapped.
Demand(s, v) ==
  IF s.pte[v] # NULL THEN {[failed |-> "none", mapped |-> FALSE, st |-> s]}
  ELSE IF s.free = {} THEN {[failed |-> "pmm", mapped |-> FALSE, st |-> s]}
  ELSE LET f == NextBlock(s)
       IN {[failed |-> IF r.ok THEN "none" ELSE "map", mapped |-> r.ok,
            st |-> IF r.ok THEN r.st ELSE Dealloc(r.st, f)] :
             r \in paging_map_page(Take(s), v, f)}

\* The first page is unmapped and its frame freed because the second one
\* could not be had.
M_UnmapFirst(s, v) == {u.st : u \in paging_unmap_page(s, v)}
UnmapFirst(s, v) == {Dealloc(u.st, u.phys) : u \in paging_unmap_page(s, v)}

\* What a failed demand for the second page leaves behind, r being the outcome
\* for the first one: without a frame the first page goes whoever mapped it,
\* with a frame that could not be mapped only if it was mapped just now.
Unwound(q, r, v) ==
  IF q.failed = "pmm" \/ r.mapped THEN UnmapFirst(q.st, v) ELSE {q.st}

FirstClear == Min(Slot \ bitmap)

dpage_alloc ==
  LET i == FirstClear
      a == FirstPage(i)
      b == LastPage(i)
  IN /\ bitmap # Slot
     /\ \E r \in Demand(mem, a) :
          \/ r.failed # "none" /\ Becomes(r.st) /\ UNCHANGED bitmap
          \/ r.failed = "none" /\ a = b /\ Becomes(r.st) /\ bitmap' = bitmap \cup {i}
          \/ /\ r.failed = "none" /\ a # b
             /\ \E q \in Demand(r.st, b) :
                  \/ q.failed = "none" /\ Becomes(q.st) /\ bitmap' = bitmap \cup {i}
                  \/ /\ q.failed # "none"
                     /\ \E s \in Unwound(q, r, a) : Becomes(s)
                     /\ UNCHANGED bitmap
     /\ UNCHANGED others

\* A slot is freed; its pages stay mapped.
dpage_bm_clear(i) ==
  /\ i \in bitmap
  /\ bitmap' = bitmap \ {i}
  /\ UNCHANGED <<free, pd, pte, others>>

\* A frame for a page directory is mapped at the scratch page, filled and
\* unmapped again; when it cannot be mapped it is given back.
_mm_alloc_pd ==
  LET f == NextBlock(mem)
  IN /\ free # {}
     /\ \E r \in paging_map_page(Take(mem), TEMP_PAGE, f) :
          IF r.ok
          THEN \E u \in paging_unmap_page(r.st, TEMP_PAGE) :
                 Becomes(u.st) /\ others' = others \cup {f}
          ELSE Becomes(Dealloc(r.st, f)) /\ UNCHANGED others
     /\ UNCHANGED bitmap

\* Frames come and go in user address spaces.
UserFrame ==
  /\ \/ /\ free # {}
        /\ Becomes(Take(mem)) /\ others' = others \cup {NextBlock(mem)}
     \/ \E f \in others : Becomes(Dealloc(mem, f)) /\ others' = others \ {f}
  /\ UNCHANGED bitmap

Next ==
  \/ dpage_alloc \/ _mm_alloc_pd \/ UserFrame
  \/ \E i \in Slot : dpage_bm_clear(i)

Spec == Init /\ [][Next]_vars

-----------------------------------------------------------------------------
(* Properties.                                                              *)

\* The bitmap holds slots of the pool, and the directory and the tables hold
\* frames, nothing or, where paging.c left a table uncleared, old contents.
TypeOK ==
  /\ free \subseteq Frame /\ others \subseteq Frame /\ bitmap \subseteq Slot
  /\ pd \in [Dir -> Frame \cup {NULL}]
  /\ pte \in [Page -> Frame \cup {NULL, JUNK}]

\* Every frame is in exactly one place: free, a page table, the target of one
\* page, or somebody else's.  No outcome of dpage_alloc or _mm_alloc_pd, the
\* failures in the middle included, leaks a frame or leaves it in two places.
FramesInOnePlace ==
  \A f \in Frame :
    Cardinality({p \in {"free", "others"} : f \in IF p = "free" THEN free ELSE others})
      + Cardinality({d \in Dir : pd[d] = f}) + Cardinality({v \in Page : pte[v] = f}) = 1

\* A slot that dpage_alloc hands out is mapped from its first to its last byte,
\* whichever of its pages were there already.
NewSlotsMapped ==
  [][\A i \in bitmap' \ bitmap : pte'[FirstPage(i)] \in Frame /\ pte'[LastPage(i)] \in Frame]_vars

\* Every slot handed out stays in mapped memory, also after other allocations
\* failed half way ("If we already mapped the first page but failed on the
\* second, we should unmap the first page and free its frame").
LiveSlotsMapped ==
  \A i \in bitmap : \A v \in {FirstPage(i), LastPage(i)} : pte[v] \in Frame

\* The scratch page is "guaranteed to be unmapped" when _mm_alloc_pd maps it.
TempPageUnmapped == pte[TEMP_PAGE] = NULL

=============================================================================
