------------------------------ MODULE MmProofs ------------------------------
(***************************************************************************)
(* Address spaces for every number of frames, spaces, vmas and processes   *)
(* and every layout of disjoint regions.                                   *)
(***************************************************************************)
EXTENDS Mm, ListLemmas

\* Where a frame can be in use: as the directory of a space, as one of its
\* tables, as one of its pages.
Place == ({0} \X Space \X {0}) \cup ({1} \X Space \X Dir) \cup ({2} \X Space \X VPage)

\* The frame there, or NULL.
held ==
  [x \in Place |-> IF x[1] = 0 THEN cr3_phys[x[2]]
                   ELSE IF x[1] = 1 THEN pde[x[2]][x[3]] ELSE pte[x[2]][x[3]]]

-----------------------------------------------------------------------------
(* The inductive invariant.                                                 *)

MmType ==
  /\ free \in SUBSET Frame /\ kernel \in SUBSET Frame
  /\ mm_used \in SUBSET Space /\ vma_used \in SUBSET Vma
  /\ cr3_phys \in [Space -> Frame \cup {NULL}]
  /\ pde \in [Space -> [Dir -> Frame \cup {NULL}]]
  /\ pte \in [Space -> [VPage -> Frame \cup {NULL}]]
  /\ page_count \in [Space -> Nat]
  /\ vma_head \in [Space -> Seq(Vma)]
  /\ region \in [Vma -> Int \X Int]
  /\ status \in [Proc -> {"free", "new", "user", "dead"}]
  /\ addr_space \in [Proc -> Space \cup {NULL}]
  /\ current \in Proc \cup {NULL}
  /\ op \in [why : {"idle", "boot", "fork", "exec", "load"}, p : Proc \cup {NULL},
             m : Space \cup {NULL}, r : Nat, vma : Vma \cup {NULL}, v : Int]

\* No frame is in two places, and those in none are the free ones and the
\* kernel's.
Owned(h, unused) ==
  /\ \A x, y \in Place : h[x] = h[y] /\ h[x] # NULL => x = y
  /\ \A f \in Frame : f \in unused <=> \A x \in Place : h[x] # f

FramesInv == free \cap kernel = {} /\ Owned(held, free \cup kernel)

Mapped(m) == {v \in VPage : pte[m][v] # NULL}

\* What holds of every space, used or not.
SpacesInv ==
  \A m \in Space :
    /\ m \notin mm_used => /\ cr3_phys[m] = NULL /\ pde[m] = Blank /\ pte[m] = Empty
                           /\ vma_head[m] = <<>>
    /\ \A v \in VPage : pte[m][v] # NULL => pde[m][Pdi(v)] # NULL
    /\ page_count[m] = Cardinality(Mapped(m))

\* Who has which space.
Building == op.why \in {"boot", "fork", "exec"} /\ op.m # NULL

OwnersInv ==
  /\ \A p \in Proc : addr_space[p] = NULL <=> status[p] = "free"
  /\ \A p, q \in Proc : addr_space[p] = addr_space[q] /\ addr_space[p] # NULL => p = q
  /\ \A p \in Proc : addr_space[p] # NULL => addr_space[p] \in mm_used
  /\ \A m \in mm_used : (\E p \in Proc : addr_space[p] = m) \/ (Building /\ op.m = m)
  /\ Building => op.m \in mm_used /\ \A p \in Proc : addr_space[p] # op.m

\* Which vma is where.
VmasInv ==
  /\ \A m \in Space : IsInjective(vma_head[m]) /\ Range(vma_head[m]) \subseteq vma_used
  /\ \A m, n \in Space : \A a \in Vma :
       a \in Range(vma_head[m]) /\ a \in Range(vma_head[n]) => m = n
  /\ \A a \in vma_used : a = op.vma \/ \E m \in Space : a \in Range(vma_head[m])
  /\ op.vma # NULL => op.vma \in vma_used /\ \A m \in Space : op.vma \notin Range(vma_head[m])

\* What the operation under way works on.
OpInv ==
  /\ op.why = "idle" => op = Idle
  /\ op.why # "idle" => op.p \in Proc /\ op.r > 0
  /\ op.why = "boot" => \A p \in Proc : status[p] = "free"
  /\ op.why \in {"fork", "exec"} => InUser
  /\ op.why = "fork" => status[op.p] = "free"
  /\ op.why \in {"exec", "load"} => op.p = current
  /\ op.why = "load" => /\ current # NULL /\ status[current] = "new"
                        /\ op.m = addr_space[current]
  /\ op.vma # NULL => /\ Mapping /\ region[op.vma] = LAYOUT[op.r]
                      /\ LAYOUT[op.r][1] <= op.v /\ op.v <= LAYOUT[op.r][2] + 1

\* Page v is in a region of the list of m.
InVma(m, v) ==
  \E i \in DOMAIN vma_head[m] : /\ region[vma_head[m][i]][1] <= v
                                /\ v <= region[vma_head[m][i]][2]

Ordered(m) ==
  LET list == vma_head[m]
  IN \A i, j \in DOMAIN list :
       /\ region[list[i]][1] <= region[list[i]][2]
       /\ i < j => region[list[i]][2] < region[list[j]][1]

\* The pages of m are those of its vmas and those of the region in the making.
Described(m) ==
  /\ Ordered(m)
  /\ \A v \in Int : v \in Mapped(m) <=>
       InVma(m, v) \/ (op.m = m /\ op.vma # NULL /\ LAYOUT[op.r][1] <= v /\ v < op.v)

UserDesc == \A p \in Proc : status[p] = "user" => Described(addr_space[p])

\* A space nobody has loaded yet has no pages.
Fresh(m) == pte[m] = Empty /\ vma_head[m] = <<>>
FreshDesc ==
  /\ \A p \in Proc : status[p] = "new" /\ ~(op.why = "load" /\ p = current) =>
       Fresh(addr_space[p])
  /\ op.why = "boot" /\ op.m # NULL => Fresh(op.m)

MapDesc ==
  op.why \in {"exec", "load"} /\ op.m # NULL =>
    /\ Described(op.m)
    /\ \A i \in DOMAIN vma_head[op.m] : \E k \in DOMAIN LAYOUT :
         k < op.r /\ region[vma_head[op.m][i]] = LAYOUT[k]

CloneDesc ==
  Cloning =>
    /\ Mapped(op.m) \subseteq Mapped(Old)
    /\ Len(vma_head[op.m]) <= Len(vma_head[Old])
    /\ \A i \in DOMAIN vma_head[op.m] : region[vma_head[op.m][i]] = region[vma_head[Old][i]]

DescInv == UserDesc /\ FreshDesc /\ MapDesc /\ CloneDesc

MmInv == MmType /\ FramesInv /\ SpacesInv /\ OwnersInv /\ VmasInv /\ OpInv /\ DescInv

-----------------------------------------------------------------------------
(* Numbers and pools.                                                       *)

\* What the steps need to know of least elements and of sizes; the library
\* theorems that say so are cited in MmTheorems.
Counting(T) ==
  /\ Cardinality({}) = 0
  /\ \A S \in SUBSET T : /\ Cardinality(S) \in Nat
                         /\ \A x \in T \ S : Cardinality(S \cup {x}) = Cardinality(S) + 1

Known == WellOrdered /\ Counting(Frame) /\ Counting(VPage)

\* NULL is nothing's number, and every page has a table.
LEMMA Numbers ==
  /\ NULL \notin Frame /\ NULL \notin Space /\ NULL \notin Vma /\ NULL \notin Proc
  /\ Frame \subseteq Nat /\ Space \subseteq Nat /\ Vma \subseteq Nat
  /\ Dir \subseteq Nat /\ VPage \subseteq Nat
  /\ \A v \in VPage : Pdi(v) \in Dir
<1>1. \A v \in VPage : Pdi(v) \in Nat
  <2>1. ASSUME NEW v \in Nat, NEW n \in Nat \ {0} PROVE v \div n \in Nat
    OBVIOUS
  <2>2. \A v \in VPage : v \in Nat
    BY LayoutAssumption DEF VPage
  <2>3. PT_SPAN \in Nat \ {0}
    BY LayoutAssumption, Zenon
  <2> QED BY <2>1, <2>2, <2>3, Zenon DEF Pdi
<1> QED BY <1>1 DEF NULL, Frame, Space, Vma, Proc, VPage, Dir

\* The regions of the layout are ranges of user pages, and disjoint.
LEMMA Layout ==
  /\ LAYOUT \in Seq(Int \X Int) /\ DOMAIN LAYOUT = 1 .. Len(LAYOUT) /\ Len(LAYOUT) \in Nat
  /\ \A k \in DOMAIN LAYOUT :
       /\ LAYOUT[k] \in Int \X Int /\ LAYOUT[k][1] \in Int /\ LAYOUT[k][2] \in Int
       /\ LAYOUT[k][1] <= LAYOUT[k][2]
       /\ \A v \in Int : LAYOUT[k][1] <= v /\ v <= LAYOUT[k][2] => v \in VPage
       /\ \A j \in DOMAIN LAYOUT : k # j => \/ LAYOUT[k][2] < LAYOUT[j][1]
                                            \/ LAYOUT[j][2] < LAYOUT[k][1]
<1>1. \A k \in DOMAIN LAYOUT : LAYOUT[k] \in VPage \X VPage
  BY LayoutAssumption
<1>2. LAYOUT \in Seq(VPage \X VPage) /\ DOMAIN LAYOUT = 1 .. Len(LAYOUT) /\ Len(LAYOUT) \in Nat
  BY LayoutAssumption
<1>3. VPage \subseteq Int
  BY Numbers
<1>4. \A k \in DOMAIN LAYOUT : LAYOUT[k][1] \in VPage /\ LAYOUT[k][2] \in VPage
                               /\ LAYOUT[k] = <<LAYOUT[k][1], LAYOUT[k][2]>>
  BY <1>1
<1>5. \A k \in DOMAIN LAYOUT : LAYOUT[k] \in Int \X Int
  BY <1>3, <1>1, Zenon
<1>6. LAYOUT \in Seq(Int \X Int)
  <2>1. LAYOUT \in Seq(VPage \X VPage)
    BY <1>2, Zenon
  <2> QED BY <2>1, <1>5, RetypeLemma, Zenon
<1>7. ASSUME NEW k \in DOMAIN LAYOUT, NEW v \in Int, LAYOUT[k][1] <= v, v <= LAYOUT[k][2]
      PROVE  v \in VPage
  <2>1. \A a, b \in VPage : a <= v /\ v <= b => v \in VPage
    BY LayoutAssumption DEF VPage
  <2> QED BY <2>1, <1>4, <1>7, Zenon
<1> QED BY <1>2, <1>3, <1>4, <1>5, <1>6, <1>7, LayoutAssumption, Zenon

\* pmm_alloc_frame, mm_create's slot search and vma_pool_alloc find a free one.
LEMMA Pools ==
  ASSUME Known, MmType
  PROVE  /\ free # {} => Min(free) \in free /\ Min(free) \in Frame
         /\ mm_used # Space => Min(Space \ mm_used) \in Space \ mm_used
         /\ vma_used # Vma => Min(Vma \ vma_used) \in Vma \ vma_used
<1>1. free \subseteq Frame /\ mm_used \subseteq Space /\ vma_used \subseteq Vma
  BY Zenon DEF MmType
<1> QED BY <1>1, MinLemma, Numbers, Zenon DEF Known

-----------------------------------------------------------------------------
(* Frames.                                                                  *)

\* held, place by place.
LEMMA HeldAt ==
  /\ \A m \in Space : <<0, m, 0>> \in Place /\ held[<<0, m, 0>>] = cr3_phys[m]
  /\ \A m \in Space, d \in Dir : <<1, m, d>> \in Place /\ held[<<1, m, d>>] = pde[m][d]
  /\ \A m \in Space, v \in VPage : <<2, m, v>> \in Place /\ held[<<2, m, v>>] = pte[m][v]
  /\ \A x \in Place : \/ x[2] \in Space /\ x = <<0, x[2], 0>>
                      \/ x[2] \in Space /\ x[3] \in Dir /\ x = <<1, x[2], x[3]>>
                      \/ x[2] \in Space /\ x[3] \in VPage /\ x = <<2, x[2], x[3]>>
  BY DEF Place, held

\* A free frame put into an empty place.
LEMMA TakeFrame ==
  ASSUME NEW h, NEW g, NEW S, Owned(h, S), NEW f \in S, f \in Frame,
         NEW x \in Place, h[x] = NULL,
         \A y \in Place : g[y] = IF y = x THEN f ELSE h[y]
  PROVE  Owned(g, S \ {f})
  BY Numbers DEF Owned

\* Places emptied, and their frames freed.
LEMMA DropFrames ==
  ASSUME NEW h, NEW g, NEW S, NEW T, Owned(h, S), NEW X \in SUBSET Place,
         \A y \in Place : g[y] = IF y \in X THEN NULL ELSE h[y],
         \A f \in Frame : f \in T <=> f \in S \/ \E x \in X : h[x] = f
  PROVE  Owned(g, T)
  BY Numbers DEF Owned
-----------------------------------------------------------------------------
(* mm_destroy.                                                              *)

\* Every frame of the space is freed, and no other: what the walk over the
\* directory reaches is all there is.
LEMMA DestroyFrames ==
  ASSUME MmType, FramesInv, SpacesInv, NEW m \in Space, NEW extra, mm_destroy(m, extra),
         kernel' = kernel
  PROVE  FramesInv' /\ free' \in SUBSET Frame
<1> DEFINE X == {x \in Place : x[2] = m}
<1>1. /\ cr3_phys' = [cr3_phys EXCEPT ![m] = NULL]
      /\ pde' = [pde EXCEPT ![m] = Blank] /\ pte' = [pte EXCEPT ![m] = Empty]
      /\ free' = free \cup (Reached(m) \ {NULL})
  BY Zenon DEF mm_destroy
<1>2. /\ cr3_phys \in [Space -> Frame \cup {NULL}]
      /\ pde \in [Space -> [Dir -> Frame \cup {NULL}]]
      /\ pte \in [Space -> [VPage -> Frame \cup {NULL}]]
      /\ free \in SUBSET Frame /\ kernel \in SUBSET Frame
  BY Zenon DEF MmType
<1>3. ASSUME NEW y \in Place PROVE held'[y] = IF y \in X THEN NULL ELSE held[y]
  BY HeldAt, <1>1, <1>2 DEF held, Blank, Empty
<1>4. ASSUME NEW f \in Frame PROVE f \in Reached(m) <=> \E x \in X : held[x] = f
  <2>1. f # NULL
    BY Numbers, Zenon
  <2>2. ASSUME f \in Reached(m) PROVE \E x \in X : held[x] = f
    <3>1. CASE f = cr3_phys[m]
      BY HeldAt, <3>1, Zenon
    <3>2. CASE \E d \in Dir : f = pde[m][d]
      <4>1. PICK d \in Dir : f = pde[m][d]
        BY <3>2, Zenon
      <4>2. <<1, m, d>> \in X
        BY HeldAt, Zenon
      <4> QED BY <4>1, <4>2, HeldAt, Zenon
    <3>3. CASE \E v \in VPage : f = pte[m][v]
      <4>1. PICK v \in VPage : f = pte[m][v]
        BY <3>3, Zenon
      <4>2. <<2, m, v>> \in X
        BY HeldAt, Zenon
      <4> QED BY <4>1, <4>2, HeldAt, ZenonT(30)
    <3> QED BY <2>2, <3>1, <3>2, <3>3, Zenon DEF Reached
  <2>3. ASSUME NEW x \in X, held[x] = f PROVE f \in Reached(m)
    BY <2>3, HeldAt, <2>1 DEF Reached, SpacesInv
  <2> QED BY <2>2, <2>3, Zenon
<1>5. Owned(held, free \cup kernel) /\ free \cap kernel = {}
  BY Zenon DEF FramesInv
<1>6. Owned(held', free' \cup kernel')
  <2>1. X \in SUBSET Place
    BY Zenon
  <2> DEFINE S == free \cup kernel
             T == free' \cup kernel'
  <2>2. \A f \in Frame : f \in T <=> f \in S \/ \E x \in X : held[x] = f
    BY <1>1, <1>4, Numbers, Zenon
  <2>3. Owned(held, S)
    BY <1>5, Zenon
  <2> HIDE DEF X, S, T
  <2> QED BY <2>1, <2>2, <2>3, <1>3, DropFrames DEF T
<1>7. free' \in SUBSET Frame
  <2>1. Reached(m) \subseteq Frame \cup {NULL}
    BY <1>2 DEF Reached
  <2> QED BY <2>1, <1>1, <1>2, Zenon
<1>8. free' \cap kernel' = {}
  BY <1>4, <1>5, <1>1, <1>7 DEF Owned
<1> QED BY <1>7, <1>8, <1>6, Zenon DEF FramesInv

\* The slot and the vmas go back to their pools; the other spaces stay.
LEMMA DestroySpaces ==
  ASSUME Known, MmType, SpacesInv, NEW m \in Space, NEW extra, mm_destroy(m, extra)
  PROVE  /\ mm_used' \in SUBSET Space /\ vma_used' \in SUBSET Vma
         /\ cr3_phys' \in [Space -> Frame \cup {NULL}]
         /\ pde' \in [Space -> [Dir -> Frame \cup {NULL}]]
         /\ pte' \in [Space -> [VPage -> Frame \cup {NULL}]]
         /\ page_count' \in [Space -> Nat] /\ vma_head' \in [Space -> Seq(Vma)]
         /\ SpacesInv'
         /\ \A n \in Space : n # m => /\ cr3_phys'[n] = cr3_phys[n] /\ pde'[n] = pde[n]
                                      /\ pte'[n] = pte[n] /\ vma_head'[n] = vma_head[n]
<1>1. /\ cr3_phys' = [cr3_phys EXCEPT ![m] = NULL]
      /\ pde' = [pde EXCEPT ![m] = Blank] /\ pte' = [pte EXCEPT ![m] = Empty]
      /\ page_count' = [page_count EXCEPT ![m] = 0]
      /\ vma_head' = [vma_head EXCEPT ![m] = <<>>]
      /\ mm_used' = mm_used \ {m}
      /\ vma_used' = vma_used \ (Range(vma_head[m]) \cup {extra})
  BY Zenon DEF mm_destroy
<1>2. /\ cr3_phys \in [Space -> Frame \cup {NULL}]
      /\ pde \in [Space -> [Dir -> Frame \cup {NULL}]]
      /\ pte \in [Space -> [VPage -> Frame \cup {NULL}]]
      /\ page_count \in [Space -> Nat] /\ vma_head \in [Space -> Seq(Vma)]
      /\ mm_used \in SUBSET Space /\ vma_used \in SUBSET Vma
  BY Zenon DEF MmType
<1>3. ASSUME NEW n \in Space, n # m
      PROVE  /\ cr3_phys'[n] = cr3_phys[n] /\ pde'[n] = pde[n] /\ pte'[n] = pte[n]
             /\ page_count'[n] = page_count[n] /\ vma_head'[n] = vma_head[n]
             /\ n \in mm_used' <=> n \in mm_used
  BY <1>1, <1>3
<1>4. ASSUME NEW n \in Space
      PROVE  /\ n \notin mm_used' => /\ cr3_phys'[n] = NULL /\ pde'[n] = Blank
                                     /\ pte'[n] = Empty /\ vma_head'[n] = <<>>
             /\ \A v \in VPage : pte'[n][v] # NULL => pde'[n][Pdi(v)] # NULL
             /\ page_count'[n] = Cardinality({v \in VPage : pte'[n][v] # NULL})
  <2>1. CASE n # m
    <3>1. /\ n \notin mm_used => /\ cr3_phys[n] = NULL /\ pde[n] = Blank
                                 /\ pte[n] = Empty /\ vma_head[n] = <<>>
          /\ \A v \in VPage : pte[n][v] # NULL => pde[n][Pdi(v)] # NULL
          /\ page_count[n] = Cardinality(Mapped(n))
      BY ZenonT(30) DEF SpacesInv
    <3> QED BY <2>1, <3>1, <1>3, Zenon DEF Mapped
  <2> QED BY <2>1, <1>1, <1>2, Zenon DEF Empty, Known, Counting
<1>5. SpacesInv'
  BY <1>4, Zenon DEF SpacesInv, Mapped
<1> QED BY <1>3, <1>5, <1>1, <1>2 DEF Blank, Empty

\* Every remaining vma is still on one list.
LEMMA DestroyVmas ==
  ASSUME MmType, VmasInv, NEW m \in Space, mm_destroy(m, op.vma), op'.vma = NULL
  PROVE  VmasInv'
<1>1. /\ vma_head' = [vma_head EXCEPT ![m] = <<>>]
      /\ vma_used' = vma_used \ (Range(vma_head[m]) \cup {op.vma})
      /\ vma_head \in [Space -> Seq(Vma)] /\ vma_used \in SUBSET Vma
  BY Zenon DEF mm_destroy, MmType
<1>2. vma_head'[m] = <<>> /\ \A n \in Space : n # m => vma_head'[n] = vma_head[n]
  BY <1>1, Zenon
<1>3. Range(<<>>) = {} /\ IsInjective(<<>>)
  BY DEF Range, IsInjective
<1>4. \A n \in Space : \A a : a \in Range(vma_head'[n]) <=> n # m /\ a \in Range(vma_head[n])
  BY <1>2, <1>3, ZenonT(30)
<1>5. NULL \notin Vma
  BY Numbers, Zenon
<1>6. ASSUME NEW n \in Space PROVE IsInjective(vma_head'[n])
  BY <1>2, <1>3, Zenon DEF VmasInv
<1>7. ASSUME NEW n \in Space, NEW a \in Range(vma_head'[n]) PROVE a \in vma_used'
  BY <1>4, <1>5, <1>1 DEF VmasInv
<1>8. ASSUME NEW a \in vma_used' PROVE \E n \in Space : a \in Range(vma_head'[n])
  BY <1>1, Zenon DEF VmasInv
<1>9. ASSUME NEW n \in Space, NEW k \in Space, NEW a \in Vma,
             a \in Range(vma_head'[n]), a \in Range(vma_head'[k])
      PROVE  n = k
  BY <1>4, <1>9, ZenonT(30) DEF VmasInv
<1> QED BY <1>6, <1>7, <1>8, <1>9, Zenon DEF VmasInv
-----------------------------------------------------------------------------
(* What a step leaves alone.                                                *)

\* A step that moves no frame.
LEMMA FramesSame ==
  ASSUME FramesInv, UNCHANGED <<free, kernel, cr3_phys, pde, pte>>
  PROVE  FramesInv'
  BY Zenon DEF held, FramesInv

\* A step that changes no space.
LEMMA SpacesSame ==
  ASSUME SpacesInv, UNCHANGED <<mm_used, cr3_phys, pde, pte, page_count, vma_head>>
  PROVE  SpacesInv'
  BY Zenon DEF SpacesInv, Mapped

\* A step that moves no vma.
LEMMA VmasSame ==
  ASSUME VmasInv, UNCHANGED <<vma_used, vma_head>>, op'.vma = op.vma
  PROVE  VmasInv'
  BY Zenon DEF VmasInv

\* A space without a region in the making keeps its description as long as its
\* pages, its list and the regions on it stay.
LEMMA DescSame ==
  ASSUME NEW n \in Space, Described(n), vma_head'[n] = vma_head[n], pte'[n] = pte[n],
         \A i \in DOMAIN vma_head[n] : region'[vma_head[n][i]] = region[vma_head[n][i]],
         ~(op.m = n /\ op.vma # NULL), ~(op'.m = n /\ op'.vma # NULL)
  PROVE  Described(n)'
  BY DEF Described, Ordered, InVma, Mapped

\* An empty space is described by its empty list.
LEMMA FreshDescribed ==
  ASSUME NEW n \in Space, Fresh(n)', ~(op'.m = n /\ op'.vma # NULL)
  PROVE  Described(n)'
  BY DEF Fresh, Mapped, Empty, Described, Ordered, InVma

\* An operation that is not mapping a region has no vma in hand.
LEMMA NoVma ==
  ASSUME OpInv, ~Mapping
  PROVE  op.vma = NULL
  BY Zenon DEF OpInv

\* The spaces of two processes differ, and from the one being built.
LEMMA OwnSpace ==
  ASSUME MmType, OwnersInv, NEW p \in Proc, status[p] # "free"
  PROVE  /\ addr_space[p] \in Space /\ addr_space[p] # NULL /\ addr_space[p] \in mm_used
         /\ \A q \in Proc : addr_space[q] = addr_space[p] => q = p
         /\ Building => op.m # addr_space[p]
  BY Zenon DEF MmType, OwnersInv
-----------------------------------------------------------------------------
(* Each step keeps the invariant.                                           *)

\* The state before the first process.
LEMMA InitInv ==
  ASSUME Known, Init
  PROVE  MmInv
<1>1. MmType
  BY LayoutAssumption DEF Init, Frame, Idle, MmType, Blank, Empty
<1>2. FramesInv
  <2>1. \A x \in Place : held[x] = NULL
    BY HeldAt DEF Init, Blank, Empty
  <2> QED BY <2>1, Numbers, Zenon DEF FramesInv, Owned, Init
<1>3. SpacesInv
  BY Zenon DEF Init, Mapped, Empty, Known, Counting, SpacesInv
<1>4. OwnersInv
  BY ZenonT(30) DEF Init, OwnersInv, Building, Idle
<1>5. VmasInv
  BY DEF Range, IsInjective, Init, VmasInv, Idle
<1>6. DescInv
  BY Zenon DEF Init, DescInv, UserDesc, FreshDesc, MapDesc, CloneDesc, Cloning, Idle
<1> QED BY <1>1, <1>2, <1>3, <1>4, <1>5, <1>6, Zenon DEF MmInv, Init, OpInv, Idle

\* KmainProcAlloc, _fork, _execve and syscall_test begin.
LEMMA BeginInv ==
  ASSUME MmInv, NEW why, NEW p \in Proc, NEW m, Begin(why, p, m), kernel' = kernel,
         \/ why = "boot" /\ m = NULL /\ \A q \in Proc : status[q] = "free"
         \/ why = "fork" /\ m = NULL /\ InUser /\ status[p] = "free"
         \/ why = "exec" /\ m = NULL /\ InUser /\ p = current
         \/ /\ why = "load" /\ p = current /\ current # NULL /\ status[current] = "new"
            /\ m = addr_space[current]
  PROVE  MmInv'
<1>1. op = Idle /\ op.why = "idle" /\ op.m = NULL /\ op.vma = NULL
  BY ZenonT(30) DEF Begin, Idle
<1>2. op' = [why |-> why, p |-> p, m |-> m, r |-> 1, vma |-> NULL, v |-> 0]
  BY ZenonT(30) DEF Begin, Idle
<1>3. op'.why = why /\ op'.p = p /\ op'.m = m /\ op'.r = 1 /\ op'.vma = NULL
  BY <1>2, Zenon
<1>4. /\ UNCHANGED <<free, kernel, mm_used, cr3_phys, vma_used>>
      /\ UNCHANGED <<pde, pte, page_count, vma_head, region>>
      /\ UNCHANGED <<status, addr_space, current>>
  BY Zenon DEF Begin, poolVars, tableVars, procVars
<1>5. \/ why \in {"boot", "fork", "exec"} /\ m = NULL
      \/ why = "load" /\ m \in Space
  BY OwnSpace, Zenon DEF MmInv
<1>6. MmType'
  <2>1. op' \in [why : {"idle", "boot", "fork", "exec", "load"}, p : Proc \cup {NULL},
                 m : Space \cup {NULL}, r : Nat, vma : Vma \cup {NULL}, v : Int]
    BY <1>2, <1>5
  <2> QED BY <2>1, <1>4, ZenonT(30) DEF MmInv, MmType
<1>7. FramesInv' /\ SpacesInv' /\ VmasInv'
  BY <1>1, <1>3, <1>4, FramesSame, SpacesSame, VmasSame, ZenonT(30) DEF MmInv
<1>8. OwnersInv'
  BY <1>1, <1>3, <1>4, Zenon DEF MmInv, OwnersInv, Building
<1>9. OpInv'
  BY <1>3, <1>4 DEF OpInv, InUser
<1>10. UserDesc'
  BY OwnSpace, <1>1, <1>3, <1>4, DescSame, Zenon DEF MmInv, DescInv, UserDesc
<1>11. FreshDesc'
  BY <1>1, <1>3, <1>4, Zenon DEF MmInv, DescInv, FreshDesc, Fresh
<1>12. MapDesc'
  BY <1>1, <1>4, <1>3, FreshDescribed DEF MmInv, MmType, DescInv, FreshDesc, Fresh, MapDesc
<1>13. CloneDesc'
  BY <1>3, Zenon DEF CloneDesc, Cloning
<1> QED BY <1>6, <1>7, <1>8, <1>9, <1>10, <1>11, <1>12, <1>13, ZenonT(30) DEF MmInv, DescInv

\* No operation builds or loads the space of a process in user mode.
LEMMA UserApart ==
  ASSUME MmInv, NEW q \in Proc, status[q] = "user"
  PROVE  op.m # addr_space[q] /\ addr_space[q] \in Space /\ addr_space[q] \in mm_used
  BY OwnSpace DEF MmInv, MmType, OpInv, Idle, Building

\* So its description survives every step that leaves its pages, its list and
\* the vmas in use alone.
LEMMA UserKept ==
  ASSUME MmInv, NEW q \in Proc, status[q] = "user", NEW n \in Space, n = addr_space[q],
         vma_head'[n] = vma_head[n], pte'[n] = pte[n],
         \A a \in vma_used : region'[a] = region[a],
         op'.m = n => op'.vma = NULL
  PROVE  Described(n)'
  BY UserApart, DescSame, Zenon DEF MmInv, DescInv, UserDesc, VmasInv, Range

\* mm_create fails: nothing is left of it.
LEMMA CreateFailsInv ==
  ASSUME MmInv, op.why \in {"boot", "fork", "exec"}, op.m = NULL, CreateFails,
         UNCHANGED <<kernel, tableVars, vma_head, region, procVars>>
  PROVE  MmInv'
<1>1. op' = Idle /\ op'.why = "idle" /\ op'.m = NULL /\ op'.vma = NULL
  BY ZenonT(30) DEF CreateFails, Idle
<1>2. /\ UNCHANGED <<free, kernel, mm_used, cr3_phys, vma_used>>
      /\ UNCHANGED <<pde, pte, page_count, vma_head, region>>
      /\ UNCHANGED <<status, addr_space, current>>
  BY Zenon DEF CreateFails, poolVars, tableVars, procVars
<1>3. MmType'
  <2>1. op' \in [why : {"idle", "boot", "fork", "exec", "load"}, p : Proc \cup {NULL},
                 m : Space \cup {NULL}, r : Nat, vma : Vma \cup {NULL}, v : Int]
    BY <1>1 DEF Idle
  <2> QED BY <2>1, <1>2, ZenonT(30) DEF MmInv, MmType
<1>4. FramesInv'
  BY <1>2, FramesSame, ZenonT(30) DEF MmInv
<1>5. SpacesInv'
  BY <1>2, SpacesSame, ZenonT(30) DEF MmInv
<1>6. VmasInv'
  BY <1>1, <1>2, VmasSame, NoVma, Zenon DEF MmInv, Mapping
<1>7. OwnersInv'
  BY <1>1, <1>2, Zenon DEF MmInv, OwnersInv, Building
<1>8. OpInv'
  BY <1>1, Zenon DEF OpInv
<1>9. UserDesc'
  BY UserApart, <1>1, <1>2, UserKept, Zenon DEF UserDesc
<1>10. FreshDesc'
  BY <1>1, <1>2, Zenon DEF MmInv, DescInv, FreshDesc, Fresh
<1>11. MapDesc' /\ CloneDesc'
  BY <1>1, Zenon DEF MapDesc, CloneDesc, Cloning
<1> QED BY <1>3, <1>4, <1>5, <1>6, <1>7, <1>8, <1>9, <1>10, <1>11, ZenonT(30) DEF MmInv, DescInv

\* A frame that is not the kernel's leaves the free ones for an empty place.
LEMMA TakeInv ==
  ASSUME MmType, FramesInv, kernel' = kernel, NEW f \in free, free' = free \ {f},
         NEW x \in Place, held[x] = NULL,
         \A y \in Place : held'[y] = IF y = x THEN f ELSE held[y]
  PROVE  FramesInv' /\ free' \in SUBSET Frame
<1>1. f \in Frame /\ f \notin kernel /\ f \in free \cup kernel
  BY Zenon DEF MmType, FramesInv
<1> DEFINE S == free \cup kernel
<1>2. Owned(held, S) /\ f \in S
  BY Zenon DEF FramesInv
<1> HIDE DEF S
<1>3. Owned(held', S \ {f})
  BY <1>1, <1>2, TakeFrame, ZenonT(30)
<1> QED BY <1>3, <1>1 DEF FramesInv, MmType, S, Owned

\* The directory of a new space.
LEMMA TakeDirectory ==
  ASSUME MmType, FramesInv, kernel' = kernel, NEW f \in free, free' = free \ {f},
         NEW m \in Space, cr3_phys[m] = NULL,
         cr3_phys' = [cr3_phys EXCEPT ![m] = f], UNCHANGED <<pde, pte>>
  PROVE  FramesInv' /\ free' \in SUBSET Frame
<1> DEFINE x == <<0, m, 0>>
<1>1. cr3_phys \in [Space -> Frame \cup {NULL}]
  BY Zenon DEF MmType
<1>2. x \in Place /\ held[x] = NULL
  BY HeldAt, Zenon
<1>3. ASSUME NEW y \in Place PROVE held'[y] = IF y = x THEN f ELSE held[y]
  BY HeldAt, <1>1 DEF held
<1> HIDE DEF x
<1> QED BY <1>2, <1>3, TakeInv, Zenon

\* A table entered in the directory.
LEMMA TakeTable ==
  ASSUME MmType, FramesInv, kernel' = kernel, NEW f \in free, free' = free \ {f},
         NEW m \in Space, NEW d \in Dir, pde[m][d] = NULL,
         pde' = [pde EXCEPT ![m][d] = f], UNCHANGED <<cr3_phys, pte>>
  PROVE  FramesInv' /\ free' \in SUBSET Frame /\ pde' \in [Space -> [Dir -> Frame \cup {NULL}]]
<1> DEFINE x == <<1, m, d>>
<1>1. pde \in [Space -> [Dir -> Frame \cup {NULL}]] /\ f \in Frame
  BY Zenon DEF MmType
<1>2. x \in Place /\ held[x] = NULL
  BY HeldAt, Zenon
<1>3. ASSUME NEW y \in Place PROVE held'[y] = IF y = x THEN f ELSE held[y]
  BY HeldAt, <1>1 DEF held
<1> HIDE DEF x
<1> QED BY <1>1, <1>2, <1>3, TakeInv, Zenon

\* A page entered in its table.
LEMMA TakePage ==
  ASSUME MmType, FramesInv, kernel' = kernel, NEW f \in free, free' = free \ {f},
         NEW m \in Space, NEW w \in VPage, pte[m][w] = NULL,
         pte' = [pte EXCEPT ![m][w] = f], UNCHANGED <<cr3_phys, pde>>
  PROVE  FramesInv' /\ free' \in SUBSET Frame /\ pte' \in [Space -> [VPage -> Frame \cup {NULL}]]
<1> DEFINE x == <<2, m, w>>
<1>1. pte \in [Space -> [VPage -> Frame \cup {NULL}]] /\ f \in Frame
  BY Zenon DEF MmType
<1>2. x \in Place /\ held[x] = NULL
  BY HeldAt, Zenon
<1>3. ASSUME NEW y \in Place PROVE held'[y] = IF y = x THEN f ELSE held[y]
  BY HeldAt, <1>1 DEF held
<1> HIDE DEF x
<1> QED BY <1>1, <1>2, <1>3, TakeInv, Zenon

\* mm_create: a frame for the directory, and a slot.
LEMMA CreateInv ==
  ASSUME Known, MmInv, mm_create, kernel' = kernel
  PROVE  MmInv'
<1> USE DEF MmInv
<1>1. CASE ~CreateFails
  <2>1. PICK m \in Space : m = Min(Space \ mm_used) /\ m \notin mm_used
    BY <1>1, Pools, Zenon DEF mm_create
  <2>2. PICK f \in free : f = Min(free)
    BY <1>1, Pools, Zenon DEF mm_create
  <2>3. /\ op.why \in {"boot", "fork", "exec"} /\ op.m = NULL
        /\ free' = free \ {f} /\ mm_used' = mm_used \cup {m}
        /\ cr3_phys' = [cr3_phys EXCEPT ![m] = f]
        /\ op' = [op EXCEPT !.m = m]
    BY <1>1, <2>1, <2>2, Zenon DEF mm_create
  <2>4. /\ UNCHANGED <<vma_used, pde, pte, page_count, vma_head, region>>
        /\ UNCHANGED <<status, addr_space, current>>
    BY <1>1, Zenon DEF mm_create, tableVars, procVars
  <2>5. op.vma = NULL
    BY <2>3, NoVma, Zenon DEF Mapping
  <2>6. /\ op'.why = op.why /\ op'.p = op.p /\ op'.m = m /\ op'.r = op.r /\ op'.vma = NULL
        /\ op'.v = op.v
        /\ op' \in [why : {"idle", "boot", "fork", "exec", "load"}, p : Proc \cup {NULL},
                    m : Space \cup {NULL}, r : Nat, vma : Vma \cup {NULL}, v : Int]
    BY <2>3, <2>5, Zenon DEF MmType
  <2>7. m # NULL /\ m \in Space
    BY Numbers, Zenon
  <2>8. /\ cr3_phys[m] = NULL /\ pde[m] = Blank /\ pte[m] = Empty
        /\ vma_head[m] = <<>>
    BY <2>1, Zenon DEF SpacesInv
  <2>9. FramesInv' /\ free' \in SUBSET Frame
    BY <2>3, <2>4, <2>8, TakeDirectory, Zenon
  <2>10. MmType'
    BY <2>3, <2>4, Zenon DEF MmType
  <2>11. SpacesInv'
    <3>1. ASSUME NEW n \in Space
          PROVE  /\ n \notin mm_used' => /\ cr3_phys'[n] = NULL /\ pde'[n] = Blank
                                         /\ pte'[n] = Empty /\ vma_head'[n] = <<>>
                 /\ \A v \in VPage : pte'[n][v] # NULL => pde'[n][Pdi(v)] # NULL
                 /\ page_count'[n] = Cardinality(Mapped(n)')
      <4>1. n \notin mm_used' => cr3_phys'[n] = cr3_phys[n] /\ n \notin mm_used
        BY <2>3
      <4> QED BY <4>1, <2>4, Zenon DEF SpacesInv, Mapped
    <3> QED BY <3>1, Zenon DEF SpacesInv
  <2>12. OwnersInv'
    <3>1. \A p \in Proc : addr_space[p] # m
      BY <2>1, <2>7, Zenon DEF OwnersInv
    <3> QED BY <3>1, <2>3, <2>4, <2>7 DEF OwnersInv, Building
  <2>13. VmasInv'
    BY <2>4, <2>5, <2>6, VmasSame, Zenon
  <2>14. OpInv'
    BY <2>3, <2>4, <2>6, Zenon DEF OpInv, InUser
  <2>15. UserDesc'
    BY UserApart, <2>4, <2>6, UserKept, Zenon DEF UserDesc
  <2>16. Fresh(m)'
    BY <2>4, <2>8, Zenon DEF Fresh
  <2>17. FreshDesc'
    BY <2>4, <2>6, <2>16, Zenon DEF DescInv, FreshDesc, Fresh
  <2>18. MapDesc'
    BY <2>4, <2>6, <2>8, <2>16, FreshDescribed DEF MapDesc
  <2>19. CloneDesc'
    BY <2>4, <2>6, <2>8 DEF OpInv, Mapped, Empty, CloneDesc
  <2> QED BY <2>9, <2>10, <2>11, <2>12, <2>13, <2>14, <2>15, <2>17, <2>18, <2>19, ZenonT(30) DEF DescInv
<1> QED BY <1>1, CreateFailsInv, Zenon DEF mm_create

\* A space that is complete goes to the new process it was built for.
LEMMA SettleInv ==
  ASSUME MmInv, op.why \in {"boot", "fork"}, op.m # NULL, NEW s \in {"new", "user"},
         status' = [status EXCEPT ![op.p] = s],
         addr_space' = [addr_space EXCEPT ![op.p] = op.m], op' = Idle,
         s = "new" => op.why = "boot",
         s = "user" => Described(op.m),
         UNCHANGED <<free, kernel, mm_used, cr3_phys, vma_used>>,
         UNCHANGED <<pde, pte, page_count, vma_head, region, current>>
  PROVE  MmInv'
<1> USE DEF MmInv
<1>1. op'.why = "idle" /\ op'.m = NULL /\ op'.vma = NULL
  BY ZenonT(30) DEF Idle
<1>2. op.vma = NULL
  BY NoVma, Zenon DEF Mapping
<1>3. PICK p \in Proc : p = op.p
  BY Zenon DEF OpInv
<1>4. PICK m \in Space : m = op.m
  BY Zenon DEF MmType
<1>5. /\ status'[p] = s /\ addr_space'[p] = m
      /\ \A q \in Proc : q # p => status'[q] = status[q] /\ addr_space'[q] = addr_space[q]
  BY <1>3, <1>4, ZenonT(30) DEF MmType
<1>6. Building /\ m \in mm_used /\ \A q \in Proc : addr_space[q] # m
  BY <1>4, Zenon DEF Building, OwnersInv
<1>7. MmType'
  <2>1. op' \in [why : {"idle", "boot", "fork", "exec", "load"}, p : Proc \cup {NULL},
                 m : Space \cup {NULL}, r : Nat, vma : Vma \cup {NULL}, v : Int]
    BY DEF Idle
  <2> QED BY <2>1, Zenon DEF MmType
<1>8. FramesInv'
  BY FramesSame, ZenonT(30)
<1>9. SpacesInv'
  BY SpacesSame, ZenonT(30)
<1>10. VmasInv'
  BY <1>1, <1>2, VmasSame, ZenonT(30)
<1>11. OwnersInv'
  <2>1. \A q, k \in Proc : addr_space'[q] = addr_space'[k] /\ addr_space'[q] # NULL => q = k
    BY <1>6 DEF OwnersInv
  <2>2. \A q \in Proc : addr_space'[q] # NULL => addr_space'[q] \in mm_used'
    BY <1>5, <1>6 DEF OwnersInv
  <2>3. ASSUME NEW n \in mm_used PROVE \E q \in Proc : addr_space'[q] = n
    BY <1>5, Numbers DEF OwnersInv, MmType, OpInv
  <2> QED BY <2>1, <2>2, <2>3, <1>1, <1>4, <1>5 DEF OwnersInv, Building
<1>12. OpInv'
  BY <1>1, Zenon DEF OpInv
<1>13. UserDesc'
  BY <1>4, <1>5, <1>1, <1>2, DescSame, UserApart, UserKept DEF UserDesc
<1>14. FreshDesc'
  BY <1>1, <1>4, <1>5 DEF DescInv, FreshDesc, Fresh
<1>15. MapDesc' /\ CloneDesc'
  BY <1>1, Zenon DEF MapDesc, CloneDesc, Cloning
<1> QED BY <1>7, <1>8, <1>9, <1>10, <1>11, <1>12, <1>13, <1>14, <1>15, ZenonT(30) DEF DescInv

\* The current process gives up or completes loading, or exits.
LEMMA EndInv ==
  ASSUME MmInv, op.why \in {"idle", "load"}, current \in Proc, status[current] # "free",
         NEW s \in {"user", "dead"}, s = "user" => op.why = "load" /\ op.vma = NULL,
         status' = [status EXCEPT ![current] = s], vma_used' = vma_used \ {op.vma}, op' = Idle,
         UNCHANGED <<free, kernel, mm_used, cr3_phys, addr_space>>,
         UNCHANGED <<pde, pte, page_count, vma_head, region, current>>
  PROVE  MmInv'
<1> USE DEF MmInv
<1>1. op'.why = "idle" /\ op'.m = NULL /\ op'.vma = NULL
  BY ZenonT(30) DEF Idle
<1>2. PICK p \in Proc : p = current
  BY Zenon
<1>3. status'[p] = s /\ \A q \in Proc : q # p => status'[q] = status[q]
  BY <1>2, Zenon DEF MmType
<1>4. MmType'
  <2>1. op' \in [why : {"idle", "boot", "fork", "exec", "load"}, p : Proc \cup {NULL},
                 m : Space \cup {NULL}, r : Nat, vma : Vma \cup {NULL}, v : Int]
    BY DEF Idle
  <2> QED BY <2>1, Zenon DEF MmType
<1>5. FramesInv'
  BY FramesSame, ZenonT(30)
<1>6. SpacesInv'
  BY SpacesSame, ZenonT(30)
<1>7. VmasInv'
  <2>1. ASSUME NEW n \in Space, NEW a \in Range(vma_head[n]) PROVE a \in vma_used \ {op.vma}
    <3>1. a \in vma_used /\ a \in Vma
      BY Zenon DEF VmasInv, MmType
    <3> QED BY <3>1, Numbers DEF VmasInv
  <2> QED BY <2>1, <1>1, Zenon DEF VmasInv
<1>8. OwnersInv'
  BY <1>1 DEF Building, OwnersInv
<1>9. OpInv'
  BY <1>1, Zenon DEF OpInv
<1>10. UserDesc'
  <2>1. ASSUME NEW q \in Proc, status'[q] = "user" PROVE Described(addr_space[q])'
    <3>1. CASE q = p
      <4>1. op.why = "load" /\ op.vma = NULL
        BY <2>1, <3>1, <1>3, Zenon
      <4>2. PICK n \in Space : n = op.m /\ n = addr_space[q]
        BY <4>1, <3>1, <1>2, OwnSpace, Zenon DEF OpInv
      <4> QED BY <4>2, <4>1, <1>1, DescSame, Numbers, Zenon DEF DescInv, MapDesc
    <3> QED BY <3>1, <2>1, <1>3, UserApart, <1>1, UserKept, Zenon
  <2> QED BY <2>1, Zenon DEF UserDesc
<1>11. FreshDesc'
  BY <1>3, <1>2, <1>1, Zenon DEF DescInv, FreshDesc, Fresh
<1>12. MapDesc' /\ CloneDesc'
  BY <1>1, Zenon DEF MapDesc, CloneDesc, Cloning
<1> QED BY <1>4, <1>5, <1>6, <1>7, <1>8, <1>9, <1>10, <1>11, <1>12, ZenonT(30) DEF DescInv

\* Another process runs.
LEMMA SwitchInv ==
  ASSUME MmInv, NEW p \in Proc, Switch(p), kernel' = kernel
  PROVE  MmInv'
<1> USE DEF MmInv
<1>1. op = Idle /\ op' = op /\ op.why = "idle" /\ op.m = NULL /\ op.vma = NULL
  BY ZenonT(30) DEF Switch, Idle
<1>2. /\ UNCHANGED <<free, mm_used, cr3_phys, vma_used, status, addr_space>>
      /\ UNCHANGED <<pde, pte, page_count, vma_head, region>> /\ current' = p
  BY Zenon DEF Switch, poolVars, tableVars
<1>3. MmType'
  BY <1>2, <1>1, Zenon DEF MmType
<1>4. FramesInv'
  BY <1>2, FramesSame, ZenonT(30)
<1>5. SpacesInv'
  BY <1>2, SpacesSame, ZenonT(30)
<1>6. VmasInv'
  BY <1>1, <1>2, VmasSame, ZenonT(30)
<1>7. OwnersInv'
  BY <1>1, <1>2, Zenon DEF OwnersInv, Building
<1>8. OpInv'
  BY <1>1, Zenon DEF OpInv
<1>9. UserDesc'
  BY UserApart, <1>1, <1>2, UserKept, Zenon DEF UserDesc
<1>10. FreshDesc'
  BY <1>1, <1>2, ZenonT(30) DEF DescInv, FreshDesc, Fresh
<1>11. MapDesc' /\ CloneDesc'
  BY <1>1, Zenon DEF MapDesc, CloneDesc, Cloning
<1> QED BY <1>3, <1>4, <1>5, <1>6, <1>7, <1>8, <1>9, <1>10, <1>11, ZenonT(30) DEF DescInv

\* A space is destroyed: the one under construction, the one execve replaces or
\* the one of a process that is reaped.  No process has it afterwards.
LEMMA DestroyInv ==
  ASSUME Known, MmInv, NEW m \in Space, mm_destroy(m, op.vma), op' = Idle,
         UNCHANGED <<kernel, region, current>>,
         MmType', OwnersInv',
         \A q \in Proc : addr_space'[q] # m,
         \A q \in Proc : status'[q] = "new" =>
           status[q] = "new" /\ addr_space'[q] = addr_space[q] /\ op.why # "load",
         \A q \in Proc : status'[q] = "user" =>
           \/ status[q] = "user" /\ addr_space'[q] = addr_space[q]
           \/ op.why = "exec" /\ op.vma = NULL /\ op.m # NULL /\ addr_space'[q] = op.m
  PROVE  MmInv'
<1> USE DEF MmInv
<1>1. op'.why = "idle" /\ op'.m = NULL /\ op'.vma = NULL
  BY ZenonT(30) DEF Idle
<1>2. /\ SpacesInv'
      /\ \A n \in Space : n # m => pte'[n] = pte[n] /\ vma_head'[n] = vma_head[n]
  BY DestroySpaces, ZenonT(30)
<1>3. UserDesc'
  <2>1. ASSUME NEW q \in Proc, status'[q] = "user" PROVE Described(addr_space[q])'
    <3>1. CASE status[q] = "user" /\ addr_space'[q] = addr_space[q]
      <4>1. PICK n \in Space : n = addr_space[q]
        BY <3>1, UserApart, Zenon
      <4> QED BY <4>1, <3>1, <1>1, <1>2, UserKept, Zenon
    <3>2. CASE op.why = "exec" /\ op.vma = NULL /\ op.m # NULL /\ addr_space'[q] = op.m
      <4>1. PICK n \in Space : n = op.m
        BY <3>2, Zenon DEF MmType
      <4> QED BY <4>1, <3>2, <1>1, <1>2, DescSame, Zenon DEF DescInv, MapDesc
    <3> QED BY <2>1, <3>1, <3>2, Zenon
  <2> QED BY <2>1, Zenon DEF UserDesc
<1>4. MapDesc' /\ CloneDesc'
  BY <1>1, Zenon DEF MapDesc, CloneDesc, Cloning
<1> QED
  BY <1>2, <1>3, <1>4, DestroyFrames, <1>1, DestroyVmas, OwnSpace
     DEF DescInv, OpInv, FreshDesc, Fresh

\* mm_destroy keeps the types.
LEMMA DestroyTypes ==
  ASSUME Known, MmInv, NEW m \in Space, NEW extra, mm_destroy(m, extra), op' = Idle,
         UNCHANGED <<kernel, region, current>>,
         status' \in [Proc -> {"free", "new", "user", "dead"}],
         addr_space' \in [Proc -> Space \cup {NULL}]
  PROVE  MmType'
<1>1. op' \in [why : {"idle", "boot", "fork", "exec", "load"}, p : Proc \cup {NULL},
               m : Space \cup {NULL}, r : Nat, vma : Vma \cup {NULL}, v : Int]
  BY DEF Idle
<1> QED BY <1>1, DestroyFrames, DestroySpaces, Zenon DEF MmInv, MmType

\* fork or execve fails and destroys what it has built.
LEMMA FailInv ==
  ASSUME Known, MmInv, op.why \in {"fork", "exec"}, op.m # NULL, mm_destroy(op.m, op.vma), op' = Idle,
         UNCHANGED <<kernel, region, current, status, addr_space>>
  PROVE  MmInv'
<1> USE DEF MmInv
<1>1. PICK m \in Space : m = op.m
  BY Zenon DEF MmType
<1>2. mm_destroy(m, op.vma)
  BY <1>1, Zenon
<1>3. \A q \in Proc : addr_space[q] # m
  BY <1>1, Zenon DEF OwnersInv, Building
<1>4. MmType'
  BY DestroyTypes, Zenon DEF MmType
<1>5. OwnersInv'
  BY Zenon DEF mm_destroy, Idle, OwnersInv, Building
<1> QED BY <1>2, <1>3, <1>4, <1>5, DestroyInv, Zenon

\* execve commits.
LEMMA ExecDoneInv ==
  ASSUME Known, MmInv, ExecDone, kernel' = kernel
  PROVE  MmInv'
<1> USE DEF MmInv
<1>1. /\ op.why = "exec" /\ op.m # NULL /\ op.r > Len(LAYOUT)
      /\ addr_space' = [addr_space EXCEPT ![op.p] = op.m]
      /\ mm_destroy(Old, NULL) /\ op' = Idle /\ UNCHANGED <<region, status, current>>
  BY Zenon DEF ExecDone
<1>2. op.vma = NULL
  BY <1>1, NoVma DEF Mapping, MmType
<1>3. PICK p \in Proc : p = current /\ p = op.p /\ status[p] = "user"
  BY <1>1, Zenon DEF OpInv, InUser
<1>4. PICK m \in Space : m = Old /\ m = addr_space[p]
  BY <1>3, UserApart, Zenon DEF Old
<1>5. PICK n \in Space : n = op.m /\ n \in mm_used
  BY <1>1, Zenon DEF MmType, OwnersInv, Building
<1>6. Building /\ n # m /\ \A q \in Proc : addr_space[q] # n
  BY <1>1, <1>4, <1>5, Zenon DEF OwnersInv, Building
<1>7. addr_space'[p] = n /\ \A q \in Proc : q # p => addr_space'[q] = addr_space[q]
  BY <1>1, <1>3, <1>5, Zenon DEF MmType
<1>8. mm_destroy(m, op.vma)
  BY <1>1, <1>2, <1>4, Zenon
<1>9. \A q \in Proc : q # p => addr_space[q] # m
  BY <1>4, Numbers DEF OwnersInv
<1>10. MmType'
  BY <1>1, <1>8, DestroyTypes, Zenon DEF MmType
<1>11. OwnersInv'
  <2>1. mm_used' = mm_used \ {m} /\ op'.why = "idle"
    BY <1>1, <1>8, Zenon DEF mm_destroy, Idle
  <2>2. \A q \in Proc : addr_space'[q] = NULL <=> status'[q] = "free"
    BY <1>1, <1>3 DEF OwnersInv
  <2>3. \A q \in Proc : addr_space'[q] # NULL => addr_space'[q] \in mm_used'
    BY <1>5, <1>6, <1>7, <1>9, <2>1, Zenon DEF OwnersInv
  <2>4. ASSUME NEW k \in mm_used' PROVE \E q \in Proc : addr_space'[q] = k
    BY <2>1, <1>4, <1>5, <1>7 DEF OwnersInv
  <2> QED BY <2>1, <2>2, <2>3, <2>4, <1>6, <1>7 DEF OwnersInv, Building
<1>12. \A q \in Proc : addr_space'[q] # m
  BY <1>6, <1>7, <1>9, Zenon
<1>13. \A q \in Proc : status'[q] = "new" =>
         status[q] = "new" /\ addr_space'[q] = addr_space[q] /\ op.why # "load"
  BY <1>1, <1>3, <1>7, Zenon
<1>14. \A q \in Proc : status'[q] = "user" =>
         \/ status[q] = "user" /\ addr_space'[q] = addr_space[q]
         \/ op.why = "exec" /\ op.vma = NULL /\ op.m # NULL /\ addr_space'[q] = op.m
  BY <1>1, <1>2
<1> QED BY <1>1, <1>8, <1>10, <1>11, <1>12, <1>13, <1>14, DestroyInv, ZenonT(30)

\* An exited child is reaped.
LEMMA ProcFreeInv ==
  ASSUME Known, MmInv, NEW c \in Proc, proc_free(c), kernel' = kernel
  PROVE  MmInv'
<1> USE DEF MmInv
<1>1. /\ op = Idle /\ status[c] = "dead" /\ mm_destroy(addr_space[c], NULL)
      /\ status' = [status EXCEPT ![c] = "free"]
      /\ addr_space' = [addr_space EXCEPT ![c] = NULL]
      /\ UNCHANGED <<region, current, op>>
  BY Zenon DEF proc_free
<1>2. op.vma = NULL /\ op.why = "idle" /\ op.m = NULL /\ op' = Idle
  BY <1>1, ZenonT(30) DEF Idle
<1>3. PICK m \in Space : m = addr_space[c]
  BY <1>1, OwnSpace, Zenon
<1>4. \A q \in Proc : q # c => addr_space[q] # m
  BY <1>3, Numbers, Zenon DEF OwnersInv
<1>5. /\ addr_space'[c] = NULL /\ status'[c] = "free"
      /\ \A q \in Proc : q # c => addr_space'[q] = addr_space[q] /\ status'[q] = status[q]
  BY <1>1, Zenon DEF MmType
<1>6. mm_destroy(m, op.vma)
  BY <1>1, <1>2, <1>3, Zenon
<1>7. MmType'
  BY <1>1, <1>6, DestroyTypes, Zenon DEF MmType
<1>8. OwnersInv'
  BY <1>2, <1>6, <1>3, <1>5 DEF mm_destroy, Idle, OwnersInv, Building
<1>9. \A q \in Proc : addr_space'[q] # m
  BY <1>4, <1>5, Numbers, Zenon
<1>10. \A q \in Proc : status'[q] = "new" =>
         status[q] = "new" /\ addr_space'[q] = addr_space[q] /\ op.why # "load"
  BY <1>2, <1>5, Zenon
<1>11. \A q \in Proc : status'[q] = "user" => status[q] = "user" /\ addr_space'[q] = addr_space[q]
  BY <1>5, Zenon
<1> QED BY <1>1, <1>6, <1>7, <1>8, <1>9, <1>10, <1>11, DestroyInv, ZenonT(30)

\* A step of fork, execve or the loader that changes only the space it works on
\* leaves every other process its space as it was.
LEMMA WorkInv ==
  ASSUME MmInv, op.why \in {"fork", "exec", "load"}, NEW m \in Space, m = op.m,
         op'.why = op.why, op'.m = op.m,
         \A n \in Space : n # m => pte'[n] = pte[n] /\ vma_head'[n] = vma_head[n],
         \A a \in vma_used : region'[a] = region[a],
         UNCHANGED <<mm_used, status, addr_space, current>>
  PROVE  OwnersInv' /\ UserDesc' /\ FreshDesc'
<1>1. OwnersInv'
  BY ZenonT(30) DEF MmInv, OwnersInv, Building
<1>2. UserDesc'
  <2>1. ASSUME NEW q \in Proc, status[q] = "user" PROVE Described(addr_space[q])'
    <3>1. PICK n \in Space : n = addr_space[q] /\ n # m
      BY <2>1, UserApart, ZenonT(30)
    <3> QED BY <3>1, <2>1, UserKept, Zenon
  <2> QED BY <2>1, Zenon DEF UserDesc
<1>3. FreshDesc'
  <2>1. ASSUME NEW q \in Proc, status[q] = "new", ~(op.why = "load" /\ q = current)
        PROVE  Fresh(addr_space[q])'
    <3>1. /\ addr_space[q] \in Space
          /\ \A p \in Proc : addr_space[p] = addr_space[q] => p = q
          /\ Building => op.m # addr_space[q]
      BY <2>1, OwnSpace, Zenon DEF MmInv
    <3>2. op.m # addr_space[q]
      <4>1. CASE op.why # "load"
        BY <4>1, <3>1, Numbers, Zenon DEF Building
      <4> QED BY <4>1, <2>1, <3>1, Zenon DEF MmInv, OpInv
    <3>3. PICK n \in Space : n = addr_space[q] /\ n # m
      BY <3>1, <3>2, Zenon
    <3> QED BY <3>3, <2>1, Zenon DEF Fresh, MmInv, DescInv, FreshDesc
  <2> QED BY <2>1, Zenon DEF FreshDesc
<1> QED BY <1>1, <1>2, <1>3, Zenon

\* A page more: the count follows.
LEMMA PageMore ==
  ASSUME Known, MmType, SpacesInv, NEW m \in Space, NEW w \in VPage, NEW f \in Frame, pte[m][w] = NULL,
         pte' = [pte EXCEPT ![m][w] = f],
         page_count' = [page_count EXCEPT ![m] = @ + 1]
  PROVE  /\ Mapped(m)' = Mapped(m) \cup {w} /\ w \notin Mapped(m)
         /\ page_count'[m] = Cardinality(Mapped(m)')
         /\ page_count' \in [Space -> Nat]
         /\ \A n \in Space : n # m => pte'[n] = pte[n] /\ page_count'[n] = page_count[n]
<1>1. pte \in [Space -> [VPage -> Frame \cup {NULL}]] /\ page_count \in [Space -> Nat]
  BY Zenon DEF MmType
<1>2. Mapped(m)' = Mapped(m) \cup {w} /\ w \notin Mapped(m)
  BY Numbers, <1>1 DEF Mapped
<1>3. Cardinality(Mapped(m) \cup {w}) = Cardinality(Mapped(m)) + 1
  BY Zenon DEF Known, Counting, Mapped
<1> QED BY <1>2, <1>1, <1>3 DEF SpacesInv

\* What fork knows of the two spaces it works on.
LEMMA ForkSpaces ==
  ASSUME MmInv, Cloning
  PROVE  /\ op.m \in Space /\ Old \in Space /\ op.m # Old /\ op.vma = NULL
         /\ current \in Proc /\ status[current] = "user"
         /\ op.m \in mm_used /\ Described(Old)
<1>1. current \in Proc /\ status[current] = "user"
  BY Zenon DEF MmInv, MmType, OpInv, InUser, Cloning
<1>2. op.m \in Space /\ op.m \in mm_used
  BY Zenon DEF MmInv, MmType, OwnersInv, Building, Cloning
<1>3. Described(Old)
  BY <1>1, Zenon DEF MmInv, DescInv, UserDesc, Old
<1> QED BY <1>1, <1>2, <1>3, UserApart, NoVma, Zenon DEF Old, MmInv, Mapping, Cloning

\* A table is copied.
LEMMA CloneTableInv ==
  ASSUME Known, MmInv, CloneTable, free # {}, kernel' = kernel
  PROVE  MmInv'
<1> USE DEF MmInv
<1>1. Cloning /\ TablesLeft # {}
  BY Zenon DEF CloneTable
<1>2. PICK m \in Space : m = op.m /\ m \in mm_used /\ m # Old
  BY <1>1, ForkSpaces, Zenon
<1>3. PICK f \in free : f = Min(free)
  BY Pools, Zenon
<1>4. PICK d \in Dir : d = Min(TablesLeft) /\ pde[m][d] = NULL
  BY Numbers, <1>1, MinLemma, <1>2, Zenon DEF TablesLeft, Known
<1>5. /\ free' = free \ {f} /\ pde' = [pde EXCEPT ![m][d] = f]
      /\ UNCHANGED <<pte, page_count, mm_used, cr3_phys, vma_used, vma_head, region>>
      /\ UNCHANGED <<status, addr_space, current, op>>
  BY <1>2, <1>3, <1>4, Zenon DEF CloneTable, poolVars, procVars
<1>6. FramesInv' /\ free' \in SUBSET Frame /\ pde' \in [Space -> [Dir -> Frame \cup {NULL}]]
  BY <1>4, <1>5, TakeTable, ZenonT(30)
<1>7. MmType'
  BY <1>5, ZenonT(30) DEF MmType
<1>8. SpacesInv'
  <2>1. ASSUME NEW n \in Space
        PROVE  /\ n \notin mm_used => pde'[n] = pde[n]
               /\ \A e \in Dir : pde[n][e] # NULL => pde'[n][e] # NULL
    <3>1. f # NULL /\ pde \in [Space -> [Dir -> Frame \cup {NULL}]]
      BY Numbers, ZenonT(30) DEF MmType
    <3> QED BY <3>1, <1>2, <1>5, Zenon
  <2>2. \A n \in Space : Mapped(n)' = Mapped(n)
    BY <1>5, Zenon DEF Mapped
  <2> QED BY <2>1, <2>2, <1>5 DEF SpacesInv
<1>9. OwnersInv' /\ UserDesc' /\ FreshDesc'
  BY <1>1, <1>2, <1>5, WorkInv, Zenon DEF Cloning
<1>10. VmasInv'
  BY <1>5, VmasSame, Zenon
<1>11. OpInv'
  BY <1>5, Zenon DEF OpInv, InUser, Mapping
<1>12. MapDesc'
  BY <1>1, <1>5, Zenon DEF MapDesc, Cloning
<1>13. CloneDesc'
  BY <1>5, Zenon DEF Old, DescInv, CloneDesc, Mapped, Cloning
<1> QED BY <1>6, <1>7, <1>8, <1>9, <1>10, <1>11, <1>12, <1>13, Zenon DEF DescInv

\* A page is copied.
LEMMA ClonePageInv ==
  ASSUME Known, MmInv, ClonePage, free # {}, kernel' = kernel
  PROVE  MmInv'
<1> USE DEF MmInv
<1>1. Cloning /\ PagesLeft # {}
  BY Zenon DEF ClonePage
<1>2. PICK m \in Space : m = op.m /\ m \in mm_used /\ m # Old
  BY <1>1, ForkSpaces, Zenon
<1>3. PICK f \in free : f = Min(free) /\ f \in Frame
  BY Pools, Zenon
<1>4. PICK w \in VPage : /\ w = Min(PagesLeft) /\ pte[m][w] = NULL /\ pte[Old][w] # NULL
                         /\ pde[m][Pdi(w)] # NULL
  BY Numbers, <1>1, MinLemma, <1>2, Zenon DEF PagesLeft, Known
<1>5. /\ free' = free \ {f} /\ pte' = [pte EXCEPT ![m][w] = f]
      /\ page_count' = [page_count EXCEPT ![m] = @ + 1]
      /\ UNCHANGED <<pde, mm_used, cr3_phys, vma_used, vma_head, region>>
      /\ UNCHANGED <<status, addr_space, current, op>>
  BY <1>2, <1>3, <1>4, Zenon DEF ClonePage, poolVars, procVars
<1>6. FramesInv' /\ free' \in SUBSET Frame /\ pte' \in [Space -> [VPage -> Frame \cup {NULL}]]
  BY <1>4, <1>5, TakePage, ZenonT(30)
<1>7. /\ Mapped(m)' = Mapped(m) \cup {w}
      /\ page_count'[m] = Cardinality(Mapped(m)') /\ page_count' \in [Space -> Nat]
      /\ \A n \in Space : n # m => pte'[n] = pte[n] /\ page_count'[n] = page_count[n]
  BY <1>3, <1>4, <1>5, PageMore, ZenonT(30)
<1>8. MmType'
  BY <1>5, <1>7, ZenonT(30) DEF MmType
<1>9. SpacesInv'
  <2>1. ASSUME NEW n \in Space
        PROVE  /\ n \notin mm_used' => /\ cr3_phys'[n] = NULL /\ pde'[n] = Blank
                                       /\ pte'[n] = Empty /\ vma_head'[n] = <<>>
               /\ \A v \in VPage : pte'[n][v] # NULL => pde'[n][Pdi(v)] # NULL
               /\ page_count'[n] = Cardinality(Mapped(n)')
    <3>1. CASE n = m
      <4>1. m \in mm_used' /\ page_count'[m] = Cardinality(Mapped(m)') /\ pde' = pde
        BY <1>2, <1>5, <1>7, Zenon
      <4>2. ASSUME NEW v \in VPage, pte'[m][v] # NULL PROVE pde[m][Pdi(v)] # NULL
        <5>1. CASE v = w
          BY <5>1, <1>4, Zenon
        <5>2. CASE v # w
          <6>1. pte'[m][v] = pte[m][v]
            BY <5>2, <1>2, <1>4, <1>5, Zenon DEF MmType
          <6> QED BY <6>1, <4>2, <1>2, Zenon DEF SpacesInv
        <5> QED BY <5>1, <5>2, Zenon
      <4> QED BY <3>1, <4>1, <4>2, Zenon
    <3>2. CASE n # m
      <4>1. Mapped(n)' = Mapped(n)
        BY <3>2, <1>7, Zenon DEF Mapped
      <4> QED BY <3>2, <4>1, <1>5 DEF SpacesInv
    <3> QED BY <3>1, <3>2, Zenon
  <2> QED BY <2>1, Zenon DEF SpacesInv
<1>10. OwnersInv' /\ UserDesc' /\ FreshDesc'
  BY <1>1, <1>2, <1>5, <1>7, WorkInv, Zenon DEF Cloning
<1>11. VmasInv'
  BY <1>5, VmasSame, Zenon
<1>12. OpInv'
  BY <1>5, Zenon DEF OpInv, InUser, Mapping
<1>13. MapDesc'
  BY <1>1, <1>5, Zenon DEF MapDesc, Cloning
<1>14. CloneDesc'
  <2>1. Old' = Old /\ Old \in Space
    BY <1>1, <1>5, ForkSpaces, Zenon DEF Old
  <2>2. Mapped(Old)' = Mapped(Old) /\ w \in Mapped(Old)
    BY <2>1, <1>4, <1>7, ZenonT(30) DEF Mapped
  <2>3. Mapped(m)' \subseteq Mapped(Old)
    BY <2>2, <1>1, <1>2, <1>7, Zenon DEF DescInv, CloneDesc
  <2> QED BY <2>1, <2>2, <2>3, <1>2, <1>5, Zenon DEF DescInv, CloneDesc, Cloning
<1> QED BY <1>6, <1>8, <1>9, <1>10, <1>11, <1>12, <1>13, <1>14, Zenon DEF DescInv
-----------------------------------------------------------------------------
(* vma lists.                                                               *)

\* The place of a number in an increasing sequence, from its two neighbours.
LEMMA PlaceLemma ==
  ASSUME NEW len \in Nat, NEW st \in [1 .. len -> Int], NEW n \in Int,
         \A i, j \in 1 .. len : i < j => st[i] < st[j],
         \A i \in 1 .. len : st[i] # n,
         NEW p \in 1 .. len + 1, \A i \in 1 .. len : i < p => st[i] <= n,
         p <= len => st[p] >= n
  PROVE  \A i \in 1 .. len : IF i < p THEN st[i] < n ELSE n < st[i]
  OBVIOUS

\* vma_insert finds the place of a region that overlaps none on the list.
LEMMA PositionLemma ==
  ASSUME Known, MmType, NEW m \in Space, Ordered(m), NEW n \in Int,
         \A i \in DOMAIN vma_head[m] : region[vma_head[m][i]][1] # n
  PROVE  LET p == InsertPosition(vma_head[m], n)
         IN /\ p \in 1 .. Len(vma_head[m]) + 1
            /\ \A i \in DOMAIN vma_head[m] :
                 IF i < p THEN region[vma_head[m][i]][1] < n ELSE n < region[vma_head[m][i]][1]
<1> DEFINE list == vma_head[m]
           len == Len(list)
           st == [i \in 1 .. len |-> region[list[i]][1]]
           stop == {i \in 2 .. len : region[list[i]][1] >= n}
           p == InsertPosition(list, n)
<1>1. list \in Seq(Vma) /\ len \in Nat /\ DOMAIN list = 1 .. len
  BY DEF MmType
<1>2. \A i \in 1 .. len : region[list[i]] \in Int \X Int
  BY <1>1 DEF MmType
<1>3. \A i \in 1 .. len : region[list[i]][1] \in Int /\ region[list[i]][2] \in Int
  BY <1>2, Zenon
<1>4. st \in [1 .. len -> Int] /\ \A i \in 1 .. len : st[i] # n
  BY <1>1, <1>3, Zenon
<1>5. ASSUME NEW i \in 1 .. len, NEW j \in 1 .. len, i < j PROVE st[i] < st[j]
  <2>1. /\ region[list[i]][1] <= region[list[i]][2]
        /\ region[list[i]][2] < region[list[j]][1]
    BY <1>1, <1>5, ZenonT(30) DEF Ordered
  <2>2. region[list[i]][1] \in Int /\ region[list[i]][2] \in Int /\ region[list[j]][1] \in Int
    BY <1>3, Zenon
  <2>3. st[i] = region[list[i]][1] /\ st[j] = region[list[j]][1]
    BY Zenon
  <2> HIDE DEF st
  <2> QED BY <2>1, <2>2, <2>3
<1>6. list = <<>> <=> len = 0
  OBVIOUS
<1>7. p = IF list = <<>> \/ n < region[list[1]][1] THEN 1
          ELSE IF stop = {} THEN len + 1 ELSE Min(stop)
  BY ZenonT(30) DEF InsertPosition
<1>8. /\ \A i \in 1 .. len : st[i] = region[list[i]][1]
      /\ \A i \in 2 .. len : i \in stop <=> st[i] >= n
      /\ stop \in SUBSET Nat /\ stop \subseteq 2 .. len
  BY <1>1
<1>9. len > 0 => st[1] = region[list[1]][1] /\ st[1] \in Int
  BY <1>4
<1> HIDE DEF p, st, stop, len
<1>10. /\ p \in 1 .. len + 1 /\ \A i \in 1 .. len : i < p => st[i] <= n
       /\ p <= len => st[p] >= n
  <2>1. CASE list = <<>> \/ n < region[list[1]][1]
    BY <2>1, <1>7, <1>1, <1>9
  <2>2. CASE ~(list = <<>> \/ n < region[list[1]][1]) /\ stop = {}
    BY <2>2, <1>7, <1>8, <1>1, <1>9, <1>4
  <2>3. CASE ~(list = <<>> \/ n < region[list[1]][1]) /\ stop # {}
    <3>1. p = Min(stop) /\ len # 0
      BY <2>3, <1>6, <1>7, ZenonT(30)
    <3>2. p \in stop /\ \A i \in stop : p <= i
      BY <2>3, <3>1, <1>8, MinLemma, ZenonT(30) DEF Known
    <3>3. p \in 2 .. len /\ st[p] >= n
      BY <3>2, <1>8, ZenonT(30)
    <3>4. st[1] <= n
      BY <2>3, <3>1, <1>1, <1>9
    <3>5. ASSUME NEW i \in 2 .. len, i < p PROVE ~(st[i] >= n)
      BY <3>5, <3>2, <1>8
    <3>6. ASSUME NEW i \in 1 .. len, i < p PROVE st[i] <= n
      BY <1>1, <3>4, <3>5, <3>6, <1>4
    <3> QED BY <3>3, <3>6, <1>1
  <2> QED BY <2>1, <2>2, <2>3, ZenonT(30)
<1>11. \A i \in 1 .. len : IF i < p THEN st[i] < n ELSE n < st[i]
  BY <1>1, <1>4, <1>5, <1>10, PlaceLemma, Zenon
<1> QED BY <1>1, <1>8, <1>10, <1>11, Zenon DEF p, len

\* Of ranges r[1], ..., r[n]: they are in order; reg overlaps none; it belongs
\* behind the first k; q is r with reg put there.
InOrder(r, n) ==
  \A i, j \in 1 .. n : r[i][1] <= r[i][2] /\ (i < j => r[i][2] < r[j][1])
Apart(r, n, reg) == \A i \in 1 .. n : r[i][2] < reg[1] \/ reg[2] < r[i][1]
Behind(r, n, k, reg) ==
  \A i \in 1 .. n : IF i < k + 1 THEN r[i][1] < reg[1] ELSE reg[1] < r[i][1]
Shifted(q, r, n, k, reg) ==
  \A j \in 1 .. n + 1 : q[j] = IF j <= k THEN r[j] ELSE IF j = k + 1 THEN reg ELSE r[j - 1]

\* A range put between those before it and those behind it.
LEMMA RangeInsert ==
  ASSUME NEW n \in Nat, NEW k \in 0 .. n, NEW r \in [1 .. n -> Int \X Int],
         NEW reg \in Int \X Int, reg[1] <= reg[2], InOrder(r, n), Apart(r, n, reg),
         Behind(r, n, k, reg), NEW q, Shifted(q, r, n, k, reg)
  PROVE  InOrder(q, n + 1)
<1>1. \A i \in 1 .. n : r[i][1] \in Int /\ r[i][2] \in Int
  BY Zenon
<1>2. reg[1] \in Int /\ reg[2] \in Int
  BY Zenon
<1>3. ASSUME NEW i \in 1 .. n PROVE r[i][1] <= r[i][2]
  BY ZenonT(30) DEF InOrder
<1>4. ASSUME NEW i \in 1 .. n PROVE IF i <= k THEN r[i][2] < reg[1] ELSE reg[2] < r[i][1]
  <2>1. r[i][2] < reg[1] \/ reg[2] < r[i][1]
    BY ZenonT(30) DEF Apart
  <2>2. IF i < k + 1 THEN r[i][1] < reg[1] ELSE reg[1] < r[i][1]
    BY ZenonT(30) DEF Behind
  <2> QED BY <2>1, <2>2, <1>1, <1>2, <1>3
<1>5. ASSUME NEW i \in 1 .. n + 1
      PROVE  /\ i <= k => i \in 1 .. n /\ q[i] = r[i]
             /\ i = k + 1 => q[i] = reg
             /\ i > k + 1 => i - 1 \in 1 .. n /\ ~(i - 1 <= k) /\ q[i] = r[i - 1]
  <2>1. q[i] = IF i <= k THEN r[i] ELSE IF i = k + 1 THEN reg ELSE r[i - 1]
    BY Zenon DEF Shifted
  <2>2. /\ i <= k => i \in 1 .. n
        /\ i = k + 1 => ~(i <= k)
        /\ i > k + 1 => i - 1 \in 1 .. n /\ ~(i - 1 <= k) /\ ~(i <= k) /\ i # k + 1
    OBVIOUS
  <2> QED BY <2>1, <2>2, Zenon
<1>6. ASSUME NEW i \in 1 .. n + 1 PROVE q[i][1] <= q[i][2]
  <2>1. i <= k \/ i = k + 1 \/ i > k + 1
    OBVIOUS
  <2> QED BY <2>1, <1>3, <1>5, ZenonT(30)
<1>7. ASSUME NEW i \in 1 .. n + 1, NEW j \in 1 .. n + 1, i < j PROVE q[i][2] < q[j][1]
  <2>1. \A x, y \in 1 .. n : x < y => r[x][2] < r[y][1]
    BY ZenonT(30) DEF InOrder
  <2>2. CASE j <= k
    <3>1. i <= k
      BY <2>2, <1>7
    <3> QED BY <2>1, <2>2, <3>1, <1>5, <1>7, Zenon
  <2>3. CASE j = k + 1
    BY <2>3, <1>4, <1>5, <1>7
  <2>4. CASE j > k + 1
    <3>1. j - 1 \in 1 .. n /\ ~(j - 1 <= k) /\ q[j] = r[j - 1]
      BY <2>4, <1>5, Zenon
    <3>2. CASE i <= k
      <4>1. i \in 1 .. n /\ q[i] = r[i] /\ i < j - 1
        BY <3>2, <2>4, <1>5
      <4> QED BY <4>1, <3>1, <2>1, Zenon
    <3>3. CASE i = k + 1
      BY <3>3, <3>1, <1>4, <1>5, Zenon
    <3>4. CASE i > k + 1
      <4>1. i - 1 \in 1 .. n /\ q[i] = r[i - 1]
        BY <3>4, <1>5, Zenon
      <4>2. i - 1 < j - 1
        BY <1>7
      <4> QED BY <4>1, <4>2, <3>1, <2>1, Zenon
    <3> QED BY <3>2, <3>3, <3>4
  <2> QED BY <2>2, <2>3, <2>4
<1> QED BY <1>6, <1>7, Zenon DEF InOrder

Agree(Q, R, list) == \A i \in DOMAIN list : Q[list[i]] = R[list[i]]

\* new is list with a inserted behind the first k.
Inserted(new, S, list, k, a, R, Q) ==
  /\ new \in Seq(S) /\ DOMAIN new = 1 .. Len(list) + 1 /\ Len(new) = Len(list) + 1
  /\ Range(new) = Range(list) \cup {a} /\ IsInjective(new)
  /\ \A j \in 1 .. Len(list) + 1 :
       Q[new[j]] = IF j <= k THEN R[list[j]] ELSE IF j = k + 1 THEN Q[a] ELSE R[list[j - 1]]
  /\ \A j \in DOMAIN new : Q[new[j]] = Q[a] \/ \E i \in DOMAIN list : Q[new[j]] = R[list[i]]
  /\ \E j \in DOMAIN new : Q[new[j]] = Q[a]
  /\ \A i \in DOMAIN list : \E j \in DOMAIN new : Q[new[j]] = R[list[i]]

\* The regions on a list with one vma inserted: R are the regions before, Q the
\* regions after.
LEMMA ListInsert ==
  ASSUME NEW S, NEW list \in Seq(S), IsInjective(list), NEW a \in S, a \notin Range(list),
         NEW k \in 0 .. Len(list), NEW R, NEW Q, Agree(Q, R, list)
  PROVE  Inserted(InsertAt(list, k + 1, a), S, list, k, a, R, Q)
<1> DEFINE new == InsertAt(list, k + 1, a)
           len == Len(list)
<1>1. /\ new \in Seq(S) /\ DOMAIN new = 1 .. len + 1
      /\ \A j \in 1 .. len + 1 :
           new[j] = IF j <= k THEN list[j] ELSE IF j = k + 1 THEN a ELSE list[j - 1]
      /\ Range(new) = Range(list) \cup {a} /\ IsInjective(new)
  BY InsertLemma
<1> HIDE DEF new
<1>2. DOMAIN list = 1 .. len /\ len \in Nat
  OBVIOUS
<1> HIDE DEF len
<1>3. ASSUME NEW j \in 1 .. len + 1
      PROVE  \/ /\ j <= k /\ j \in DOMAIN list /\ Q[new[j]] = R[list[j]]
             \/ /\ ~(j <= k) /\ j = k + 1 /\ Q[new[j]] = Q[a]
             \/ /\ ~(j <= k) /\ j # k + 1 /\ j - 1 \in DOMAIN list
                /\ Q[new[j]] = R[list[j - 1]]
  <2>1. CASE j <= k
    <3>1. j \in DOMAIN list /\ new[j] = list[j]
      BY <2>1, <1>1
    <3> QED BY <3>1, <2>1 DEF Agree
  <2>2. CASE j = k + 1
    <3>1. ~(j <= k) /\ new[j] = a
      BY <2>2, <1>1, <1>2 DEF len
    <3> QED BY <3>1, <2>2, Zenon
  <2>3. CASE ~(j <= k) /\ j # k + 1
    BY <2>3, <1>1 DEF Agree, len
  <2> QED BY <2>1, <2>2, <2>3, Zenon
<1>4. \A j \in 1 .. len + 1 : Q[new[j]] = IF j <= k THEN R[list[j]]
                                         ELSE IF j = k + 1 THEN Q[a] ELSE R[list[j - 1]]
  BY <1>3, ZenonT(30)
<1>5. \A j \in DOMAIN new : Q[new[j]] = Q[a] \/ \E i \in DOMAIN list : Q[new[j]] = R[list[i]]
  BY <1>1, <1>3, ZenonT(30)
<1>6. \E j \in DOMAIN new : Q[new[j]] = Q[a]
  <2>1. k + 1 \in 1 .. len + 1 /\ ~(k + 1 <= k)
    BY DEF len
  <2> QED BY <2>1, <1>1, ZenonT(30)
<1>7. ASSUME NEW i \in DOMAIN list PROVE \E j \in DOMAIN new : Q[new[j]] = R[list[i]]
  <2>1. CASE i <= k
    <3>1. i \in 1 .. len + 1
      BY <1>2
    <3> QED BY <2>1, <3>1, <1>1, <1>4, ZenonT(30)
  <2>2. CASE ~(i <= k)
    <3>1. i + 1 \in 1 .. len + 1 /\ ~(i + 1 <= k) /\ i + 1 # k + 1 /\ (i + 1) - 1 = i
      BY <2>2, <1>2
    <3>2. Q[new[i + 1]] = R[list[(i + 1) - 1]]
      BY <3>1, <1>4, ZenonT(30)
    <3> QED BY <3>1, <3>2, <1>1, ZenonT(30)
  <2> QED BY <2>1, <2>2, ZenonT(30)
<1> QED BY <1>1, <1>4, <1>5, <1>6, <1>7, <1>2 DEF new, len, Inserted

\* What vma_insert of vma a with region reg does to space m.
VmaInserted(m, a, reg) ==
  /\ vma_head' \in [Space -> Seq(Vma)]
  /\ \A n \in Space : n # m => vma_head'[n] = vma_head[n]
  /\ Range(vma_head'[m]) = Range(vma_head[m]) \cup {a} /\ IsInjective(vma_head'[m])
  /\ Ordered(m)'
  /\ \A v \in Int : InVma(m, v)' <=> InVma(m, v) \/ (reg[1] <= v /\ v <= reg[2])
  /\ \A i \in DOMAIN vma_head'[m] :
       \/ region'[vma_head'[m][i]] = reg
       \/ \E j \in DOMAIN vma_head[m] : region'[vma_head'[m][i]] = region[vma_head[m][j]]
  /\ (\A i \in DOMAIN vma_head[m] : region[vma_head[m][i]][2] < reg[1]) =>
       /\ Len(vma_head'[m]) = Len(vma_head[m]) + 1
       /\ \A i \in DOMAIN vma_head'[m] :
            region'[vma_head'[m][i]] = IF i \in DOMAIN vma_head[m]
                                       THEN region[vma_head[m][i]] ELSE reg

\* vma_insert: the list stays in order and gains one region.
LEMMA VmaInsert ==
  ASSUME Known, MmType, NEW m \in Space, Ordered(m), IsInjective(vma_head[m]),
         NEW a \in Vma, a \notin Range(vma_head[m]),
         NEW reg \in Int \X Int, reg[1] <= reg[2], vma_insert(m, a, reg), region'[a] = reg,
         \A i \in DOMAIN vma_head[m] :
           /\ region'[vma_head[m][i]] = region[vma_head[m][i]]
           /\ \/ region[vma_head[m][i]][2] < reg[1]
              \/ reg[2] < region[vma_head[m][i]][1]
  PROVE  VmaInserted(m, a, reg)
<1> DEFINE list == vma_head[m]
           len == Len(list)
           k == InsertPosition(list, reg[1]) - 1
           new == InsertAt(list, k + 1, a)
<1>1. /\ vma_head \in [Space -> Seq(Vma)] /\ list \in Seq(Vma) /\ len \in Nat
      /\ DOMAIN list = 1 .. len /\ reg[1] \in Int /\ reg[2] \in Int
  <2>1. list \in Seq(Vma)
    BY Zenon DEF MmType
  <2>2. reg[1] \in Int /\ reg[2] \in Int
    BY Zenon
  <2>3. len \in Nat /\ DOMAIN list = 1 .. len
    BY <2>1
  <2> QED BY <2>1, <2>2, <2>3, Zenon DEF MmType
<1>2. \A i \in 1 .. len : region[list[i]] \in Int \X Int
  BY <1>1 DEF MmType
<1>3. \A i, j \in 1 .. len : /\ region[list[i]][1] <= region[list[i]][2]
                             /\ i < j => region[list[i]][2] < region[list[j]][1]
  BY <1>1, ZenonT(30) DEF Ordered
<1>4. \A i \in 1 .. len : region[list[i]][2] < reg[1] \/ reg[2] < region[list[i]][1]
  BY <1>1, ZenonT(30)
<1>5. ASSUME NEW i \in 1 .. len PROVE region[list[i]][1] # reg[1]
  <2>1. /\ region[list[i]][1] <= region[list[i]][2]
        /\ region[list[i]][2] < reg[1] \/ reg[2] < region[list[i]][1]
    BY <1>3, <1>4, ZenonT(30)
  <2>2. region[list[i]][1] \in Int /\ region[list[i]][2] \in Int
    BY <1>2, Zenon
  <2> QED BY <2>1, <2>2, <1>1
<1>6. LET p == InsertPosition(list, reg[1])
      IN /\ p \in 1 .. len + 1
         /\ \A i \in DOMAIN list :
              IF i < p THEN region[list[i]][1] < reg[1] ELSE reg[1] < region[list[i]][1]
  BY <1>1, <1>5, PositionLemma, ZenonT(30)
<1>7. k \in 0 .. len /\ InsertPosition(list, reg[1]) = k + 1
  BY <1>1, <1>6
<1>8. \A i \in 1 .. len : IF i < k + 1 THEN region[list[i]][1] < reg[1] ELSE reg[1] < region[list[i]][1]
  BY <1>1, <1>6, <1>7, ZenonT(30)
<1>9. vma_head' = [vma_head EXCEPT ![m] = new]
  BY <1>7, ZenonT(30) DEF vma_insert
<1>10. vma_head'[m] = new /\ \A n \in Space : n # m => vma_head'[n] = vma_head[n]
  BY <1>1, <1>9, ZenonT(30)
<1> HIDE DEF k
<1>11. /\ new \in Seq(Vma) /\ DOMAIN new = 1 .. len + 1 /\ Len(new) = len + 1
       /\ Range(new) = Range(list) \cup {a} /\ IsInjective(new)
       /\ \A j \in 1 .. len + 1 :
            region'[new[j]] = IF j <= k THEN region[list[j]]
                              ELSE IF j = k + 1 THEN region'[a] ELSE region[list[j - 1]]
       /\ \A j \in DOMAIN new :
            region'[new[j]] = region'[a] \/ \E i \in DOMAIN list : region'[new[j]] = region[list[i]]
       /\ \E j \in DOMAIN new : region'[new[j]] = region'[a]
       /\ \A i \in DOMAIN list : \E j \in DOMAIN new : region'[new[j]] = region[list[i]]
  <2>1. Agree(region', region, list)
    BY ZenonT(30) DEF Agree
  <2>2. IsInjective(list) /\ a \notin Range(list) /\ k \in 0 .. Len(list)
    BY <1>7, Zenon
  <2> HIDE DEF list
  <2>3. Inserted(new, Vma, list, k, a, region, region')
    BY <2>1, <2>2, <1>1, ListInsert, ZenonT(30)
  <2> HIDE DEF new
  <2> QED BY <2>3, ZenonT(30) DEF Inserted
<1>12. vma_head' \in [Space -> Seq(Vma)]
  BY <1>1, <1>9, <1>11, Zenon
<1> HIDE DEF list, len, new
<1>13. Ordered(m)'
  <2> DEFINE r == [i \in 1 .. len |-> region[list[i]]]
             q == [i \in 1 .. len + 1 |-> region'[new[i]]]
  <2>1. /\ r \in [1 .. len -> Int \X Int] /\ \A i \in 1 .. len : r[i] = region[list[i]]
        /\ \A i \in 1 .. len + 1 : q[i] = region'[new[i]]
    BY <1>2, Zenon
  <2> HIDE DEF r, q
  <2>2. InOrder(r, len)
    BY <2>1, <1>3, ZenonT(30) DEF InOrder
  <2>3. Apart(r, len, reg)
    BY <2>1, <1>4, ZenonT(30) DEF Apart
  <2>4. Behind(r, len, k, reg)
    BY <2>1, <1>8, ZenonT(30) DEF Behind
  <2>5. Shifted(q, r, len, k, reg)
    <3>1. ASSUME NEW j \in 1 .. len + 1
          PROVE  q[j] = IF j <= k THEN r[j] ELSE IF j = k + 1 THEN reg ELSE r[j - 1]
      <4>1. /\ j <= k => j \in 1 .. len
            /\ ~(j <= k) /\ j # k + 1 => j - 1 \in 1 .. len
        BY <1>1, <1>7
      <4>2. q[j] = IF j <= k THEN region[list[j]]
                   ELSE IF j = k + 1 THEN reg ELSE region[list[j - 1]]
        BY <2>1, <1>11, ZenonT(30)
      <4> QED BY <4>1, <4>2, <2>1, ZenonT(30)
    <3> QED BY <3>1, ZenonT(30) DEF Shifted
  <2>6. InOrder(q, len + 1)
    BY <2>1, <2>2, <2>3, <2>4, <2>5, <1>1, <1>7, RangeInsert, ZenonT(30)
  <2>7. \A i, j \in DOMAIN new : q[i][1] <= q[i][2] /\ (i < j => q[i][2] < q[j][1])
    BY <2>6, <1>11, ZenonT(30) DEF InOrder
  <2>8. \A i \in DOMAIN new : q[i] = region'[new[i]]
    BY <2>1, <1>11, ZenonT(30)
  <2> QED BY <1>10, <2>7, <2>8 DEF Ordered
<1>14. ASSUME NEW v \in Int
       PROVE  InVma(m, v)' <=> InVma(m, v) \/ (reg[1] <= v /\ v <= reg[2])
  <2>1. InVma(m, v)' <=> \E j \in DOMAIN new : region'[new[j]][1] <= v /\ v <= region'[new[j]][2]
    BY <1>10, ZenonT(30) DEF InVma
  <2>2. InVma(m, v) <=> \E i \in DOMAIN list : region[list[i]][1] <= v /\ v <= region[list[i]][2]
    BY ZenonT(30) DEF InVma, list
  <2> QED BY <2>1, <2>2, <1>11, ZenonT(30)
<1>15. ASSUME \A i \in DOMAIN list : region[list[i]][2] < reg[1]
       PROVE  \A i \in DOMAIN new :
                region'[new[i]] = IF i \in DOMAIN list THEN region[list[i]] ELSE reg
  <2>1. k = len
    <3>1. ASSUME k # len PROVE FALSE
      <4>1. len \in 1 .. len /\ ~(len < k + 1)
        BY <3>1, <1>1, <1>7
      <4>2. /\ reg[1] < region[list[len]][1] /\ region[list[len]][2] < reg[1]
            /\ region[list[len]][1] <= region[list[len]][2]
        BY <4>1, <1>1, <1>3, <1>8, <1>15, ZenonT(30)
      <4> QED BY <4>2, <4>1, <1>2
    <3> QED BY <3>1, Zenon
  <2>2. \A i \in 1 .. len + 1 : (i <= k <=> i \in DOMAIN list) /\ (~(i <= k) => i = k + 1)
    BY <2>1, <1>1
  <2> QED BY <2>2, <1>11, ZenonT(30)
<1>16. \A i \in DOMAIN vma_head'[m] :
         \/ region'[vma_head'[m][i]] = reg
         \/ \E j \in DOMAIN vma_head[m] : region'[vma_head'[m][i]] = region[vma_head[m][j]]
  BY <1>10, <1>11, ZenonT(30) DEF list
<1>17. ASSUME \A i \in DOMAIN vma_head[m] : region[vma_head[m][i]][2] < reg[1]
       PROVE  /\ Len(vma_head'[m]) = Len(vma_head[m]) + 1
              /\ \A i \in DOMAIN vma_head'[m] :
                   region'[vma_head'[m][i]] = IF i \in DOMAIN vma_head[m]
                                              THEN region[vma_head[m][i]] ELSE reg
  BY <1>10, <1>11, <1>15, <1>17, ZenonT(30) DEF list, len
<1> QED BY <1>10, <1>12, <1>13, <1>14, <1>16, <1>17, <1>11, Zenon DEF VmaInserted, list

\* A vma on no list so far is put on one.
LEMMA VmasMore ==
  ASSUME MmType, VmasInv, NEW m \in Space, NEW a \in Vma, NEW reg, VmaInserted(m, a, reg),
         \A n \in Space : a \notin Range(vma_head[n]),
         vma_used' = vma_used \cup {a}, op.vma = a \/ op.vma = NULL, op'.vma = NULL
  PROVE  VmasInv'
<1>1. /\ \A n \in Space : n # m => vma_head'[n] = vma_head[n]
      /\ Range(vma_head'[m]) = Range(vma_head[m]) \cup {a} /\ IsInjective(vma_head'[m])
  BY ZenonT(30) DEF VmaInserted
<1>2. ASSUME NEW n \in Space PROVE IsInjective(vma_head'[n]) /\ Range(vma_head'[n]) \subseteq vma_used'
  BY <1>1, Zenon DEF VmasInv
<1>3. ASSUME NEW n \in Space, NEW k \in Space, NEW b \in Vma,
             b \in Range(vma_head'[n]), b \in Range(vma_head'[k])
      PROVE  n = k
  BY <1>1, <1>3 DEF VmasInv
<1>4. ASSUME NEW b \in vma_used' PROVE \E n \in Space : b \in Range(vma_head'[n])
  <2>1. CASE b # a
    <3>1. b \in Vma /\ b \in vma_used
      BY <2>1, Zenon DEF MmType
    <3>2. PICK n \in Space : b \in Range(vma_head[n])
      BY <2>1, <3>1, Numbers, Zenon DEF VmasInv
    <3> QED BY <3>2, <1>1, Zenon
  <2> QED BY <2>1, <1>1, Zenon
<1> QED BY <1>2, <1>3, <1>4, ZenonT(30) DEF VmasInv

\* A region is copied: it goes behind those copied before.
LEMMA CloneVmaInv ==
  ASSUME Known, MmInv, CloneVma, ~CloneFails, kernel' = kernel
  PROVE  MmInv'
<1>1. MmType /\ FramesInv /\ SpacesInv /\ VmasInv /\ OpInv
  BY Zenon DEF MmInv
<1>2. Cloning /\ Copied /\ vma_used # Vma
  BY Zenon DEF CloneVma
<1>3. PICK m \in Space : m = op.m /\ m \in mm_used /\ m # Old
  BY <1>2, ForkSpaces, ZenonT(30)
<1>4. PICK o \in Space : o = Old /\ Described(o) /\ op.vma = NULL
  BY <1>2, ForkSpaces, ZenonT(30)
<1>5. PICK a \in Vma : a = Min(Vma \ vma_used) /\ a \notin vma_used
  BY <1>1, <1>2, Pools, ZenonT(30)
<1>6. PICK k \in Nat : k = Len(vma_head[m]) + 1 /\ k <= Len(vma_head[o])
  <2>1. Len(vma_head[m]) + 1 <= Len(vma_head[o])
    BY <1>3, <1>4, Zenon DEF CloneVma
  <2>2. vma_head[m] \in Seq(Vma)
    BY <1>1, Zenon DEF MmType
  <2>3. Len(vma_head[m]) + 1 \in Nat
    BY <2>2
  <2> QED BY <2>1, <2>3, Zenon
<1>7. PICK reg : reg = region[vma_head[o][k]]
  BY Zenon
<1>8. /\ vma_used' = vma_used \cup {a} /\ region' = [region EXCEPT ![a] = reg]
      /\ vma_insert(m, a, reg)
      /\ UNCHANGED <<free, mm_used, cr3_phys, pde, pte, page_count>>
      /\ UNCHANGED <<status, addr_space, current, op>>
  <2>1. /\ a = Min(Vma \ vma_used) /\ m = op.m
        /\ reg = region[vma_head[Old][Len(vma_head[op.m]) + 1]]
    BY <1>3, <1>4, <1>5, <1>6, <1>7, Zenon
  <2>2. /\ vma_used' = vma_used \cup {a} /\ region' = [region EXCEPT ![a] = reg]
        /\ vma_insert(m, a, reg)
        /\ UNCHANGED <<free, mm_used, cr3_phys, tableVars, procVars, op>>
    BY <2>1, Zenon DEF CloneVma
  <2> QED BY <2>2, Zenon DEF tableVars, procVars
<1>9. /\ vma_head[m] \in Seq(Vma) /\ DOMAIN vma_head[m] = 1 .. k - 1
      /\ vma_head[o] \in Seq(Vma) /\ DOMAIN vma_head[o] = 1 .. Len(vma_head[o])
      /\ Len(vma_head[o]) \in Nat
  BY <1>1, <1>6 DEF MmType
<1>10. /\ \A i \in 1 .. k - 1 : i \in DOMAIN vma_head[o] /\ i < k
       /\ k \in DOMAIN vma_head[o]
  BY <1>6
<1>11. \A i \in 1 .. k - 1 : region[vma_head[m][i]] = region[vma_head[o][i]]
  BY <1>2, <1>3, <1>4, <1>9, Zenon DEF MmInv, DescInv, CloneDesc
<1>12. /\ \A b \in vma_used : b \in Vma /\ b # a /\ region'[b] = region[b]
       /\ region'[a] = reg
  BY <1>1, <1>5, <1>8, Zenon DEF MmType
<1>13. \A n \in Space : /\ a \notin Range(vma_head[n]) /\ IsInjective(vma_head[n])
                        /\ \A i \in DOMAIN vma_head[n] : vma_head[n][i] \in vma_used
  BY <1>1, <1>5, Zenon DEF VmasInv, Range
<1>14. reg \in Int \X Int
  BY <1>1, <1>7, <1>9, <1>10 DEF MmType
<1>15. \A i, j \in DOMAIN vma_head[o] :
         /\ region[vma_head[o][i]][1] <= region[vma_head[o][i]][2]
         /\ i < j => region[vma_head[o][i]][2] < region[vma_head[o][j]][1]
  BY <1>4, ZenonT(30) DEF Described, Ordered
<1>16. reg[1] <= reg[2] /\ \A i \in 1 .. k - 1 : region[vma_head[m][i]][2] < reg[1]
  BY <1>7, <1>10, <1>11, <1>15, ZenonT(30)
<1>17. Ordered(m)
  BY <1>9, <1>10, <1>11, <1>15, ZenonT(30) DEF Ordered
<1>18. VmaInserted(m, a, reg)
  <2>1. \A i \in DOMAIN vma_head[m] :
           /\ region'[vma_head[m][i]] = region[vma_head[m][i]]
           /\ \/ region[vma_head[m][i]][2] < reg[1]
              \/ reg[2] < region[vma_head[m][i]][1]
    BY <1>9, <1>12, <1>13, <1>16, ZenonT(30)
  <2> QED BY <2>1, <1>1, <1>8, <1>12, <1>13, <1>14, <1>16, <1>17, VmaInsert, ZenonT(30)
<1>19. /\ vma_head' \in [Space -> Seq(Vma)]
       /\ \A n \in Space : n # m => vma_head'[n] = vma_head[n]
       /\ Len(vma_head'[m]) = k
       /\ \A i \in DOMAIN vma_head'[m] :
            region'[vma_head'[m][i]] = IF i \in 1 .. k - 1 THEN region[vma_head[m][i]] ELSE reg
  BY <1>6, <1>9, <1>16, <1>18, ZenonT(30) DEF VmaInserted
<1>20. MmType'
  BY <1>1, <1>8, <1>14, <1>19, Zenon DEF MmType
<1>21. FramesInv'
  BY <1>1, <1>8, FramesSame, ZenonT(30)
<1>22. SpacesInv'
  <2>1. ASSUME NEW n \in Space
        PROVE  Mapped(n)' = Mapped(n) /\ (n \notin mm_used => vma_head'[n] = vma_head[n])
    BY <1>3, <1>8, <1>19, ZenonT(30) DEF Mapped
  <2> QED BY <2>1, <1>1, <1>8, ZenonT(30) DEF SpacesInv
<1>23. VmasInv'
  BY <1>1, <1>4, <1>8, <1>13, <1>18, VmasMore, ZenonT(30)
<1>24. OwnersInv' /\ UserDesc' /\ FreshDesc'
  BY <1>2, <1>3, <1>8, <1>12, <1>19, WorkInv DEF Cloning
<1>25. OpInv'
  BY <1>1, <1>4, <1>8, Zenon DEF OpInv, InUser
<1>26. MapDesc'
  BY <1>2, <1>8, Zenon DEF MapDesc, Cloning
<1>27. CloneDesc'
  <2>1. Old' = o /\ op'.m = m
    BY <1>3, <1>4, <1>8, Zenon DEF Old
  <2>2. vma_head'[o] = vma_head[o]
    BY <1>3, <1>4, <1>19, ZenonT(30)
  <2>3. Mapped(m)' \subseteq Mapped(o)'
    BY <1>8, <1>2, <1>3, <1>4, Zenon DEF Mapped, MmInv, DescInv, CloneDesc
  <2>4. ASSUME NEW i \in DOMAIN vma_head'[m]
        PROVE  region'[vma_head'[m][i]] = region'[vma_head'[o][i]]
    BY <1>19, <1>10, <1>12, <1>13, <2>2, <1>7, <1>11
  <2> QED BY <2>1, <2>2, <2>3, <2>4, <1>6, <1>19, Zenon DEF CloneDesc
<1> QED BY <1>20, <1>21, <1>22, <1>23, <1>24, <1>25, <1>26, <1>27, ZenonT(30) DEF MmInv, DescInv

=============================================================================
