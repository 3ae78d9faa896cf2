----------------------------- MODULE MmTheorems -----------------------------
(* The remaining steps of Mm; then what the invariant of MmProofs gives for *)
(* every behaviour of Mm, for every number of frames, spaces, vmas and      *)
(* processes and every layout of disjoint regions.                          *)
EXTENDS MmProofs

-----------------------------------------------------------------------------
(* Mapping, and every step together.                                        *)

\* What execve and the loader know of the space they map regions into: those
\* on its list come earlier in the layout and so overlap none to come.
LEMMA MapSpace ==
  ASSUME MmInv, Mapping
  PROVE  /\ op.m \in Space /\ op.m \in mm_used /\ op.r \in DOMAIN LAYOUT /\ op.r \in Nat
         /\ current \in Proc /\ Described(op.m)
         /\ \A i \in DOMAIN vma_head[op.m] :
              \/ region[vma_head[op.m][i]][2] < LAYOUT[op.r][1]
              \/ LAYOUT[op.r][2] < region[vma_head[op.m][i]][1]
<1>1. op.why \in {"exec", "load"} /\ op.m # NULL /\ op.r <= Len(LAYOUT)
  BY Zenon DEF Mapping
<1>2. op.m \in Space /\ op.r \in Nat
  BY <1>1, Zenon DEF MmInv, MmType
<1>3. op.r \in DOMAIN LAYOUT
  BY <1>1, <1>2 DEF MmInv, OpInv
<1>4. /\ Described(op.m)
      /\ \A i \in DOMAIN vma_head[op.m] : \E k \in DOMAIN LAYOUT :
           k < op.r /\ region[vma_head[op.m][i]] = LAYOUT[k]
  BY <1>1, Zenon DEF MmInv, DescInv, MapDesc
<1>5. ASSUME NEW i \in DOMAIN vma_head[op.m]
      PROVE  \/ region[vma_head[op.m][i]][2] < LAYOUT[op.r][1]
             \/ LAYOUT[op.r][2] < region[vma_head[op.m][i]][1]
  <2>1. PICK k \in DOMAIN LAYOUT : k < op.r /\ region[vma_head[op.m][i]] = LAYOUT[k]
    BY <1>4, ZenonT(30)
  <2>2. k # op.r
    BY <2>1, <1>2
  <2> QED BY <2>1, <2>2, <1>3, Layout, Zenon
<1> QED BY <1>2, <1>3, <1>4, <1>5, <1>1, Zenon DEF MmInv, OwnersInv, OpInv, Building

\* The vma of the next region is taken.
LEMMA MapVmaInv ==
  ASSUME Known, MmInv, MapVma, ~MapFails, kernel' = kernel
  PROVE  MmInv'
<1>1. MmType /\ FramesInv /\ SpacesInv /\ VmasInv /\ OpInv
  BY Zenon DEF MmInv
<1>2. Mapping /\ op.vma = NULL /\ vma_used # Vma
  BY ZenonT(30) DEF MapVma
<1>3. PICK m \in Space : m = op.m /\ Described(m)
  BY <1>2, MapSpace, Zenon
<1>4. PICK r \in DOMAIN LAYOUT : r = op.r
  BY <1>2, MapSpace, Zenon
<1>5. PICK a \in Vma : a = Min(Vma \ vma_used) /\ a \notin vma_used
  BY <1>1, <1>2, Pools, Zenon
<1>6. /\ vma_used' = vma_used \cup {a} /\ region' = [region EXCEPT ![a] = LAYOUT[r]]
      /\ op' = [op EXCEPT !.vma = a, !.v = LAYOUT[r][1]]
      /\ UNCHANGED <<free, mm_used, cr3_phys, pde, pte, page_count, vma_head>>
      /\ UNCHANGED <<status, addr_space, current>>
  BY <1>4, <1>5, ZenonT(30) DEF MapVma, tableVars, procVars
<1>7. /\ LAYOUT[r] \in Int \X Int /\ LAYOUT[r][1] \in Int /\ LAYOUT[r][2] \in Int
      /\ LAYOUT[r][1] <= LAYOUT[r][2]
  BY Layout, ZenonT(30)
<1>8. /\ op'.why = op.why /\ op'.p = op.p /\ op'.m = m /\ op'.r = r /\ op'.vma = a
      /\ op'.v = LAYOUT[r][1]
      /\ op' \in [why : {"idle", "boot", "fork", "exec", "load"}, p : Proc \cup {NULL},
                  m : Space \cup {NULL}, r : Nat, vma : Vma \cup {NULL}, v : Int]
  BY <1>1, <1>3, <1>4, <1>6, <1>7, ZenonT(30) DEF MmType
<1>9. /\ \A b \in vma_used : b \in Vma /\ b # a /\ region'[b] = region[b]
      /\ region'[a] = LAYOUT[r]
  BY <1>1, <1>5, <1>6, Zenon DEF MmType
<1>10. \A n \in Space : /\ a \notin Range(vma_head[n])
                        /\ \A i \in DOMAIN vma_head[n] : vma_head[n][i] \in vma_used
  BY <1>1, <1>5, Zenon DEF VmasInv, Range
<1>11. MmType'
  BY <1>1, <1>6, <1>8, <1>7, Zenon DEF MmType
<1>12. FramesInv'
  BY <1>1, <1>6, FramesSame, ZenonT(30)
<1>13. SpacesInv'
  BY <1>1, <1>6, SpacesSame, ZenonT(30)
<1>14. VmasInv'
  <2>1. \A b \in vma_used : b # op.vma
    BY <1>1, <1>2, Numbers, Zenon DEF MmType
  <2> QED BY <2>1, <1>1, <1>6, <1>8, <1>10, ZenonT(30) DEF VmasInv
<1>15. OwnersInv' /\ UserDesc' /\ FreshDesc'
  BY <1>2, <1>6, <1>8, <1>9, WorkInv, Zenon DEF Mapping
<1>16. OpInv'
  <2>1. Mapping'
    BY <1>2, <1>3, <1>4, <1>8, Zenon DEF Mapping
  <2>2. op.why \in {"exec", "load"}
    BY <1>2, Zenon DEF Mapping
  <2>3. LAYOUT[r][1] <= LAYOUT[r][1] /\ LAYOUT[r][1] <= LAYOUT[r][2] + 1
    BY <1>7
  <2>4. region'[op'.vma] = LAYOUT[op'.r] /\ op'.v = LAYOUT[op'.r][1]
    BY <1>8, <1>9, Zenon
  <2> QED BY <2>1, <2>2, <2>3, <2>4, <1>1, <1>3, <1>4, <1>6, <1>8, Zenon DEF OpInv, InUser
<1>17. \A i \in DOMAIN vma_head[m] : region'[vma_head[m][i]] = region[vma_head[m][i]]
  BY <1>9, <1>10, Zenon
<1>18. MapDesc'
  <2>1. Ordered(m)'
    BY <1>3, <1>6, <1>17 DEF Described, Ordered
  <2>2. \A v \in Int : InVma(m, v)' <=> InVma(m, v)
    BY <1>6, <1>17, ZenonT(30) DEF InVma
  <2>3. \A v \in Int : v \in Mapped(m) <=> InVma(m, v)
    BY <1>2, <1>3, Zenon DEF Described
  <2>4. Described(m)'
    BY <2>1, <2>2, <2>3, <1>7, <1>8, <1>6 DEF Described, Mapped
  <2>5. \A i \in DOMAIN vma_head[m] : \E k \in DOMAIN LAYOUT :
           k < r /\ region[vma_head[m][i]] = LAYOUT[k]
    BY <1>2, <1>3, <1>4, Zenon DEF MmInv, DescInv, MapDesc, Mapping
  <2>6. \A i \in DOMAIN vma_head'[m] : \E k \in DOMAIN LAYOUT :
           k < r /\ region'[vma_head'[m][i]] = LAYOUT[k]
    BY <2>5, <1>6, <1>17
  <2> QED BY <2>4, <2>6, <1>8, Zenon DEF MapDesc
<1>19. CloneDesc'
  BY <1>2, <1>8, Zenon DEF CloneDesc, Cloning, Mapping
<1> QED BY <1>11, <1>12, <1>13, <1>14, <1>15, <1>16, <1>18, <1>19, ZenonT(30) DEF MmInv, DescInv

\* A region is complete: its vma goes on the list.
LEMMA MapDoneInv ==
  ASSUME Known, MmInv, MapDone, kernel' = kernel
  PROVE  MmInv'
<1>1. MmType /\ FramesInv /\ SpacesInv /\ VmasInv /\ OpInv
  BY Zenon DEF MmInv
<1>2. Mapping /\ op.vma # NULL /\ op.v > LAYOUT[op.r][2]
  BY Zenon DEF MapDone
<1>3. PICK m \in Space : m = op.m /\ m \in mm_used /\ Described(m)
  BY <1>2, MapSpace, Zenon
<1>4. PICK r \in DOMAIN LAYOUT : r = op.r /\ r \in Nat
  BY <1>2, MapSpace, ZenonT(30)
<1>5. PICK a \in Vma : a = op.vma /\ a \in vma_used
  BY <1>1, <1>2, Zenon DEF MmType, VmasInv
<1>6. /\ vma_insert(m, a, LAYOUT[r])
      /\ op' = [op EXCEPT !.vma = NULL, !.r = r + 1]
      /\ UNCHANGED <<free, mm_used, cr3_phys, vma_used, pde, pte, page_count, region>>
      /\ UNCHANGED <<status, addr_space, current>>
  BY <1>3, <1>4, <1>5, ZenonT(30) DEF MapDone, poolVars, tableVars, procVars
<1>7. /\ LAYOUT[r] \in Int \X Int /\ LAYOUT[r][1] \in Int /\ LAYOUT[r][2] \in Int
      /\ LAYOUT[r][1] <= LAYOUT[r][2]
  BY Layout, Zenon
<1>8. /\ op'.why = op.why /\ op'.p = op.p /\ op'.m = m /\ op'.r = r + 1 /\ op'.vma = NULL
      /\ op' \in [why : {"idle", "boot", "fork", "exec", "load"}, p : Proc \cup {NULL},
                  m : Space \cup {NULL}, r : Nat, vma : Vma \cup {NULL}, v : Int]
  <2>1. r + 1 \in Nat
    BY <1>4
  <2> QED BY <2>1, <1>1, <1>3, <1>6, ZenonT(30) DEF MmType
<1>9. region'[a] = LAYOUT[r] /\ op.v \in Int /\ op.v = LAYOUT[r][2] + 1
  BY <1>1, <1>2, <1>4, <1>5, <1>6, <1>7 DEF OpInv, MmType
<1>10. \A n \in Space : a \notin Range(vma_head[n]) /\ IsInjective(vma_head[n])
  BY <1>1, <1>2, <1>5, Zenon DEF VmasInv
<1>11. VmaInserted(m, a, LAYOUT[r])
  <2>1. \A i \in DOMAIN vma_head[m] :
          /\ region'[vma_head[m][i]] = region[vma_head[m][i]]
          /\ \/ region[vma_head[m][i]][2] < LAYOUT[r][1]
             \/ LAYOUT[r][2] < region[vma_head[m][i]][1]
    BY <1>2, <1>3, <1>4, <1>6, MapSpace, Zenon
  <2>2. Ordered(m)
    BY <1>3, Zenon DEF Described
  <2> QED BY <2>1, <2>2, <1>1, <1>6, <1>7, <1>9, <1>10, VmaInsert, ZenonT(30)
<1>12. /\ vma_head' \in [Space -> Seq(Vma)]
       /\ \A n \in Space : n # m => vma_head'[n] = vma_head[n]
       /\ Ordered(m)'
       /\ \A v \in Int : InVma(m, v)' <=> InVma(m, v) \/ (LAYOUT[r][1] <= v /\ v <= LAYOUT[r][2])
       /\ \A i \in DOMAIN vma_head'[m] :
            \/ region'[vma_head'[m][i]] = LAYOUT[r]
            \/ \E j \in DOMAIN vma_head[m] : region'[vma_head'[m][i]] = region[vma_head[m][j]]
  BY <1>11, ZenonT(30) DEF VmaInserted
<1>13. MmType'
  BY <1>1, <1>6, <1>8, <1>12, ZenonT(30) DEF MmType
<1>14. FramesInv'
  BY <1>1, <1>6, FramesSame, ZenonT(30)
<1>15. SpacesInv'
  <2>1. ASSUME NEW n \in Space
        PROVE  Mapped(n)' = Mapped(n) /\ (n \notin mm_used => vma_head'[n] = vma_head[n])
    BY <1>3, <1>6, <1>12, ZenonT(30) DEF Mapped
  <2> QED BY <2>1, <1>1, <1>6, ZenonT(30) DEF SpacesInv
<1>16. VmasInv'
  <2>1. vma_used' = vma_used \cup {a}
    BY <1>5, <1>6, Zenon
  <2> QED BY <2>1, <1>5, <1>6, <1>1, <1>8, <1>10, <1>11, VmasMore
<1>17. OwnersInv' /\ UserDesc' /\ FreshDesc'
  BY <1>2, <1>3, <1>6, <1>8, <1>12, WorkInv, ZenonT(30) DEF Mapping
<1>18. OpInv'
  <2>1. op.why \in {"exec", "load"}
    BY <1>2, Zenon DEF Mapping
  <2>2. op'.r > 0
    BY <1>4, <1>8
  <2> QED BY <2>1, <2>2, <1>1, <1>3, <1>6, <1>8, Zenon DEF OpInv, InUser
<1>19. MapDesc'
  <2>1. ASSUME NEW v \in Int PROVE v \in Mapped(m)' <=> InVma(m, v)'
    <3>1. v \in Mapped(m) <=> InVma(m, v) \/ (LAYOUT[r][1] <= v /\ v < op.v)
      BY <1>2, <1>3, <1>4, Zenon DEF Described
    <3>2. v < op.v <=> v <= LAYOUT[r][2]
      BY <1>7, <1>9
    <3>3. Mapped(m)' = Mapped(m)
      BY <1>6, Zenon DEF Mapped
    <3> QED BY <3>1, <3>2, <3>3, <1>12, ZenonT(30)
  <2>2. \A i \in DOMAIN vma_head[m] : \E k \in DOMAIN LAYOUT :
           k < r /\ region[vma_head[m][i]] = LAYOUT[k]
    BY <1>2, <1>3, <1>4, ZenonT(30) DEF MmInv, DescInv, MapDesc, Mapping
  <2>3. r < r + 1 /\ \A k \in DOMAIN LAYOUT : k < r => k < r + 1
    BY <1>4, Layout
  <2>4. ASSUME NEW i \in DOMAIN vma_head'[m]
        PROVE  \E k \in DOMAIN LAYOUT : k < r + 1 /\ region'[vma_head'[m][i]] = LAYOUT[k]
    <3>1. CASE \E j \in DOMAIN vma_head[m] : region'[vma_head'[m][i]] = region[vma_head[m][j]]
      BY <3>1, <2>2, <2>3, Zenon
    <3> QED BY <3>1, <1>12, <2>3, Zenon
  <2> QED BY <2>4, <1>8, <2>1, <1>12 DEF MapDesc, Described
<1>20. CloneDesc'
  BY <1>2, <1>8, Zenon DEF CloneDesc, Cloning, Mapping
<1> QED BY <1>13, <1>14, <1>15, <1>16, <1>17, <1>18, <1>19, <1>20, ZenonT(30) DEF MmInv, DescInv

\* A table and a page in it are taken in one step.
LEMMA TakeBoth ==
  ASSUME MmType, FramesInv, kernel' = kernel, NEW f \in free, NEW t \in free, f # t,
         free' = free \ {f, t}, NEW m \in Space, NEW w \in VPage, pte[m][w] = NULL,
         pde[m][Pdi(w)] = NULL, cr3_phys' = cr3_phys,
         pde' = [pde EXCEPT ![m][Pdi(w)] = t], pte' = [pte EXCEPT ![m][w] = f]
  PROVE  FramesInv' /\ free' \in SUBSET Frame
<1> DEFINE x == <<1, m, Pdi(w)>>
           y == <<2, m, w>>
           h == [held EXCEPT ![x] = t]
           S == free \cup kernel
<1>1. /\ pde \in [Space -> [Dir -> Frame \cup {NULL}]]
      /\ pte \in [Space -> [VPage -> Frame \cup {NULL}]]
      /\ f \in Frame /\ t \in Frame /\ free \in SUBSET Frame
      /\ free \cap kernel = {} /\ Owned(held, S)
  BY Zenon DEF MmType, FramesInv
<1>2. Pdi(w) \in Dir
  BY Numbers, Zenon
<1>3. x \in Place /\ y \in Place /\ x # y /\ held[x] = NULL /\ held[y] = NULL
  BY <1>2, HeldAt
<1>4. \A z \in Place : h[z] = IF z = x THEN t ELSE held[z]
  BY Zenon DEF held
<1>5. ASSUME NEW z \in Place PROVE held'[z] = IF z = y THEN f ELSE h[z]
  <2>1. CASE z[2] \in Space /\ z = <<0, z[2], 0>>
    <3>1. held[z] = cr3_phys[z[2]] /\ held'[z] = cr3_phys'[z[2]]
      BY <2>1 DEF held
    <3>2. z # x /\ z # y
      BY <2>1
    <3> QED BY <3>1, <3>2, <1>4, ZenonT(30)
  <2>2. CASE z[2] \in Space /\ z[3] \in Dir /\ z = <<1, z[2], z[3]>>
    <3>1. held[z] = pde[z[2]][z[3]] /\ held'[z] = pde'[z[2]][z[3]]
      BY <2>2 DEF held
    <3>2. z # y /\ (z = x <=> z[2] = m /\ z[3] = Pdi(w))
      BY <2>2
    <3> QED BY <3>1, <3>2, <1>4, <2>2, <1>1, <1>2, Zenon
  <2>3. CASE z[2] \in Space /\ z[3] \in VPage /\ z = <<2, z[2], z[3]>>
    <3>1. held[z] = pte[z[2]][z[3]] /\ held'[z] = pte'[z[2]][z[3]]
      BY <2>3 DEF held
    <3>2. held'[z] = IF z[2] = m /\ z[3] = w THEN f ELSE pte[z[2]][z[3]]
      BY <3>1, <1>1
    <3> QED BY <3>1, <3>2, <2>3
  <2> QED BY <2>1, <2>2, <2>3, HeldAt, Zenon
<1>6. t \in S /\ f \in S \ {t} /\ free' \cup kernel' = (S \ {t}) \ {f}
  BY <1>1, Zenon
<1>7. h[y] = NULL
  BY <1>3, <1>4, Zenon
<1> HIDE DEF x, y, h, S
<1>8. Owned(h, S \ {t})
  <2>1. t \in S /\ t \in Frame /\ x \in Place /\ held[x] = NULL /\ Owned(held, S)
    BY <1>1, <1>3, <1>6, Zenon
  <2> QED BY <2>1, <1>4, TakeFrame, ZenonT(30)
<1>9. Owned(held', (S \ {t}) \ {f})
  <2>1. f \in S \ {t} /\ f \in Frame /\ y \in Place
    BY <1>1, <1>3, <1>6, Zenon
  <2>2. \A z \in Place : held'[z] = IF z = y THEN f ELSE h[z]
    BY <1>5, Zenon
  <2> QED BY <2>1, <2>2, <1>7, <1>8, TakeFrame, ZenonT(30)
<1> QED BY <1>1, <1>6, <1>9, Zenon DEF FramesInv

\* As many frames as the count says can be taken.
LEMMA FreeFrames ==
  ASSUME Known, MmType
  PROVE  /\ Cardinality(free) >= 1 => Min(free) \in free
         /\ Cardinality(free) >= 2 =>
              /\ Min(free \ {Min(free)}) \in free
              /\ Min(free \ {Min(free)}) # Min(free)
<1> DEFINE rest == free \ {Min(free)}
<1>1. free \in SUBSET Nat /\ Cardinality(free) \in Nat /\ Cardinality({}) = 0
  BY Numbers, ZenonT(30) DEF MmType, Known, Counting
<1>2. Cardinality(free) >= 1 => free # {}
  BY <1>1
<1>3. free # {} => Min(free) \in free
  BY Pools, ZenonT(30)
<1>4. ASSUME Cardinality(free) >= 2 PROVE Min(rest) \in rest
  <2>1. Min(free) \in free
    BY <1>1, <1>3, <1>4
  <2>2. Cardinality(free) = Cardinality(rest) + 1
    <3>1. free = rest \cup {Min(free)} /\ rest \in SUBSET Frame /\ Min(free) \in Frame \ rest
      BY <2>1 DEF MmType
    <3> HIDE DEF rest
    <3> QED BY <3>1, ZenonT(30) DEF Known, Counting
  <2>3. rest # {}
    BY <2>2, <1>1, <1>4
  <2>4. rest \in SUBSET Nat
    BY <1>1, ZenonT(30)
  <2> HIDE DEF rest
  <2> QED BY <2>3, <2>4, MinLemma, ZenonT(30) DEF Known
<1> QED BY <1>2, <1>3, <1>4, ZenonT(30)

\* A page of the region is mapped.
LEMMA MapPageInv ==
  ASSUME Known, MmInv, MapPage, Cardinality(free) >= FramesFor(op.m, op.v), kernel' = kernel
  PROVE  MmInv'
<1>1. MmType /\ FramesInv /\ SpacesInv /\ VmasInv /\ OpInv
  BY ZenonT(30) DEF MmInv
<1>2. Mapping /\ op.vma # NULL /\ op.v <= LAYOUT[op.r][2]
  BY Zenon DEF MapPage
<1>3. PICK m \in Space : m = op.m /\ m \in mm_used /\ Described(m)
  BY <1>2, MapSpace, ZenonT(30)
<1>4. PICK r \in DOMAIN LAYOUT : r = op.r
  BY <1>2, MapSpace, ZenonT(30)
<1>5. /\ LAYOUT[r][1] \in Int /\ LAYOUT[r][2] \in Int
      /\ \A v \in Int : LAYOUT[r][1] <= v /\ v <= LAYOUT[r][2] => v \in VPage
  BY Layout, ZenonT(30)
<1>6. PICK w \in VPage : w = op.v /\ w \in Int /\ LAYOUT[r][1] <= w /\ w <= LAYOUT[r][2]
  BY <1>1, <1>2, <1>4, <1>5, Zenon DEF OpInv, MmType
<1>7. \A v \in Int : v \in Mapped(m) <=> InVma(m, v) \/ (LAYOUT[r][1] <= v /\ v < w)
  BY <1>2, <1>3, <1>4, <1>6, ZenonT(30) DEF Described
<1>8. pte[m][w] = NULL
  <2>1. ~InVma(m, w)
    <3>1. ASSUME NEW i \in DOMAIN vma_head[m]
          PROVE  ~(region[vma_head[m][i]][1] <= w /\ w <= region[vma_head[m][i]][2])
      <4>1. region[vma_head[m][i]] \in Int \X Int
        BY <1>1 DEF MmType
      <4>2. region[vma_head[m][i]][1] \in Int /\ region[vma_head[m][i]][2] \in Int
        BY <4>1, Zenon
      <4>3. \/ region[vma_head[m][i]][2] < LAYOUT[r][1]
            \/ LAYOUT[r][2] < region[vma_head[m][i]][1]
        BY <1>2, <1>3, <1>4, MapSpace, Zenon
      <4>4. w \in Int /\ LAYOUT[r][1] <= w /\ w <= LAYOUT[r][2]
            /\ LAYOUT[r][1] \in Int /\ LAYOUT[r][2] \in Int
        BY <1>5, <1>6, Zenon
      <4> QED BY <4>2, <4>3, <4>4
    <3> QED BY <3>1, ZenonT(30) DEF InVma
  <2>2. ~(w < w)
    BY <1>6
  <2>3. w \notin Mapped(m)
    BY <2>1, <2>2, <1>6, <1>7, Zenon
  <2> QED BY <2>3, Zenon DEF Mapped
<1>9. \E f \in free :
        /\ f \in Frame
        /\ pte' = [pte EXCEPT ![m][w] = f]
        /\ page_count' = [page_count EXCEPT ![m] = @ + 1]
        /\ op' = [op EXCEPT !.v = w + 1]
        /\ UNCHANGED <<mm_used, cr3_phys, vma_used, vma_head, region, status, addr_space, current>>
        /\ FramesInv' /\ free' \in SUBSET Frame
        /\ pde' \in [Space -> [Dir -> Frame \cup {NULL}]]
        /\ \A n \in Space : n # m => pde'[n] = pde[n]
        /\ \A d \in Dir : pde[m][d] # NULL => pde'[m][d] # NULL
        /\ pde'[m][Pdi(w)] # NULL
  <2>1. PICK n : n = FramesFor(m, w)
    BY Zenon
  <2>2. Cardinality(free) >= n /\ (n = 2 <=> pde[m][Pdi(w)] = NULL) /\ n \in {1, 2}
    BY <2>1, <1>3, <1>6 DEF FramesFor
  <2>3. Cardinality(free) \in Nat
    BY <1>1, Zenon DEF MmType, Known, Counting
  <2>4. PICK f \in free : f = Min(free) /\ f \in Frame
    BY <2>2, <2>3, <1>1, FreeFrames, Zenon DEF MmType
  <2>5. PICK t : t = Min(free \ {f})
    BY Zenon
  <2>6. /\ free' = free \ (IF n = 2 THEN {f, t} ELSE {f})
        /\ pde' = IF n = 2 THEN [pde EXCEPT ![m][Pdi(w)] = t] ELSE pde
        /\ pte' = [pte EXCEPT ![m][w] = f]
        /\ page_count' = [page_count EXCEPT ![m] = @ + 1]
        /\ op' = [op EXCEPT !.v = w + 1]
        /\ UNCHANGED <<mm_used, cr3_phys, vma_used, vma_head, region, status, addr_space, current>>
    <3>1. ~(Cardinality(free) < FramesFor(op.m, op.v))
      BY <2>1, <2>2, <2>3, <1>3, <1>6
    <3> QED BY <3>1, <2>1, <2>4, <2>5, <1>3, <1>6, ZenonT(30) DEF MapPage, poolVars, procVars
  <2>7. pde \in [Space -> [Dir -> Frame \cup {NULL}]] /\ Pdi(w) \in Dir
    BY <1>1, Numbers, Zenon DEF MmType
  <2>8. CASE n = 2
    <3>1. t \in free /\ t # f /\ t \in Frame /\ t # NULL
      <4>1. Cardinality(free) >= 2
        BY <2>2, <2>8, Zenon
      <4>2. t \in free /\ t # f
        BY <4>1, <2>4, <2>5, <1>1, FreeFrames, Zenon
      <4> QED BY <4>2, <1>1, Numbers, Zenon DEF MmType
    <3>2. free' = free \ {f, t} /\ pde' = [pde EXCEPT ![m][Pdi(w)] = t]
      BY <2>6, <2>8, Zenon
    <3>3. FramesInv' /\ free' \in SUBSET Frame
      <4>1. pde[m][Pdi(w)] = NULL /\ cr3_phys' = cr3_phys /\ pte' = [pte EXCEPT ![m][w] = f]
        BY <2>2, <2>6, <2>8, Zenon
      <4> QED BY <4>1, <3>1, <3>2, <1>1, <1>8, TakeBoth, ZenonT(30)
    <3>4. /\ pde' \in [Space -> [Dir -> Frame \cup {NULL}]]
          /\ \A k \in Space : k # m => pde'[k] = pde[k]
          /\ \A d \in Dir : pde[m][d] # NULL => pde'[m][d] # NULL
          /\ pde'[m][Pdi(w)] # NULL
      BY <3>1, <3>2, <2>7, ZenonT(30)
    <3> QED BY <3>3, <3>4, <2>4, <2>6, ZenonT(30)
  <2>9. CASE n # 2
    BY <2>2, <2>6, <2>9, <1>1, <1>8, TakePage, <2>4, <2>7, Zenon
  <2> QED BY <2>8, <2>9, Zenon
<1>10. PICK f \in free :
         /\ f \in Frame
         /\ pte' = [pte EXCEPT ![m][w] = f]
         /\ page_count' = [page_count EXCEPT ![m] = @ + 1]
         /\ op' = [op EXCEPT !.v = w + 1]
         /\ UNCHANGED <<mm_used, cr3_phys, vma_used, vma_head, region, status, addr_space, current>>
         /\ FramesInv' /\ free' \in SUBSET Frame
         /\ pde' \in [Space -> [Dir -> Frame \cup {NULL}]]
         /\ \A n \in Space : n # m => pde'[n] = pde[n]
         /\ \A d \in Dir : pde[m][d] # NULL => pde'[m][d] # NULL
         /\ pde'[m][Pdi(w)] # NULL
  BY <1>9, ZenonT(30)
<1>11. /\ Mapped(m)' = Mapped(m) \cup {w}
       /\ page_count'[m] = Cardinality(Mapped(m)') /\ page_count' \in [Space -> Nat]
       /\ \A n \in Space : n # m => pte'[n] = pte[n] /\ page_count'[n] = page_count[n]
  BY <1>1, <1>8, <1>10, PageMore, ZenonT(30)
<1>12. /\ op'.why = op.why /\ op'.p = op.p /\ op'.m = m /\ op'.r = r /\ op'.vma = op.vma
       /\ op'.v = w + 1
       /\ op' \in [why : {"idle", "boot", "fork", "exec", "load"}, p : Proc \cup {NULL},
                   m : Space \cup {NULL}, r : Nat, vma : Vma \cup {NULL}, v : Int]
  <2>1. w + 1 \in Int
    BY <1>6
  <2> QED BY <2>1, <1>1, <1>3, <1>4, <1>10, ZenonT(30) DEF MmType
<1>13. MmType'
  <2>1. pte' \in [Space -> [VPage -> Frame \cup {NULL}]]
    BY <1>1, <1>10, ZenonT(30) DEF MmType
  <2> QED BY <2>1, <1>1, <1>10, <1>11, <1>12, ZenonT(30) DEF MmType
<1>14. SpacesInv'
  <2>1. ASSUME NEW n \in Space
        PROVE  /\ n \notin mm_used' => /\ cr3_phys'[n] = NULL /\ pde'[n] = Blank
                                       /\ pte'[n] = Empty /\ vma_head'[n] = <<>>
               /\ \A v \in VPage : pte'[n][v] # NULL => pde'[n][Pdi(v)] # NULL
               /\ page_count'[n] = Cardinality(Mapped(n)')
    <3>1. CASE n = m
      <4>1. \A v \in VPage : pte'[m][v] # NULL => pde'[m][Pdi(v)] # NULL
        <5>1. ASSUME NEW v \in VPage, pte'[m][v] # NULL PROVE pde'[m][Pdi(v)] # NULL
          <6>1. CASE v = w
            BY <6>1, <1>10, Zenon
          <6>2. CASE v # w
            <7>1. pte \in [Space -> [VPage -> Frame \cup {NULL}]] /\ pte' = [pte EXCEPT ![m][w] = f]
              BY <1>1, <1>10, Zenon DEF MmType
            <7>2. pte'[m][v] = pte[m][v]
              BY <6>2, <7>1
            <7>3. Pdi(v) \in Dir
              BY Numbers, Zenon
            <7>4. pde[m][Pdi(v)] # NULL
              BY <7>2, <5>1, <1>1, Zenon DEF SpacesInv
            <7> QED BY <7>3, <7>4, <1>10, Zenon
          <6> QED BY <6>1, <6>2, Zenon
        <5> QED BY <5>1, Zenon
      <4>2. m \in mm_used' /\ page_count'[m] = Cardinality(Mapped(m)')
        BY <1>3, <1>10, <1>11, Zenon
      <4> QED BY <3>1, <4>1, <4>2, Zenon
    <3>2. CASE n # m
      <4>1. Mapped(n)' = Mapped(n) /\ pde'[n] = pde[n] /\ pte'[n] = pte[n]
        BY <3>2, <1>10, <1>11, Zenon DEF Mapped
      <4>2. /\ mm_used' = mm_used /\ cr3_phys' = cr3_phys /\ vma_head' = vma_head
            /\ page_count'[n] = page_count[n]
        BY <3>2, <1>10, <1>11, Zenon
      <4> QED BY <4>1, <4>2, <1>1, Zenon DEF SpacesInv
    <3> QED BY <3>1, <3>2, ZenonT(30)
  <2> QED BY <2>1, ZenonT(30) DEF SpacesInv
<1>15. VmasInv'
  BY <1>1, <1>10, <1>12, VmasSame, ZenonT(30)
<1>16. OwnersInv' /\ UserDesc' /\ FreshDesc'
  BY <1>2, <1>10, <1>11, <1>3, <1>12, WorkInv, Zenon DEF Mapping
<1>17. OpInv'
  <2>1. op.why \in {"exec", "load"}
    BY <1>2, Zenon DEF Mapping
  <2>2. Mapping' /\ region'[op'.vma] = LAYOUT[r]
    BY <1>1, <1>2, <1>10, <1>12, ZenonT(30) DEF Mapping, OpInv
  <2>3. LAYOUT[r][1] <= w + 1 /\ w + 1 <= LAYOUT[r][2] + 1
    BY <1>5, <1>6
  <2>4. UNCHANGED <<status, addr_space, current>>
    BY <1>10, ZenonT(30)
  <2> QED BY <2>1, <2>2, <2>3, <2>4, <1>1, <1>3, <1>4, <1>12, ZenonT(30) DEF OpInv, InUser
<1>18. MapDesc'
  <2>1. vma_head' = vma_head /\ region' = region
    BY <1>10, ZenonT(30)
  <2>2. ASSUME NEW v \in Int
        PROVE  v \in Mapped(m)' <=> InVma(m, v) \/ (LAYOUT[r][1] <= v /\ v < w + 1)
    <3>1. v \in Mapped(m)' <=> v \in Mapped(m) \/ v = w
      BY <1>11, ZenonT(30)
    <3>2. LAYOUT[r][1] <= v /\ v < w + 1 <=> (LAYOUT[r][1] <= v /\ v < w) \/ v = w
      BY <1>5, <1>6
    <3> QED BY <3>1, <3>2, <1>7, ZenonT(30)
  <2>3. Ordered(m)' /\ \A v \in Int : InVma(m, v)' <=> InVma(m, v)
    BY <2>1, <1>3, ZenonT(30) DEF Described, Ordered, InVma
  <2>4. Described(m)'
    BY <2>2, <2>3, <1>2, <1>12, ZenonT(30) DEF Described
  <2>5. \A i \in DOMAIN vma_head[m] : \E k \in DOMAIN LAYOUT :
           k < r /\ region[vma_head[m][i]] = LAYOUT[k]
    BY <1>2, <1>3, <1>4, Zenon DEF MmInv, DescInv, MapDesc, Mapping
  <2> QED BY <2>1, <2>4, <2>5, <1>12, Zenon DEF MapDesc
<1>19. CloneDesc'
  BY <1>2, <1>12, Zenon DEF CloneDesc, Cloning, Mapping
<1> QED BY <1>10, <1>13, <1>14, <1>15, <1>16, <1>17, <1>18, <1>19, ZenonT(30) DEF MmInv, DescInv

\* A failed clone or fork, undone.
LEMMA CloneFailsInv ==
  ASSUME Known, MmInv, Cloning, CloneFails, kernel' = kernel
  PROVE  MmInv'
  BY ForkSpaces, FailInv, Zenon DEF Cloning, CloneFails, procVars

\* A region that could not be mapped: execve undoes it, the loader's thread dies.
LEMMA MapFailsInv ==
  ASSUME Known, MmInv, Mapping, MapFails, kernel' = kernel
  PROVE  MmInv'
  BY FailInv, EndInv, Zenon DEF MapFails, Mapping, tableVars, MmInv, OpInv

\* The clone describes what was cloned.
LEMMA CloneDescribed ==
  ASSUME MmInv, Cloning, Copied, Len(vma_head[op.m]) = Len(vma_head[Old])
  PROVE  Described(op.m)
<1>1. PICK m \in Space : m = op.m
  BY ForkSpaces, ZenonT(30)
<1>2. PICK o \in Space : o = Old /\ m # o
  BY <1>1, ForkSpaces, Zenon
<1>3. Described(o) /\ op.vma = NULL
  BY <1>2, ForkSpaces, ZenonT(30)
<1>4. /\ Mapped(m) \subseteq Mapped(o)
      /\ \A i \in DOMAIN vma_head[m] : region[vma_head[m][i]] = region[vma_head[o][i]]
  BY <1>1, <1>2, ZenonT(30) DEF MmInv, DescInv, CloneDesc
<1>5. Mapped(o) \subseteq Mapped(m)
  BY Numbers, <1>1, <1>2, Zenon DEF MmInv, SpacesInv, Copied, TablesLeft, PagesLeft, Mapped
<1>6. DOMAIN vma_head[m] = DOMAIN vma_head[o]
  BY <1>1, <1>2
<1> QED BY <1>1, <1>3, <1>4, <1>6, <1>5, Zenon DEF Described, Ordered, InVma

\* fork ends: the child takes its space, or the clone is destroyed.
LEMMA ForkDoneInv ==
  ASSUME Known, MmInv, ForkDone, kernel' = kernel
  PROVE  MmInv'
  BY CloneFailsInv, CloneDescribed, SettleInv, Zenon DEF ForkDone, poolVars, tableVars, Cloning

\* kmain's process takes its empty space.
LEMMA BootDoneInv ==
  ASSUME MmInv, BootDone, kernel' = kernel
  PROVE  MmInv'
  BY SettleInv, Zenon DEF BootDone, poolVars, tableVars

\* The first program is mapped into the space of its process.
LEMMA LoadDoneInv ==
  ASSUME MmInv, LoadDone, kernel' = kernel
  PROVE  MmInv'
<1>1. /\ status' = [status EXCEPT ![op.p] = "user"] /\ op' = Idle /\ vma_used' = vma_used
      /\ UNCHANGED <<free, kernel, mm_used, cr3_phys, addr_space>>
      /\ UNCHANGED <<pde, pte, page_count, vma_head, region, current>>
  BY ZenonT(30) DEF LoadDone, poolVars, tableVars
<1>2. op.why = "load" /\ op.r > Len(LAYOUT) /\ op.r \in Nat /\ Len(LAYOUT) \in Nat
  BY DEF LoadDone, MmInv, MmType
<1>3. ~Mapping
  BY <1>2 DEF Mapping
<1>4. op.vma = NULL
  BY <1>3, NoVma, ZenonT(30) DEF MmInv
<1>5. vma_used' = vma_used \ {op.vma}
  <2>1. NULL \notin vma_used
    BY Numbers, Zenon DEF MmInv, MmType
  <2>2. vma_used \ {NULL} = vma_used
    BY <2>1, Zenon
  <2> QED BY <2>2, <1>1, <1>4, ZenonT(30)
<1> QED BY <1>1, <1>2, <1>4, <1>5, EndInv, Zenon DEF MmInv, OpInv

\* A process exits and keeps its space until it is reaped.
LEMMA ExitInv ==
  ASSUME MmInv, Exit, kernel' = kernel
  PROVE  MmInv'
<1>1. /\ status' = [status EXCEPT ![current] = "dead"] /\ op' = op /\ vma_used' = vma_used
      /\ UNCHANGED <<free, kernel, mm_used, cr3_phys, addr_space>>
      /\ UNCHANGED <<pde, pte, page_count, vma_head, region, current>>
  BY ZenonT(30) DEF Exit, poolVars, tableVars
<1>2. op = Idle /\ op.why = "idle" /\ op.vma = NULL
  BY Zenon DEF Exit, Idle
<1>3. vma_used' = vma_used \ {op.vma}
  <2>1. NULL \notin vma_used
    BY Numbers, Zenon DEF MmInv, MmType
  <2> QED BY <1>1, <1>2, <2>1, Zenon
<1> QED BY <1>1, <1>3, EndInv, <1>2, Zenon DEF Exit, InUser, MmInv, MmType

\* Every step keeps it.
LEMMA NextInv ==
  ASSUME Known, MmInv, Next
  PROVE  MmInv'
<1>1. kernel' = kernel
  BY ZenonT(30) DEF Next
<1>2. CASE _execve
  BY <1>2, <1>1, BeginInv, Zenon DEF _execve, InUser, MmInv, MmType
<1>3. CASE syscall_test
  BY <1>3, <1>1, BeginInv, Zenon DEF syscall_test, MmInv, MmType
<1>4. CASE mm_create
  BY <1>1, <1>4, CreateInv, ZenonT(30)
<1>5. CASE BootDone
  BY <1>1, <1>5, BootDoneInv, ZenonT(30)
<1>6. CASE CloneTable
  BY <1>1, <1>6, CloneFailsInv, CloneTableInv, Zenon DEF CloneTable
<1>7. CASE ClonePage
  BY <1>1, <1>7, CloneFailsInv, ClonePageInv, Zenon DEF ClonePage
<1>8. CASE CloneVma
  BY <1>8, <1>1, CloneFailsInv, CloneVmaInv, Zenon DEF CloneVma
<1>9. CASE ForkDone
  BY <1>1, <1>9, ForkDoneInv, ZenonT(30)
<1>10. CASE MapVma
  BY <1>10, <1>1, MapFailsInv, MapVmaInv, Zenon DEF MapVma
<1>11. CASE MapPage
  BY <1>11, <1>1, MapFailsInv, MapPageInv, Zenon DEF MapPage
<1>12. CASE MapDone
  BY <1>1, <1>12, MapDoneInv, ZenonT(30)
<1>13. CASE LoadDone
  BY <1>1, <1>13, LoadDoneInv, ZenonT(30)
<1>14. CASE ExecDone
  BY <1>1, <1>14, ExecDoneInv, ZenonT(30)
<1>15. CASE Exit
  BY <1>1, <1>15, ExitInv, ZenonT(30)
<1>16. ASSUME NEW p \in Proc, KmainProcAlloc(p) \/ _fork(p) \/ Switch(p) \/ proc_free(p)
       PROVE  MmInv'
  BY <1>1, BeginInv, SwitchInv, ProcFreeInv, <1>16, Zenon DEF KmainProcAlloc, _fork
<1> QED
  BY <1>2, <1>3, <1>4, <1>5, <1>6, <1>7, <1>8, <1>9, <1>10, <1>11, <1>12, <1>13, <1>14, <1>15,
     <1>16, ZenonT(30)
     DEF Next

\* A step that changes nothing keeps it.
LEMMA StutterInv ==
  ASSUME MmInv, UNCHANGED vars
  PROVE  MmInv'
<1>1. /\ UNCHANGED <<free, kernel, mm_used, cr3_phys, vma_used, pde, pte, page_count>>
      /\ UNCHANGED <<vma_head, region, status, addr_space, current, op>>
  BY ZenonT(30) DEF vars, poolVars, tableVars, procVars
<1>2. MmType'
  BY <1>1, ZenonT(30) DEF MmInv, MmType
<1>3. FramesInv'
  BY <1>1, ZenonT(30) DEF held, MmInv, FramesInv
<1>4. OwnersInv' /\ VmasInv' /\ OpInv'
  BY <1>1 DEF MmInv, OwnersInv, Building, VmasInv, OpInv, InUser, Mapping
<1>5. \A n : (Mapped(n)' = Mapped(n)) /\ (Described(n)' <=> Described(n)) /\ (Fresh(n)' <=> Fresh(n))
  BY <1>1 DEF Mapped, Ordered, InVma, Described, Fresh
<1>6. UserDesc' /\ FreshDesc'
  BY <1>1, <1>5, ZenonT(30) DEF MmInv, DescInv, UserDesc, FreshDesc
<1>7. MapDesc'
  BY <1>1, <1>5, ZenonT(30) DEF MmInv, DescInv, MapDesc
<1>8. CloneDesc'
  BY <1>1, <1>5, ZenonT(30) DEF MmInv, DescInv, CloneDesc, Cloning, Old
<1> QED BY <1>2, <1>3, <1>4, <1>6, <1>7, <1>8, <1>1, Zenon DEF MmInv, DescInv, SpacesInv, Mapped

-----------------------------------------------------------------------------
(* What a step does to a space that is not under work.                      *)

\* What the list of a space in user mode describes is what is mapped.
LEMMA UserSpace ==
  ASSUME MmInv, NEW p \in Proc, status[p] = "user"
  PROVE  LET m    == addr_space[p]
             list == vma_head[m]
         IN /\ {v \in VPage : pte[m][v] # NULL}
                 = UNION {region[list[i]][1] .. region[list[i]][2] : i \in DOMAIN list}
            /\ \A i, j \in DOMAIN list : i < j => region[list[i]][2] < region[list[j]][1]
            /\ page_count[m] = Cardinality({v \in VPage : pte[m][v] # NULL})
<1>1. PICK m \in Space : m = addr_space[p] /\ op.m # m
  BY UserApart, Zenon
<1>2. Described(m)
  BY <1>1, Zenon DEF MmInv, DescInv, UserDesc
<1> DEFINE list == vma_head[m]
           lo(i) == region[list[i]][1]
           hi(i) == region[list[i]][2]
<1>3. \A i, j \in DOMAIN list : i < j => hi(i) < lo(j)
  BY <1>2, Zenon DEF Described, Ordered
<1>4. \A v \in Int : v \in Mapped(m) <=> \E i \in DOMAIN list : lo(i) <= v /\ v <= hi(i)
  BY <1>1, <1>2, ZenonT(30) DEF Described, InVma
<1>5. \A i \in DOMAIN list : lo(i) \in Int /\ hi(i) \in Int
  <2>1. ASSUME NEW i \in DOMAIN list PROVE region[list[i]] \in Int \X Int
    BY DEF MmInv, MmType
  <2> QED BY <2>1, Zenon
<1>6. Mapped(m) \subseteq Int
  <2>1. Nat \subseteq Int
    OBVIOUS
  <2> QED BY <2>1, Numbers, Zenon DEF Mapped
<1> HIDE DEF list, lo, hi
<1>7. page_count[m] = Cardinality(Mapped(m))
  BY Zenon DEF MmInv, SpacesInv
<1> QED BY <1>1, <1>3, <1>7, <1>4, <1>5, <1>6 DEF list, lo, hi, Mapped

\* Space n stays as it is.
Untouched(n) ==
  /\ cr3_phys'[n] = cr3_phys[n] /\ pde'[n] = pde[n] /\ pte'[n] = pte[n]
  /\ vma_head'[n] = vma_head[n]
  /\ \A i \in DOMAIN vma_head[n] : region'[vma_head[n][i]] = region[vma_head[n][i]]

\* At most space m changes, and no vma in use.
Touches(m) ==
  /\ \A n \in Space : n # m => /\ cr3_phys'[n] = cr3_phys[n] /\ pde'[n] = pde[n]
                               /\ pte'[n] = pte[n] /\ vma_head'[n] = vma_head[n]
  /\ \A a \in vma_used : region'[a] = region[a]

\* What touches one space leaves the others alone.
LEMMA OthersUntouched ==
  ASSUME MmInv, NEW n \in Space, NEW m, m # n, Touches(m)
  PROVE  Untouched(n)
  BY Zenon DEF MmInv, VmasInv, Range, Touches, Untouched

\* mm_destroy touches the space it destroys.
LEMMA DestroyTouches ==
  ASSUME MmInv, NEW m, NEW extra, mm_destroy(m, extra), region' = region
  PROVE  Touches(m)
  BY Zenon DEF mm_destroy, Touches, MmInv, MmType

\* A step changes one space at most: the one under work or one that ends.
LEMMA StepTouches ==
  ASSUME Known, MmInv, Next
  PROVE  \/ Touches(NULL)
         \/ Touches(op.m) /\ op.m # NULL
         \/ \E m \in Space \ mm_used : Touches(m)
         \/ ExecDone /\ Touches(Old)
         \/ \E c \in Proc : status[c] = "dead" /\ Touches(addr_space[c])
<1>1. /\ cr3_phys \in [Space -> Frame \cup {NULL}]
      /\ pde \in [Space -> [Dir -> Frame \cup {NULL}]]
      /\ pte \in [Space -> [VPage -> Frame \cup {NULL}]]
      /\ vma_head \in [Space -> Seq(Vma)] /\ region \in [Vma -> Int \X Int]
  BY Zenon DEF MmInv, MmType
<1>2. UNCHANGED <<cr3_phys, pde, pte, vma_head, region>> => Touches(NULL)
  BY ZenonT(30) DEF Touches
<1>3. CASE \/ _execve \/ syscall_test \/ BootDone \/ LoadDone \/ Exit
           \/ \E p \in Proc : KmainProcAlloc(p) \/ _fork(p) \/ Switch(p)
  <2>1. UNCHANGED <<cr3_phys, pde, pte, vma_head, region>>
    BY <1>3, ZenonT(30)
       DEF _execve, syscall_test, BootDone, LoadDone, Exit, KmainProcAlloc, _fork, Switch, Begin,
           poolVars, tableVars
  <2> QED BY <2>1, <1>2, ZenonT(30)
<1>4. CASE mm_create
  BY <1>4, Pools, <1>1, Zenon DEF CreateFails, mm_create, poolVars, tableVars, MmInv, Touches
<1>5. CASE CloneTable \/ ClonePage \/ CloneVma \/ ForkDone
  <2>1. CASE ~CloneFails
    <3>1. CASE CloneTable
      <4>1. /\ pde' = [pde EXCEPT ![op.m][Min(TablesLeft)] = Min(free)]
            /\ UNCHANGED <<cr3_phys, pte, vma_head, region>>
        BY <3>1, <2>1, ZenonT(30) DEF CloneTable, poolVars
      <4> QED BY <4>1 DEF Touches
    <3>2. CASE ClonePage
      BY <1>1, <3>2, <2>1, Zenon DEF Touches, ClonePage, poolVars
    <3>3. CASE CloneVma
      <4>1. PICK reg, k : /\ vma_used # Vma
                          /\ region' = [region EXCEPT ![Min(Vma \ vma_used)] = reg]
                          /\ vma_head' = [vma_head EXCEPT ![op.m] = k]
                          /\ UNCHANGED <<cr3_phys, pde, pte>>
        BY <3>3, <2>1, ZenonT(30) DEF CloneVma, vma_insert, tableVars
      <4> QED BY <4>1, Pools, Zenon DEF Touches, MmInv, MmType
    <3> QED BY <1>5, <3>1, <3>2, <3>3, <2>1, <1>2, Zenon DEF ForkDone, poolVars, tableVars
  <2> QED BY <2>1, DestroyTouches, Zenon DEF CloneFails
<1>6. CASE MapVma \/ MapPage \/ MapDone
  <2>1. CASE ~MapFails
    <3>1. CASE MapPage
      BY <3>1, <2>1, <1>1 DEF MapPage, poolVars, Touches
    <3>2. CASE MapDone
      BY <3>2, <1>1, Zenon DEF MapDone, vma_insert, poolVars, tableVars, Touches
    <3> QED BY <1>6, <3>1, <3>2, <2>1, Pools, Zenon DEF MapVma, tableVars, MmInv, MmType, Touches
  <2> QED BY <2>1, DestroyTouches, <1>2, Zenon DEF MapFails, tableVars
<1>7. ASSUME NEW c \in Proc, proc_free(c)
      PROVE  status[c] = "dead" /\ Touches(addr_space[c])
  BY <1>7, DestroyTouches, Zenon DEF proc_free
<1> QED BY <1>3, <1>4, <1>5, <1>6, <1>7, DestroyTouches, Zenon DEF Next, ExecDone

\* No step touches the space of a user process that keeps it.
LEMMA StepIsolated ==
  ASSUME Known, MmInv, Next, NEW p \in Proc, status[p] = "user", addr_space'[p] = addr_space[p]
  PROVE  Untouched(addr_space[p])
<1>1. PICK n \in Space : n = addr_space[p] /\ op.m # n /\ n \in mm_used
  BY UserApart, ZenonT(30)
<1>2. /\ n # NULL
      /\ \A q \in Proc : addr_space[q] = n => q = p
  BY <1>1, OwnSpace, ZenonT(30) DEF MmInv
<1>3. CASE ExecDone /\ Touches(Old)
  BY <1>3, <1>1, <1>2, OthersUntouched, Zenon DEF ExecDone, MmInv, MmType, OpInv, Old
<1> QED BY <1>1, <1>3, StepTouches, OthersUntouched, <1>2, Zenon

-----------------------------------------------------------------------------
(* What the invariant says of numbers of users: of a frame, of a space and  *)
(* of a vma.                                                                *)

\* A set with no element has 0, with one element 1; and a list of vmas without
\* duplicates is no longer than the pool.
Sized ==
  /\ \A S : S = {} => Cardinality(S) = 0
  /\ \A S, e : S = {e} => Cardinality(S) = 1
Fits == \A s \in Seq(Vma) : IsInjective(s) => DOMAIN s \subseteq Vma

\* A frame in use has one holder: a directory, a table or a page.
LEMMA FramesCount ==
  ASSUME Sized, MmInv, NEW f \in Frame
  PROVE  Cardinality({m \in Space : cr3_phys[m] = f})
           + Cardinality({x \in Space \X Dir : pde[x[1]][x[2]] = f})
           + Cardinality({x \in Space \X VPage : pte[x[1]][x[2]] = f})
         = IF f \in free \cup kernel THEN 0 ELSE 1
<1> DEFINE A == {m \in Space : cr3_phys[m] = f}
           B == {x \in Space \X Dir : pde[x[1]][x[2]] = f}
           C == {x \in Space \X VPage : pte[x[1]][x[2]] = f}
<1>1. /\ \A x, y \in Place : held[x] = f /\ held[y] = f => x = y
      /\ f \in free \cup kernel <=> \A x \in Place : held[x] # f
  BY Numbers, Zenon DEF MmInv, FramesInv, Owned
<1>2. /\ \A m \in A : <<0, m, 0>> \in Place /\ held[<<0, m, 0>>] = f
      /\ \A x \in B : <<1, x[1], x[2]>> \in Place /\ held[<<1, x[1], x[2]>>] = f
                      /\ x = <<x[1], x[2]>>
      /\ \A x \in C : <<2, x[1], x[2]>> \in Place /\ held[<<2, x[1], x[2]>>] = f
                      /\ x = <<x[1], x[2]>>
  BY HeldAt
<1>3. CASE f \in free \cup kernel
  <2>1. A = {} /\ B = {} /\ C = {}
    BY <1>1, <1>2, <1>3, ZenonT(30)
  <2> HIDE DEF A, B, C
  <2>2. Cardinality(A) = 0 /\ Cardinality(B) = 0 /\ Cardinality(C) = 0
    BY <2>1, Zenon DEF Sized
  <2>3. Cardinality(A) + Cardinality(B) + Cardinality(C) = 0
    BY <2>2
  <2> QED BY <1>3, <2>3, Zenon DEF A, B, C
<1>4. CASE f \notin free \cup kernel
  <2>1. PICK x \in Place : held[x] = f
    BY <1>1, <1>4, ZenonT(30)
  <2>2. \A a, b, c : x = <<a, b, c>> => x[1] = a /\ x[2] = b /\ x[3] = c
    OBVIOUS
  <2>3. /\ \A m \in A : x[1] = 0 /\ x[2] = m
        /\ \A y \in B : x[1] = 1 /\ y = <<x[2], x[3]>>
        /\ \A y \in C : x[1] = 2 /\ y = <<x[2], x[3]>>
    <3>1. /\ \A m \in A : x = <<0, m, 0>>
          /\ \A y \in B : x = <<1, y[1], y[2]>> /\ y = <<y[1], y[2]>>
          /\ \A y \in C : x = <<2, y[1], y[2]>> /\ y = <<y[1], y[2]>>
      BY <1>1, <1>2, <2>1, ZenonT(30)
    <3> HIDE DEF A, B, C
    <3> QED BY <3>1
  <2>4. 0 # 1 /\ 0 # 2 /\ 1 # 2
    OBVIOUS
  <2> HIDE DEF A, B, C
  <2>5. \/ Cardinality(A) = 1 /\ Cardinality(B) = 0 /\ Cardinality(C) = 0
        \/ Cardinality(A) = 0 /\ Cardinality(B) = 1 /\ Cardinality(C) = 0
        \/ Cardinality(A) = 0 /\ Cardinality(B) = 0 /\ Cardinality(C) = 1
    <3>1. CASE x[2] \in Space /\ x = <<0, x[2], 0>>
      <4>1. \A y \in A : y = x[2]
        BY <2>3, ZenonT(30)
      <4>2. A = {x[2]}
        <5>1. x[2] \in A
          BY <2>1, <3>1, HeldAt, Zenon DEF A
        <5> QED BY <4>1, <5>1, Zenon
      <4> QED BY <4>2, <2>3, <2>4, Zenon DEF Sized
    <3>2. CASE x[2] \in Space /\ x[3] \in Dir /\ x = <<1, x[2], x[3]>>
      <4>1. <<x[2], x[3]>> \in B
        <5>1. pde[x[2]][x[3]] = f
          BY <2>1, <3>2, HeldAt
        <5> QED BY <5>1, <3>2 DEF B
      <4>2. A = {} /\ C = {}
        BY <2>2, <2>3, <2>4, <3>2, ZenonT(30)
      <4>3. B = {<<x[2], x[3]>>}
        BY <4>1, <2>3, Zenon
      <4> QED BY <4>2, <4>3, Zenon DEF Sized
    <3>3. CASE x[2] \in Space /\ x[3] \in VPage /\ x = <<2, x[2], x[3]>>
      <4>1. <<x[2], x[3]>> \in C
        <5>1. pte[x[2]][x[3]] = f
          BY <2>1, <3>3, HeldAt
        <5> QED BY <5>1, <3>3 DEF C
      <4>2. C = {<<x[2], x[3]>>}
        BY <4>1, <2>3, Zenon
      <4> QED BY <4>2, <2>2, <2>3, <2>4, <3>3, Zenon DEF Sized
    <3> QED BY <3>1, <3>2, <3>3, HeldAt, ZenonT(30)
  <2> HIDE DEF A, B, C
  <2>6. Cardinality(A) + Cardinality(B) + Cardinality(C) = 1
    BY <2>5
  <2> QED BY <2>6, <1>4, ZenonT(30) DEF A, B, C
<1> QED BY <1>3, <1>4, ZenonT(30)

\* A space in use has one owner.
LEMMA SpacesCount ==
  ASSUME Sized, MmInv, NEW m \in Space
  PROVE  Cardinality({p \in Proc : addr_space[p] = m})
           + (IF op.m = m /\ op.why # "load" THEN 1 ELSE 0)
         = IF m \in mm_used THEN 1 ELSE 0
<1> DEFINE P == {p \in Proc : addr_space[p] = m}
<1>0. 0 + 0 = 0 /\ 0 + 1 = 1 /\ 1 + 0 = 1
  OBVIOUS
<1>1. m # NULL
  BY Numbers, ZenonT(30)
<1>2. op.m = m /\ op.why # "load" <=> Building /\ op.m = m
  BY <1>1 DEF MmInv, OpInv, Idle, MmType, Building
<1>3. CASE Building /\ op.m = m
  <2>1. m \in mm_used /\ P = {}
    BY <1>3, Zenon DEF MmInv, OwnersInv
  <2>2. Cardinality(P) = 0
    BY <2>1, Zenon DEF Sized
  <2> HIDE DEF P
  <2> QED BY <2>1, <2>2, <1>0, <1>2, <1>3, Zenon DEF P
<1>4. CASE ~(Building /\ op.m = m)
  <2>1. CASE m \in mm_used
    <3>1. PICK p \in Proc : addr_space[p] = m
      BY <1>4, <2>1, ZenonT(30) DEF MmInv, OwnersInv
    <3>2. P = {p}
      BY <3>1, <1>1, ZenonT(30) DEF MmInv, OwnersInv
    <3>3. Cardinality(P) = 1
      BY <3>2, Zenon DEF Sized
    <3> HIDE DEF P
    <3> QED BY <2>1, <3>3, <1>0, <1>2, <1>4, Zenon DEF P
  <2>2. CASE m \notin mm_used
    <3>1. P = {}
      BY <2>2, <1>1, Zenon DEF MmInv, OwnersInv
    <3>2. Cardinality(P) = 0
      BY <3>1, Zenon DEF Sized
    <3> HIDE DEF P
    <3> QED BY <2>2, <3>2, <1>0, <1>2, <1>4, Zenon DEF P
  <2> QED BY <2>1, <2>2, ZenonT(30)
<1> QED BY <1>3, <1>4, ZenonT(30)

\* A vma in use is on one list.
LEMMA VmasCount ==
  ASSUME Sized, Fits, MmInv, NEW a \in Vma
  PROVE  Cardinality({x \in Space \X Vma : x[2] \in DOMAIN vma_head[x[1]]
                                           /\ vma_head[x[1]][x[2]] = a})
           + (IF op.vma = a THEN 1 ELSE 0)
         = IF a \in vma_used THEN 1 ELSE 0
<1> DEFINE X == {x \in Space \X Vma : x[2] \in DOMAIN vma_head[x[1]] /\ vma_head[x[1]][x[2]] = a}
<1>0. 0 + 0 = 0 /\ 0 + 1 = 1 /\ 1 + 0 = 1
  OBVIOUS
<1>1. \A x \in X : x[1] \in Space /\ a \in Range(vma_head[x[1]])
  BY ZenonT(30) DEF Range
<1>2. CASE op.vma = a
  <2>1. a \in vma_used /\ \A m \in Space : a \notin Range(vma_head[m])
    BY <1>2, Numbers, Zenon DEF MmInv, VmasInv
  <2> HIDE DEF X
  <2>2. X = {}
    BY <2>1, <1>1, Zenon
  <2>3. Cardinality(X) = 0
    BY <2>2, Zenon DEF Sized
  <2> QED BY <2>1, <2>3, <1>0, <1>2, Zenon DEF X
<1>3. CASE op.vma # a
  <2>1. CASE a \in vma_used
    <3>1. PICK m \in Space : a \in Range(vma_head[m])
      BY <1>3, <2>1, Zenon DEF MmInv, VmasInv
    <3>2. PICK i \in DOMAIN vma_head[m] : vma_head[m][i] = a
      BY <3>1, ZenonT(30) DEF Range
    <3>3. vma_head[m] \in Seq(Vma) /\ IsInjective(vma_head[m])
      BY ZenonT(30) DEF MmInv, MmType, VmasInv
    <3>4. ASSUME NEW x \in X PROVE x = <<m, i>>
      <4>0. x \in Space \X Vma
        BY Zenon
      <4>1. x[1] \in Space /\ a \in Range(vma_head[x[1]])
        BY <1>1, Zenon
      <4>2. x[1] = m
        BY <4>1, <3>1, Zenon DEF MmInv, VmasInv
      <4>3. x[2] \in DOMAIN vma_head[m] /\ vma_head[m][x[2]] = a
        BY <4>2, Zenon
      <4>4. x[2] = i
        BY <4>3, <3>2, <3>3, Zenon DEF IsInjective
      <4>5. x = <<x[1], x[2]>>
        BY <4>0
      <4> QED BY <4>2, <4>4, <4>5, Zenon
    <3>5. X = {<<m, i>>}
      <4>1. i \in Vma
        BY <3>2, <3>3, Zenon DEF Fits
      <4>2. <<m, i>> \in X
        BY <4>1, <3>2
      <4> QED BY <3>4, <4>2, Zenon
    <3>6. Cardinality(X) = 1
      BY <3>5, Zenon DEF Sized
    <3> HIDE DEF X
    <3> QED BY <2>1, <3>6, <1>0, <1>3, Zenon DEF X
  <2>2. CASE a \notin vma_used
    <3>1. X = {}
      BY <1>1, <2>2, Zenon DEF MmInv, VmasInv
    <3>2. Cardinality(X) = 0
      BY <3>1, Zenon DEF Sized
    <3> HIDE DEF X
    <3> QED BY <2>2, <3>2, <1>0, <1>3, Zenon DEF X
  <2> QED BY <2>1, <2>2, Zenon
<1> QED BY <1>2, <1>3, ZenonT(30)

-----------------------------------------------------------------------------
(* What the library gives, and the invariant of every behaviour.            *)

INSTANCE WellFoundedInduction

\* Every non-empty set of numbers has a least one.
LEMMA LeastNumber == WellOrdered
<1> SUFFICES ASSUME NEW S \in SUBSET Nat, S # {}
             PROVE  \E x \in S : \A y \in S : x <= y
  BY Zenon DEF WellOrdered
<1>1. PICK x \in S : \A y \in S : ~(<<y, x>> \in OpToRel(<, Nat))
  BY WFMin, NatLessThanWellFounded, ZenonT(30)
<1>2. \A y \in S : ~(y < x)
  BY <1>1, ZenonT(30) DEF OpToRel
<1> QED BY <1>2

INSTANCE FiniteSetTheorems

\* The size of a set grows by one with each new element.
LEMMA SizeGrows == ASSUME NEW T, IsFiniteSet(T) PROVE Counting(T)
  BY FS_Subset, FS_CardinalityType, FS_AddElement, FS_EmptySet, Zenon DEF Counting

\* The facts on least elements and sizes that the steps assume.
LEMMA Libraries == Known
<1>1. IsFiniteSet(1 .. FRAMES) /\ IsFiniteSet(0 .. USER_PAGES - 1)
  <2>1. 0 \in Int /\ 1 \in Int /\ FRAMES \in Int /\ USER_PAGES - 1 \in Int
    BY LayoutAssumption
  <2> QED BY <2>1, FS_Interval, Zenon
<1> QED BY <1>1, LeastNumber, SizeGrows, Zenon DEF Frame, VPage, Known

\* The sizes of an empty set and of a singleton.
LEMMA Sizes == Sized
  BY FS_EmptySet, FS_Singleton, ZenonT(30) DEF Sized

\* A list of vmas without repetitions is no longer than there are vmas.
LEMMA ListFits == Fits
<1> SUFFICES ASSUME NEW s \in Seq(Vma), IsInjective(s) PROVE DOMAIN s \subseteq Vma
  BY Zenon DEF Fits
<1>1. DOMAIN s = 1 .. Len(s) /\ Len(s) \in Nat
  OBVIOUS
<1>2. Range(s) \subseteq Vma
  BY <1>1 DEF Range
<1>3. ExistsBijection(DOMAIN s, Range(s))
  BY DEF ExistsBijection, Bijection, Injection, Surjection, IsInjective, Range
<1>4. \A n \in Nat : IsFiniteSet(1 .. n) /\ Cardinality(1 .. n) = n
  <2>1. ASSUME NEW n \in Nat PROVE IsFiniteSet(1 .. n) /\ Cardinality(1 .. n) = n
    <3>1. /\ IsFiniteSet(1 .. n)
          /\ Cardinality(1 .. n) = IF 1 > n THEN 0 ELSE n - 1 + 1
      <4>1. 1 \in Int /\ n \in Int
        OBVIOUS
      <4> QED BY <4>1, FS_Interval, Zenon
    <3> QED BY <3>1
  <2> QED BY <2>1, Zenon
<1>5. IsFiniteSet(Vma) /\ Cardinality(Vma) = VMAS
  BY <1>4, LayoutAssumption, Zenon DEF Vma
<1>6. Len(s) <= VMAS
  <2>1. Cardinality(Range(s)) = Len(s)
    BY <1>1, <1>3, <1>4, FS_Bijection, Zenon
  <2> QED BY <2>1, <1>2, <1>5, FS_Subset, Zenon
<1> QED BY <1>1, <1>6, LayoutAssumption DEF Vma

\* The invariant holds in every reachable state.
THEOREM Invariant == Spec => []MmInv
<1>1. Init => MmInv
  BY Libraries, InitInv, ZenonT(30)
<1>2. MmInv /\ [Next]_vars => MmInv'
  BY Libraries, NextInv, StutterInv, ZenonT(30)
<1> QED BY <1>1, <1>2, PTL DEF Spec

-----------------------------------------------------------------------------
(* What the runs check, for every instance.                                 *)

\* Every frame that is neither free nor the kernel's is the directory, one table
\* or one page of one space, never two, after every success and every failure of
\* mm_create, mm_clone_user_eager, mm_map_region and execve and every
\* mm_destroy, for any number of frames and any layout.
THEOREM FramesNeverLost == Spec => []FramesAccounted
<1>1. MmInv => FramesAccounted
  BY FramesCount, Sizes, Zenon DEF MmInv, FramesInv, FramesAccounted
<1> QED BY <1>1, Invariant, PTL

\* Every allocated mm slot belongs to one process or is the one being built, and
\* every allocated vma is on one list or is the one being mapped.
THEOREM SlotsNeverLost == Spec => []SlotsAccounted
<1>1. MmInv => SlotsAccounted
  BY SpacesCount, VmasCount, Sizes, ListFits, ZenonT(30) DEF SlotsAccounted
<1> QED BY <1>1, Invariant, PTL

\* The pages a process in user mode can reach are those its vma list describes,
\* the list is sorted and free of overlaps, and page_count is their number: what
\* vma_insert, mm_map_region and mm_clone_user_eager build together.
THEOREM VmasDescribeSpaces == Spec => []SpacesDescribed
<1>1. MmInv => SpacesDescribed
  BY UserSpace, ZenonT(30) DEF SpacesDescribed
<1> QED BY <1>1, Invariant, PTL

\* No step changes the directory, the tables, the pages, the list or the regions
\* of a process in user mode that keeps its space: not another's fork, execve or
\* exit, and not its own fork or failed execve.
THEOREM SpacesStayApart == Spec => SpacesIsolated
<1> DEFINE Kept ==
      \A p \in Proc :
        status[p] = "user" /\ addr_space'[p] = addr_space[p] =>
          LET m == addr_space[p]
          IN /\ cr3_phys'[m] = cr3_phys[m] /\ pde'[m] = pde[m] /\ pte'[m] = pte[m]
             /\ vma_head'[m] = vma_head[m]
             /\ \A i \in DOMAIN vma_head[m] : region'[vma_head[m][i]] = region[vma_head[m][i]]
<1>1. MmInv /\ [Next]_vars => [Kept]_vars
  BY Libraries, StepIsolated, Zenon DEF Untouched
<1> QED BY <1>1, Invariant, PTL DEF Spec, SpacesIsolated
=============================================================================
