----------------------------- MODULE PmmProofs -----------------------------
(***************************************************************************)
(* The frame bitmap and the region table agree, for every memory size and  *)
(* every firmware map.  The invariants are not inductive as they stand:    *)
(* the region table must be finite and hold only non-empty spans, and the  *)
(* window loop must still need a frame while it runs, so that what it      *)
(* reserves is never an empty span.  The counter is wrong once a round has *)
(* reserved frames behind the bitmap; such a round leaves no frame for the *)
(* one it still needs, since no clear bit ever lies before the hint, so    *)
(* the boot halts and a running kernel has a counter that is right.        *)
(***************************************************************************)
EXTENDS Pmm, ListLemmas, FiniteSetTheorems

\* Every non-empty set of numbers has a least one.
LEMMA LeastNumber == WellOrdered
<1> SUFFICES ASSUME NEW S \in SUBSET Nat, S # {}
             PROVE  \E x \in S : \A y \in S : x <= y
  BY DEF WellOrdered
<1>1. PICK x \in S : \A y \in S : ~(<<y, x>> \in OpToRel(<, Nat))
  BY WFMin, NatLessThanWellFounded, Zenon
<1>2. \A y \in S : ~(y < x)
  BY <1>1, Zenon DEF OpToRel
<1> QED BY <1>2

PInv ==
  /\ TypeOK
  /\ IsFiniteSet(mem_regions) /\ RegionsSeparate
  /\ \A s \in pending : s[1] < s[2]
  /\ phase \in {"map", "window"} => remaining > 0
  /\ Running => \A r \in mem_regions : Touched(r) \subseteq used
  /\ AvailableExact
  /\ phase = "map" => frame_hint = LOW \div PAGE /\ WithinBitmap
  /\ phase = "window" => (\A f \in Unset : frame_hint <= f) /\ (WithinBitmap \/ Unset = {})
  /\ phase = "run" => WithinBitmap

\* The frames that bm_set_range_touched sets for a region, by rounding, are
\* those that pmm_is_region_reserved finds in it, by comparing addresses.
LEMMA TouchedLemma ==
  ASSUME NEW r \in Nat \X Nat, NEW f \in Frames
  PROVE  f \in Touched(r) <=> f * PAGE < r[2] /\ r[1] < (f + 1) * PAGE
<1>1. PAGE \in Nat \ {0} /\ f \in Nat /\ r[1] \in Nat /\ r[2] \in Nat
  BY MemoryAssumption DEF Frames
<1>2. r[1] \div PAGE <= f <=> r[1] < (f + 1) * PAGE
  BY <1>1
<1>3. f < (r[2] + PAGE - 1) \div PAGE <=> f * PAGE < r[2]
  BY <1>1
<1> QED BY <1>2, <1>3 DEF Touched

\* A search that wraps around from the hint finds a frame if there is one.
LEMMA FirstFromLemma ==
  ASSUME TypeOK, NEW S \in SUBSET Frames, S # {}
  PROVE  FirstFrom(S) \in S
<1> DEFINE at(k) == (frame_hint + k) % frame_count
           ks == {k \in Frames : at(k) \in S}
<1>1. frame_count \in Nat
  BY MemoryAssumption DEF frame_count
<1>2. PICK f \in S : TRUE
  OBVIOUS
<1>3. frame_hint \in 0 .. frame_count - 1 /\ f \in 0 .. frame_count - 1
  BY <1>2 DEF TypeOK, Frames
<1>4. \E k \in Frames : at(k) = f
  <2>1. CASE f >= frame_hint
    <3>1. f - frame_hint \in Frames /\ at(f - frame_hint) = f
      BY <1>1, <1>3, <2>1 DEF Frames
    <3> QED BY <3>1
  <2>2. CASE f < frame_hint
    <3>1. f - frame_hint + frame_count \in Frames /\ at(f - frame_hint + frame_count) = f
      BY <1>1, <1>3, <2>2 DEF Frames
    <3> QED BY <3>1
  <2> QED BY <1>3, <2>1, <2>2
<1>5. ks # {} /\ ks \in SUBSET Nat
  BY <1>2, <1>4 DEF Frames
<1>6. Min(ks) \in ks
  BY <1>5, LeastNumber, MinLemma
<1> QED BY <1>6 DEF FirstFrom

\* If none lies before the hint it finds the first of all.
LEMMA FirstFromLeast ==
  ASSUME TypeOK, NEW S \in SUBSET Frames, S # {}, \A f \in S : frame_hint <= f,
         NEW f \in S
  PROVE  FirstFrom(S) <= f
<1> DEFINE at(k) == (frame_hint + k) % frame_count
           ks == {k \in Frames : at(k) \in S}
<1>1. frame_count \in Nat
  BY MemoryAssumption DEF frame_count
<1>2. frame_hint \in 0 .. frame_count - 1 /\ f \in 0 .. frame_count - 1 /\ frame_hint <= f
  BY DEF TypeOK, Frames
<1>3. f - frame_hint \in Frames /\ at(f - frame_hint) = f
  BY <1>1, <1>2 DEF Frames
<1>4. f - frame_hint \in ks /\ ks # {} /\ ks \in SUBSET Nat
  BY <1>3 DEF Frames
<1>5. Min(ks) \in ks /\ \A y \in ks : Min(ks) <= y
  BY <1>4, LeastNumber, MinLemma
<1>6. Min(ks) \in Nat /\ Min(ks) <= f - frame_hint
  BY <1>4, <1>5
<1>7. FirstFrom(S) = at(Min(ks))
  BY DEF FirstFrom
<1> HIDE DEF ks
<1>8. at(Min(ks)) = frame_hint + Min(ks)
  BY <1>1, <1>2, <1>6
<1> QED BY <1>2, <1>6, <1>7, <1>8

\* A merged span holds what was asked for and every region it touches.
LEMMA MergedLemma ==
  ASSUME TypeOK, NEW s \in Nat \X Nat, s[1] < s[2], NEW m \in Merged(s)
  PROVE  /\ m \in Nat \X Nat /\ m[1] <= s[1] /\ s[2] <= m[2] /\ m[1] < m[2]
         /\ \A r \in mem_regions : Touch(m, r) => m[1] <= r[1] /\ r[2] <= m[2]
<1> DEFINE ends == {s[1], s[2]} \cup {r[1] : r \in mem_regions} \cup {r[2] : r \in mem_regions}
<1>1. \A r \in mem_regions : r[1] \in Nat /\ r[2] \in Nat
  BY DEF TypeOK
<1>2. s[1] \in Nat /\ s[2] \in Nat
  OBVIOUS
<1>3. ends \subseteq Nat
  BY <1>1, <1>2
<1>4. /\ m \in ends \X ends /\ m[1] <= s[1] /\ s[2] <= m[2]
      /\ \A r \in mem_regions : Touch(m, r) => m[1] <= r[1] /\ r[2] <= m[2]
  BY DEF Merged
<1> HIDE DEF ends
<1>5. m \in Nat \X Nat
  BY <1>3, <1>4, Zenon
<1> QED BY <1>2, <1>4, <1>5

\* Replacing the absorbed regions by the merged span keeps the table coalesced
\* and within its slots, and loses no address.
LEMMA MergeStep ==
  ASSUME TypeOK, IsFiniteSet(mem_regions), RegionsSeparate,
         NEW s \in Nat \X Nat, s[1] < s[2], NEW m \in Merged(s), RoomFor(m),
         mem_regions' = (mem_regions \ Absorbed(m)) \cup {m}
  PROVE  /\ mem_regions' \subseteq Nat \X Nat /\ IsFiniteSet(mem_regions')
         /\ RegionsSeparate' /\ Covered \subseteq Covered'
<1>1. /\ m \in Nat \X Nat /\ m[1] <= s[1] /\ s[2] <= m[2] /\ m[1] < m[2]
      /\ \A r \in mem_regions : Touch(m, r) => m[1] <= r[1] /\ r[2] <= m[2]
  BY MergedLemma
<1>2. mem_regions' \subseteq Nat \X Nat
  BY <1>1 DEF TypeOK
<1>3. /\ IsFiniteSet(mem_regions \ Absorbed(m))
      /\ Cardinality(mem_regions \ Absorbed(m)) \in Nat
      /\ Cardinality(mem_regions) \in Nat
      /\ Cardinality(mem_regions \ Absorbed(m)) <= Cardinality(mem_regions)
      /\ Absorbed(m) # {} => Cardinality(mem_regions \ Absorbed(m)) < Cardinality(mem_regions)
  <2> DEFINE kept == mem_regions \ Absorbed(m)
  <2>1. kept \in SUBSET mem_regions /\ (Absorbed(m) # {} => mem_regions # kept)
    BY DEF Absorbed
  <2> HIDE DEF kept
  <2>2. /\ IsFiniteSet(kept) /\ Cardinality(kept) <= Cardinality(mem_regions)
        /\ Cardinality(mem_regions) = Cardinality(kept) => mem_regions = kept
    BY <2>1, FS_Subset
  <2>3. Cardinality(kept) \in Nat /\ Cardinality(mem_regions) \in Nat
    BY <2>2, FS_CardinalityType
  <2>4. Absorbed(m) # {} => Cardinality(kept) < Cardinality(mem_regions)
    BY <2>1, <2>2, <2>3
  <2> QED BY <2>2, <2>3, <2>4 DEF kept
<1>4. IsFiniteSet(mem_regions') /\ Cardinality(mem_regions') <= MEM_REGIONS_MAX
  <2>1. /\ IsFiniteSet(mem_regions')
        /\ \/ Cardinality(mem_regions') = Cardinality(mem_regions \ Absorbed(m))
           \/ Cardinality(mem_regions') = Cardinality(mem_regions \ Absorbed(m)) + 1
    BY <1>3, FS_AddElement, Zenon
  <2> QED
    BY <2>1, <1>3, MemoryAssumption DEF RoomFor, RegionsSeparate
<1>5. \A r, q \in mem_regions' : r[1] < r[2] /\ (Touch(r, q) => r = q)
  <2> SUFFICES ASSUME NEW r \in mem_regions', NEW q \in mem_regions'
               PROVE  r[1] < r[2] /\ (Touch(r, q) => r = q)
    OBVIOUS
  <2>1. \A u \in mem_regions' : u = m \/ (u \in mem_regions /\ ~Touch(m, u))
    BY DEF Absorbed
  <2>2. Touch(r, q) => Touch(q, r)
    BY <1>2 DEF Touch
  <2> QED
    BY <2>1, <2>2, <1>1 DEF RegionsSeparate
<1>6. Covered \subseteq Covered'
  <2> SUFFICES ASSUME NEW r \in mem_regions, NEW x \in r[1] .. r[2] - 1
               PROVE  \E q \in mem_regions' : x \in q[1] .. q[2] - 1
    BY DEF Covered
  <2>1. r[1] \in Nat /\ r[2] \in Nat /\ m[1] \in Nat /\ m[2] \in Nat
    BY <1>1 DEF TypeOK
  <2>2. CASE Touch(m, r)
    <3>1. x \in m[1] .. m[2] - 1 /\ m \in mem_regions'
      BY <2>1, <2>2, <1>1
    <3> QED BY <3>1
  <2>3. CASE ~Touch(m, r)
    <3>1. r \in mem_regions'
      BY <2>3 DEF Absorbed
    <3> QED BY <3>1
  <2> QED BY <2>2, <2>3
<1> QED
  BY <1>2, <1>4, <1>5, <1>6 DEF RegionsSeparate

\* There is a frame, and there are finitely many.
LEMMA FrameCount ==
  frame_count \in Nat \ {0} /\ Frames \subseteq Nat /\ IsFiniteSet(Frames)
<1>1. frame_count \in Nat \ {0}
  BY MemoryAssumption DEF frame_count
<1>2. Frames \subseteq Nat
  BY <1>1 DEF Frames
<1>3. IsFiniteSet(Frames)
  BY <1>1, FS_Interval DEF Frames
<1> QED BY <1>1, <1>2, <1>3

\* Setting bits of the bitmap keeps the counter exact, whichever were set
\* before; bits behind it leave the bitmap alone.
LEMMA BmSet ==
  ASSUME TypeOK, NEW S \in SUBSET Nat, IsFiniteSet(S), bm_set(S)
  PROVE  /\ used' \subseteq Frames /\ used' = used \cup (S \cap Frames)
         /\ available_frames' \in Int
         /\ S \subseteq Frames /\ available_frames = Cardinality(Frames \ used)
              => available_frames' = Cardinality(Frames \ used')
<1>1. IsFiniteSet(Frames)
  BY FrameCount
<1>2. used' = used \cup (S \cap Frames) /\ used \subseteq Frames /\ available_frames \in Int
  BY DEF bm_set, TypeOK
<1>3. PICK clear \in SUBSET (S \ Bits) :
        available_frames' = available_frames - Cardinality((S \cap Frames) \ used)
                                             - Cardinality(clear)
  BY Zenon DEF bm_set
<1>4. IsFiniteSet(clear) /\ IsFiniteSet((S \cap Frames) \ used)
  <2>1. clear \subseteq S /\ (S \cap Frames) \ used \subseteq S
    OBVIOUS
  <2> QED BY <2>1, FS_Subset
<1>5. Cardinality(clear) \in Nat /\ Cardinality((S \cap Frames) \ used) \in Nat
  BY <1>4, FS_CardinalityType
<1>6. available_frames' \in Int
  BY <1>2, <1>3, <1>5
<1>7. ASSUME S \subseteq Frames, available_frames = Cardinality(Frames \ used)
      PROVE  available_frames' = Cardinality(Frames \ used')
  <2>1. IsFiniteSet(Frames \ used)
    BY <1>1, FS_Difference, Zenon
  <2>2. Cardinality((Frames \ used) \ S) = Cardinality(Frames \ used) - Cardinality((Frames \ used) \cap S)
    BY <2>1, FS_Difference, Zenon
  <2>3. (Frames \ used) \ S = Frames \ used' /\ (Frames \ used) \cap S = (S \cap Frames) \ used
    BY <1>2, <1>7
  <2>4. clear = {}
    <3>1. Frames \subseteq Bits
      BY MemoryAssumption DEF Frames, Bits, frame_count
    <3> QED BY <3>1, <1>7, Zenon
  <2>5. Cardinality(clear) = 0
    BY <2>4, FS_EmptySet
  <2>6. available_frames' = available_frames - Cardinality((S \cap Frames) \ used)
    BY <1>2, <1>3, <1>5, <2>5
  <2> QED BY <2>2, <2>3, <2>6, <1>7, Zenon
<1> QED BY <1>2, <1>6, <1>7

\* A page-frame reservation: the merged region and the frames in W are set.
LEMMA ReserveStep ==
  ASSUME PInv, Running,
         NEW s \in Nat \X Nat, s[1] < s[2], NEW m \in Merged(s), RoomFor(m),
         NEW W \in SUBSET Nat, IsFiniteSet(W),
         mem_regions' = (mem_regions \ Absorbed(m)) \cup {m},
         bm_set(Touched(m) \cup W)
  PROVE  /\ mem_regions' \subseteq Nat \X Nat /\ IsFiniteSet(mem_regions')
         /\ RegionsSeparate' /\ Covered \subseteq Covered'
         /\ used' \subseteq Frames /\ used \cup (W \cap Frames) \subseteq used'
         /\ available_frames' \in Int
         /\ W \subseteq Frames /\ WithinBitmap => available_frames' = Cardinality(Frames \ used')
         /\ \A r \in mem_regions' : Touched(r) \subseteq used'
<1>1. TypeOK /\ IsFiniteSet(mem_regions) /\ RegionsSeparate
  BY DEF PInv
<1>2. /\ mem_regions' \subseteq Nat \X Nat /\ IsFiniteSet(mem_regions')
      /\ RegionsSeparate' /\ Covered \subseteq Covered'
  BY <1>1, MergeStep
<1> DEFINE S == Touched(m) \cup W
<1>3. Touched(m) \subseteq Frames
  BY DEF Touched
<1>4. S \in SUBSET Nat /\ IsFiniteSet(S) /\ (W \subseteq Frames => S \subseteq Frames)
  <2>1. Frames \subseteq Nat /\ IsFiniteSet(Frames)
    BY FrameCount
  <2>2. IsFiniteSet(Touched(m))
    BY <1>3, <2>1, FS_Subset
  <2>3. IsFiniteSet(S)
    BY <2>2, FS_Union, Zenon
  <2>4. S \in SUBSET Nat /\ (W \subseteq Frames => S \subseteq Frames)
    BY <1>3, <2>1
  <2> QED BY <2>3, <2>4, Zenon
<1>5. bm_set(S)
  OBVIOUS
<1> HIDE DEF S
<1>6. /\ used' \subseteq Frames /\ used' = used \cup (S \cap Frames)
      /\ available_frames' \in Int
      /\ S \subseteq Frames /\ available_frames = Cardinality(Frames \ used)
           => available_frames' = Cardinality(Frames \ used')
  BY <1>1, <1>4, <1>5, BmSet, Zenon
<1>7. WithinBitmap => available_frames = Cardinality(Frames \ used)
  BY DEF PInv, AvailableExact, Running, Unset
<1>8. Touched(m) \subseteq used' /\ used \cup (W \cap Frames) \subseteq used'
  BY <1>3, <1>6 DEF S
<1>9. \A r \in mem_regions : Touched(r) \subseteq used
  BY DEF PInv
<1>10. \A r \in mem_regions' : Touched(r) \subseteq used'
  BY <1>8, <1>9
<1> QED BY <1>2, <1>4, <1>6, <1>7, <1>8, <1>10

\* Handing out frames keeps the holders' counts natural numbers.
LEMMA GrantLemma ==
  ASSUME TypeOK, NEW S, Grant(S)
  PROVE  grants' \in [0 .. frame_count + NEEDED -> Nat]
  BY DEF TypeOK, Grant

\* Handing out frames of the bitmap hands out none behind it.
LEMMA GrantWithin ==
  ASSUME TypeOK, WithinBitmap, NEW S \in SUBSET Frames, Grant(S)
  PROVE  WithinBitmap'
<1> SUFFICES ASSUME NEW f \in DOMAIN grants' \ Frames PROVE grants'[f] = 0
  BY DEF WithinBitmap
<1>1. f \in DOMAIN grants /\ f \notin S
  BY GrantLemma DEF TypeOK
<1>2. grants[f] = 0
  BY <1>1 DEF WithinBitmap
<1> QED BY <1>1, <1>2 DEF Grant

\* The state in which mem_init starts.
LEMMA InitPInv == Init => PInv
<1> SUFFICES ASSUME Init PROVE PInv
  OBVIOUS
<1>1. pending \subseteq Nat \X Nat /\ \A s \in pending : s[1] < s[2]
  BY MemoryAssumption DEF Init, BootSpans
<1>2. LOW \div PAGE \in Frames
  BY MemoryAssumption, FrameCount DEF Frames
<1>3. TypeOK
  BY <1>1, <1>2, MemoryAssumption, FrameCount DEF Init, TypeOK
<1>4. IsFiniteSet(mem_regions) /\ RegionsSeparate
  BY FS_EmptySet, MemoryAssumption DEF Init, RegionsSeparate
<1>5. WithinBitmap
  BY DEF Init, WithinBitmap
<1> QED
  BY <1>1, <1>3, <1>4, <1>5, MemoryAssumption DEF Init, PInv, Running, AvailableExact

\* A halt changes nothing but the phase.
LEMMA HaltPInv == ASSUME PInv, Halt PROVE PInv'
  BY DEF PInv, Halt, TypeOK, RegionsSeparate, Running, AvailableExact, Unset

\* A reservation of mem_init merges a span into the region table.
LEMMA RegionPInv == ASSUME PInv, RESERVE_REGION PROVE PInv' /\ Covered \subseteq Covered'
<1>0. PICK s \in pending : \E m \in Merged(s) :
        \/ Halt
        \/ /\ RoomFor(m)
           /\ mem_regions' = (mem_regions \ Absorbed(m)) \cup {m}
           /\ pending' = pending \ {s}
           /\ UNCHANGED <<used, available_frames, frame_hint, phase, remaining, grants, fixed>>
  BY DEF RESERVE_REGION
<1>1. CASE Halt
  BY <1>1, HaltPInv DEF Halt, Covered
<1>2. ASSUME NEW m \in Merged(s), RoomFor(m),
             mem_regions' = (mem_regions \ Absorbed(m)) \cup {m},
             pending' = pending \ {s},
             UNCHANGED <<used, available_frames, frame_hint, phase, remaining, grants, fixed>>
      PROVE  PInv' /\ Covered \subseteq Covered'
  <2>2. TypeOK /\ IsFiniteSet(mem_regions) /\ RegionsSeparate /\ s \in Nat \X Nat /\ s[1] < s[2]
    BY DEF PInv, TypeOK
  <2>3. /\ mem_regions' \subseteq Nat \X Nat /\ IsFiniteSet(mem_regions')
        /\ RegionsSeparate' /\ Covered \subseteq Covered'
    BY <1>2, <2>2, MergeStep
  <2>4. TypeOK'
    BY <1>2, <2>2, <2>3 DEF TypeOK
  <2>5. phase' = "map" /\ phase = "map"
    BY <1>2 DEF RESERVE_REGION
  <2>6. frame_hint' = LOW \div PAGE /\ WithinBitmap'
    BY <1>2, <2>5 DEF PInv, WithinBitmap
  <2> QED BY <1>2, <2>3, <2>4, <2>5, <2>6 DEF PInv, Running, AvailableExact
<1> QED BY <1>0, <1>1, <1>2

\* pmm_init builds the bitmap and marks what is reserved.
LEMMA PmmInitPInv == ASSUME PInv, pmm_init PROVE PInv' /\ Covered \subseteq Covered'
<1> DEFINE clear == FullPages(<<LOW, TOP>>)
           set   == (UNION {Touched(r) : r \in mem_regions}) \cup Touched(Bitmap)
<1>1. CASE Bitmap[2] > TOP
  <2>1. Halt
    BY <1>1 DEF pmm_init
  <2> QED BY <2>1, HaltPInv DEF Halt, Covered
<1>2. CASE ~(Bitmap[2] > TOP)
  <2>1. /\ used' = (Frames \ clear) \cup set
        /\ available_frames' = Cardinality(clear) - Cardinality(clear \cap set)
        /\ fixed' = (Frames \ clear) \cup set
        /\ phase' = "window" /\ phase = "map"
        /\ UNCHANGED <<mem_regions, frame_hint, pending, remaining, grants>>
    BY <1>2 DEF pmm_init
  <2>2. clear \subseteq Frames /\ set \subseteq Frames
    <3>1. clear \subseteq Frames
      BY DEF FullPages
    <3>2. \A r : Touched(r) \subseteq Frames
      BY DEF Touched
    <3>3. Touched(Bitmap) \subseteq Frames
      BY <3>2
    <3>4. UNION {Touched(r) : r \in mem_regions} \subseteq Frames
      BY <3>2, Zenon
    <3>5. set \subseteq Frames
      BY <3>3, <3>4, Zenon
    <3> QED BY <3>1, <3>5
  <2>3. \A r \in mem_regions : Touched(r) \subseteq set
    OBVIOUS
  <2> HIDE DEF clear, set
  <2>4. IsFiniteSet(clear)
    BY <2>2, FrameCount, FS_Subset
  <2>5. Cardinality(clear \ set) = Cardinality(clear) - Cardinality(clear \cap set)
    BY <2>4, FS_Difference, Zenon
  <2>6. clear \ set = Frames \ used'
    BY <2>1, <2>2
  <2>7. Cardinality(clear \ set) \in Nat
    BY <2>4, FS_Difference, FS_CardinalityType, Zenon
  <2>8. available_frames' \in Int /\ available_frames' = Cardinality(Frames \ used')
    <3>1. available_frames' \in Nat /\ available_frames' = Cardinality(Frames \ used')
      BY <2>1, <2>5, <2>6, <2>7, Zenon
    <3> QED BY <3>1
  <2>9. TypeOK'
    BY <2>1, <2>2, <2>8 DEF PInv, TypeOK
  <2>10. IsFiniteSet(mem_regions)' /\ RegionsSeparate' /\ Covered \subseteq Covered'
    BY <2>1 DEF PInv, RegionsSeparate, Covered
  <2>11. \A r \in mem_regions' : Touched(r) \subseteq used'
    BY <2>1, <2>3
  <2>12. WithinBitmap'
    BY <2>1 DEF PInv, WithinBitmap
  <2>13. \A f \in Unset' : frame_hint' <= f
    <3>1. \A f \in clear : LOW \div PAGE <= f
      BY MemoryAssumption, FrameCount DEF clear, FullPages, Frames
    <3>2. frame_hint' = LOW \div PAGE
      BY <2>1 DEF PInv
    <3> QED BY <2>6, <3>1, <3>2 DEF Unset
  <2>14. phase' = "window" /\ (\A s \in pending' : s[1] < s[2]) /\ remaining' > 0
    BY <2>1 DEF PInv
  <2> QED
    BY <2>8, <2>9, <2>10, <2>11, <2>12, <2>13, <2>14 DEF PInv, AvailableExact, Unset
<1> QED BY <1>1, <1>2

\* The largest taken position leaves at least the first frame in the window.
LEMMA WindowCount ==
  ASSUME NEW n \in Nat \ {0}, NEW T \in SUBSET (1 .. n), 1 \notin T,
         NEW c, c = (IF T = {} THEN n ELSE Max(T) - 1)
  PROVE  c \in 1 .. n
<1>1. CASE T = {}
  BY <1>1
<1>2. CASE T # {}
  <2> DEFINE D == {n - i : i \in T}
  <2>1. D # {} /\ D \in SUBSET Nat
    <3>1. \A i \in T : i \in 1 .. n /\ n - i \in Nat
      OBVIOUS
    <3>2. D \in SUBSET Nat
      BY <3>1
    <3> QED BY <3>2, <1>2, Zenon
  <2>2. Min(D) \in D /\ \A y \in D : Min(D) <= y
    BY <2>1, LeastNumber, MinLemma, Zenon
  <2>3. PICK i \in T : n - i = Min(D)
    BY <2>2, Zenon
  <2>4. \A j \in T : j <= i
    <3> SUFFICES ASSUME NEW j \in T PROVE j <= i
      OBVIOUS
    <3>1. n - i <= n - j
      BY <2>2, <2>3, Zenon
    <3> QED BY <3>1
  <2>5. Max(T) \in T
    BY <2>3, <2>4, Zenon DEF Max
  <2>6. c = Max(T) - 1
    BY <1>2
  <2>7. Max(T) \in 2 .. n
    <3>1. Max(T) \in 1 .. n /\ Max(T) # 1
      BY <2>5, Zenon
    <3> QED BY <3>1
  <2> QED BY <2>6, <2>7
<1> QED BY <1>1, <1>2

\* A window whose last frame is taken is cut.
LEMMA WindowCut ==
  ASSUME NEW n \in Nat \ {0}, NEW T \in SUBSET (1 .. n), n \in T
  PROVE  (IF T = {} THEN n ELSE Max(T) - 1) # n
<1>1. \A j \in T : j <= n
  OBVIOUS
<1>2. Max(T) \in T
  BY <1>1, Zenon DEF Max
<1>3. Max(T) \in 1 .. n
  BY <1>2, Zenon
<1>4. Max(T) - 1 # n
  BY <1>3
<1> QED BY <1>4

\* Once pmm_init has run, a frame whose bit is clear lies in no region.
LEMMA FreeUnset == ASSUME PInv, Running PROVE Free = Unset
<1> SUFFICES ASSUME NEW f \in Unset PROVE ~pmm_is_region_reserved(f)
  BY DEF Free
<1>1. f \in Frames /\ f \notin used
  BY DEF Unset
<1>2. \A r \in mem_regions : r \in Nat \X Nat /\ Touched(r) \subseteq used
  BY DEF PInv, TypeOK
<1> QED BY <1>1, <1>2, TouchedLemma DEF pmm_is_region_reserved

\* A turn of the loop that reserves the identity window.
LEMMA SeqPInv == ASSUME PInv, pmm_reserve_pageframe_seq PROVE PInv' /\ Covered \subseteq Covered'
<1> DEFINE cur   == FirstFrom(Free)
           taken == {i \in 1 .. remaining : cur + i - 1 \notin Free}
           count == IF taken = {} THEN remaining ELSE Max(taken) - 1
           win   == cur .. cur + count - 1
           s     == <<cur * PAGE, (cur + count) * PAGE>>
<1>1. CASE Free = {}
  <2>1. Halt
    BY <1>1, Zenon DEF pmm_reserve_pageframe_seq
  <2> QED BY <2>1, HaltPInv DEF Halt, Covered
<1>2. CASE Free # {}
  <2>1. PICK m \in Merged(s) :
          IF RoomFor(m)
          THEN /\ mem_regions' = (mem_regions \ Absorbed(m)) \cup {m}
               /\ bm_set(Touched(m) \cup win)
               /\ frame_hint' = (cur + count) % frame_count
               /\ remaining' = remaining - count
               /\ phase' = IF remaining = count THEN "run" ELSE "window"
               /\ Grant(win)
               /\ UNCHANGED <<pending, fixed>>
          ELSE Halt
    BY <1>2, Zenon DEF pmm_reserve_pageframe_seq
  <2>2. CASE ~RoomFor(m)
    <3>1. Halt
      BY <2>1, <2>2, Zenon
    <3> QED BY <3>1, HaltPInv DEF Halt, Covered
  <2>3. CASE RoomFor(m)
    <3>1. Free \in SUBSET Frames /\ TypeOK /\ phase = "window" /\ Running
      BY Zenon DEF Free, Unset, PInv, pmm_reserve_pageframe_seq, Running
    <3>2. cur \in Free
      BY <3>1, <1>2, FirstFromLemma
    <3>3. cur \in Nat /\ cur \in Frames
      <4>1. cur \in Frames
        BY <3>1, <3>2
      <4> HIDE DEF cur
      <4> QED BY <4>1, FrameCount DEF Frames
    <3>4. remaining \in Nat \ {0} /\ remaining <= NEEDED
      BY <3>1, MemoryAssumption DEF PInv, TypeOK
    <3> HIDE DEF cur
    <3>5. taken \in SUBSET (1 .. remaining) /\ 1 \notin taken
      BY <3>2, <3>3
    <3> HIDE DEF taken
    <3>6. count \in 1 .. remaining
      BY <3>4, <3>5, WindowCount
    <3>7. /\ mem_regions' = (mem_regions \ Absorbed(m)) \cup {m}
          /\ bm_set(Touched(m) \cup win)
          /\ frame_hint' = (cur + count) % frame_count
          /\ remaining' = remaining - count
          /\ phase' = IF remaining = count THEN "run" ELSE "window"
          /\ Grant(win)
          /\ UNCHANGED <<pending, fixed>>
      BY <2>1, <2>3
    <3> HIDE DEF count
    <3>8. s \in Nat \X Nat /\ s[1] < s[2]
      BY <3>3, <3>6, MemoryAssumption
    <3> HIDE DEF s
    <3>9. win \in SUBSET Nat /\ IsFiniteSet(win)
      BY <3>3, <3>6, FS_Interval
    <3>10. /\ mem_regions' \subseteq Nat \X Nat /\ IsFiniteSet(mem_regions')
           /\ RegionsSeparate' /\ Covered \subseteq Covered'
           /\ used' \subseteq Frames /\ used \cup (win \cap Frames) \subseteq used'
           /\ available_frames' \in Int
           /\ win \subseteq Frames /\ WithinBitmap => available_frames' = Cardinality(Frames \ used')
           /\ \A r \in mem_regions' : Touched(r) \subseteq used'
      <4> HIDE DEF win
      <4> QED BY <3>1, <3>7, <3>8, <3>9, <2>3, ReserveStep, Zenon
    <3>11. grants' \in [0 .. frame_count + NEEDED -> Nat]
      BY <3>1, <3>7, GrantLemma
    <3>12. frame_hint' \in Frames
      BY <3>3, <3>6, <3>7, FrameCount DEF Frames
    <3>13. /\ remaining' \in 0 .. NEEDED /\ phase' \in {"window", "run"}
           /\ phase' = "window" => remaining' > 0
      BY <3>4, <3>6, <3>7, MemoryAssumption
    <3>14. TypeOK'
      BY <3>1, <3>7, <3>10, <3>11, <3>12, <3>13 DEF TypeOK
    <3>15. WithinBitmap
      BY <1>2, <3>1 DEF PInv, Free
    <3>16. WithinBitmap' => win \subseteq Frames
      <4> SUFFICES ASSUME WithinBitmap', NEW f \in win PROVE f \in Frames
        OBVIOUS
      <4>1. f \in 0 .. frame_count + NEEDED
        BY <3>3, <3>4, <3>6, FrameCount, MemoryAssumption DEF Frames
      <4>2. DOMAIN grants = 0 .. frame_count + NEEDED /\ DOMAIN grants' = 0 .. frame_count + NEEDED
            /\ grants[f] \in Nat
        BY <3>1, <3>11, <4>1 DEF TypeOK
      <4> HIDE DEF win
      <4>3. grants'[f] = grants[f] + 1
        BY <3>7, <4>1, <4>2 DEF Grant
      <4>4. grants'[f] # 0
        BY <4>2, <4>3
      <4> QED BY <4>1, <4>2, <4>4, Zenon DEF WithinBitmap
    <3>17. win \subseteq Frames => WithinBitmap'
      <4> HIDE DEF win
      <4> QED BY <3>1, <3>7, <3>15, GrantWithin
    <3>18. \A f \in Unset' : f \in Nat /\ f < frame_count /\ cur + count <= f
      <4> SUFFICES ASSUME NEW f \in Unset' PROVE f \in Nat /\ f < frame_count /\ cur + count <= f
        OBVIOUS
      <4>1. f \in Frames /\ f \in Unset /\ f \notin win
        <5> HIDE DEF win
        <5> QED BY <3>10 DEF Unset
      <4>2. Free = Unset
        BY <3>1, FreeUnset
      <4>3. cur <= f
        <5>1. \A g \in Free : frame_hint <= g
          BY <3>1, <4>2 DEF PInv
        <5> QED BY <1>2, <3>1, <4>1, <4>2, <5>1, FirstFromLeast DEF cur
      <4>4. f \in Nat /\ f < frame_count
        BY <4>1, FrameCount DEF Frames
      <4> QED BY <3>3, <3>6, <4>1, <4>3, <4>4
    <3>19. \A f \in Unset' : frame_hint' <= f
      BY <3>3, <3>6, <3>7, <3>18, FrameCount
    <3>20. CASE win \subseteq Frames
      <4>1. WithinBitmap' /\ available_frames' = Cardinality(Frames \ used')
        BY <3>10, <3>15, <3>17, <3>20
      <4> QED BY <3>7, <3>10, <3>13, <3>14, <3>19, <4>1 DEF PInv, AvailableExact, Unset
    <3>21. CASE ~(win \subseteq Frames)
      <4>1. frame_count < cur + count
        <5>1. PICK f \in win : f \notin Frames
          BY <3>21
        <5> QED BY <5>1, <3>3, <3>6, FrameCount DEF Frames
      <4>2. Unset' = {}
        BY <3>3, <3>6, <3>18, <4>1, FrameCount
      <4>3. count # remaining
        <5>1. cur + remaining - 1 \notin Frames
          BY <3>3, <3>4, <3>6, <4>1, FrameCount DEF Frames
        <5>2. remaining \in taken
          BY <3>1, <3>4, <5>1 DEF taken
        <5> QED BY <3>4, <3>5, <5>2, WindowCut DEF count
      <4>4. phase' = "window" /\ ~WithinBitmap'
        BY <3>7, <3>16, <3>21, <4>3
      <4> QED BY <3>7, <3>10, <3>13, <3>14, <3>19, <4>2, <4>4 DEF PInv, AvailableExact
    <3> QED BY <3>10, <3>20, <3>21
  <2> QED BY <2>2, <2>3
<1> QED BY <1>1, <1>2

\* Reserving the next free frame as a region.
LEMMA PageframePInv == ASSUME PInv, pmm_reserve_pageframe PROVE PInv' /\ Covered \subseteq Covered'
<1> DEFINE f == FirstFrom(Free)
           s == <<f * PAGE, (f + 1) * PAGE>>
<1>1. CASE Free = {}
  <2>1. Halt
    BY <1>1 DEF pmm_reserve_pageframe
  <2> QED BY <2>1, HaltPInv DEF Halt, Covered
<1>2. CASE Free # {}
  <2>1. PICK m \in Merged(s) :
          IF RoomFor(m)
          THEN /\ mem_regions' = (mem_regions \ Absorbed(m)) \cup {m}
               /\ bm_set(Touched(m) \cup {f})
               /\ frame_hint' = (f + 1) % frame_count
               /\ Grant({f})
               /\ UNCHANGED <<phase, pending, remaining, fixed>>
          ELSE Halt
    BY <1>2, Zenon DEF pmm_reserve_pageframe
  <2>2. CASE ~RoomFor(m)
    <3>1. Halt
      BY <2>1, <2>2
    <3> QED BY <3>1, HaltPInv DEF Halt, Covered
  <2>3. CASE RoomFor(m)
    <3>1. Free \in SUBSET Frames /\ TypeOK /\ phase = "run" /\ Running
      BY DEF Free, Unset, PInv, pmm_reserve_pageframe, Running
    <3>2. f \in Frames /\ f \in Nat
      <4>1. f \in Frames
        BY <3>1, <1>2, FirstFromLemma
      <4> HIDE DEF f
      <4> QED BY <4>1, FrameCount DEF Frames
    <3>3. /\ mem_regions' = (mem_regions \ Absorbed(m)) \cup {m}
          /\ bm_set(Touched(m) \cup {f})
          /\ frame_hint' = (f + 1) % frame_count
          /\ Grant({f})
          /\ UNCHANGED <<phase, pending, remaining, fixed>>
      BY <2>1, <2>3
    <3> HIDE DEF f
    <3>4. s \in Nat \X Nat /\ s[1] < s[2]
      BY <3>2, MemoryAssumption
    <3> HIDE DEF s
    <3>5. {f} \in SUBSET Frames /\ {f} \in SUBSET Nat /\ IsFiniteSet({f}) /\ WithinBitmap
      BY <3>1, <3>2, FS_Singleton DEF PInv
    <3>6. /\ mem_regions' \subseteq Nat \X Nat /\ IsFiniteSet(mem_regions')
          /\ RegionsSeparate' /\ Covered \subseteq Covered'
          /\ used' \subseteq Frames /\ available_frames' \in Int
          /\ available_frames' = Cardinality(Frames \ used')
          /\ \A r \in mem_regions' : Touched(r) \subseteq used'
      BY <3>1, <3>3, <3>4, <3>5, <2>3, ReserveStep, Zenon
    <3>7. grants' \in [0 .. frame_count + NEEDED -> Nat]
      BY <3>1, <3>3, GrantLemma
    <3>8. frame_hint' \in Frames
      BY <3>2, <3>3, FrameCount DEF Frames
    <3>9. TypeOK'
      BY <3>1, <3>3, <3>6, <3>7, <3>8 DEF TypeOK
    <3>10. WithinBitmap'
      BY <3>1, <3>3, <3>5, GrantWithin
    <3> QED
      BY <3>1, <3>3, <3>6, <3>9, <3>10 DEF PInv, AvailableExact, Unset
  <2> QED BY <2>2, <2>3
<1> QED BY <1>1, <1>2

\* One frame is marked and handed out.
LEMMA TakePInv ==
  ASSUME PInv, phase = "run", NEW f \in Frames, bm_set({f}), Grant({f}),
         frame_hint' \in Frames,
         UNCHANGED <<mem_regions, phase, pending, remaining, fixed>>
  PROVE  PInv' /\ Covered \subseteq Covered'
<1>1. /\ TypeOK /\ Running /\ WithinBitmap
      /\ available_frames = Cardinality(Frames \ used)
  BY DEF PInv, Running, AvailableExact, Unset
<1>2. /\ used' \subseteq Frames /\ used \subseteq used'
      /\ available_frames' \in Int /\ available_frames' = Cardinality(Frames \ used')
  <2>1. {f} \in SUBSET Nat /\ {f} \subseteq Frames /\ IsFiniteSet({f})
    BY FrameCount, FS_Singleton
  <2> QED BY <1>1, <2>1, BmSet
<1>3. grants' \in [0 .. frame_count + NEEDED -> Nat]
  BY <1>1, GrantLemma
<1>4. TypeOK'
  BY <1>1, <1>2, <1>3 DEF TypeOK
<1>5. RegionsSeparate' /\ IsFiniteSet(mem_regions')
  BY DEF PInv, RegionsSeparate
<1>6. \A r \in mem_regions' : Touched(r) \subseteq used'
  BY <1>1, <1>2 DEF PInv
<1>7. WithinBitmap'
  BY <1>1, GrantWithin
<1> QED
  BY <1>2, <1>4, <1>5, <1>6, <1>7 DEF PInv, Covered, AvailableExact, Unset

\* Allocating the next free frame.
LEMMA AllocPInv == ASSUME PInv, pmm_alloc_frame PROVE PInv' /\ Covered \subseteq Covered'
<1> DEFINE f == FirstFrom(Unset)
<1>1. Unset \in SUBSET Frames /\ Unset # {} /\ TypeOK
  BY DEF Unset, PInv, pmm_alloc_frame
<1>2. f \in Frames
  BY <1>1, FirstFromLemma
<1>3. /\ phase = "run" /\ bm_set({f}) /\ Grant({f}) /\ frame_hint' = (f + 1) % frame_count
      /\ UNCHANGED <<mem_regions, phase, pending, remaining, fixed>>
  BY DEF pmm_alloc_frame
<1> HIDE DEF f
<1>4. frame_hint' \in Frames
  BY <1>2, <1>3, FrameCount DEF Frames
<1> QED BY <1>2, <1>3, <1>4, TakePInv

\* Allocating a given frame.
LEMMA SpecificPInv ==
  ASSUME PInv, NEW f \in Frames, pmm_alloc_specific_block(f)
  PROVE  PInv' /\ Covered \subseteq Covered'
<1>1. /\ phase = "run" /\ bm_set({f}) /\ Grant({f}) /\ frame_hint' = frame_hint
      /\ UNCHANGED <<mem_regions, phase, pending, remaining, fixed>>
  BY DEF pmm_alloc_specific_block
<1>2. frame_hint' \in Frames
  BY <1>1 DEF PInv, TypeOK
<1> QED BY <1>1, <1>2, TakePInv

\* Giving a frame back.
LEMMA DeallocPInv ==
  ASSUME PInv, NEW f \in Frames, pmm_dealloc_specific_block(f)
  PROVE  PInv' /\ Covered \subseteq Covered'
<1>1. /\ phase = "run" /\ grants[f] > 0 /\ ~pmm_is_region_reserved(f) /\ f \in used
      /\ frame_hint' = f /\ used' = used \ {f}
      /\ available_frames' = available_frames + Cardinality({f} \cap used)
      /\ grants' = [grants EXCEPT ![f] = @ - 1]
      /\ UNCHANGED <<mem_regions, phase, pending, remaining, fixed>>
  BY DEF pmm_dealloc_specific_block, bm_clear
<1>2. /\ TypeOK /\ Running /\ WithinBitmap
      /\ available_frames = Cardinality(Frames \ used)
  BY <1>1 DEF PInv, Running, AvailableExact, Unset
<1>3. available_frames' = available_frames + 1
  <2>1. {f} \cap used = {f}
    BY <1>1
  <2> QED BY <2>1, <1>1, FS_Singleton
<1>4. available_frames' \in Int /\ available_frames' = Cardinality(Frames \ used')
  <2>1. IsFiniteSet(Frames \ used) /\ f \notin Frames \ used
    BY <1>1, FrameCount, FS_Difference, Zenon
  <2>2. Cardinality((Frames \ used) \cup {f}) = Cardinality(Frames \ used) + 1
    BY <2>1, FS_AddElement
  <2>3. Frames \ used' = (Frames \ used) \cup {f}
    BY <1>1
  <2>4. available_frames \in Int
    BY <1>2 DEF TypeOK
  <2>5. available_frames' = Cardinality(Frames \ used')
    BY <1>2, <1>3, <2>2, <2>3, Zenon
  <2> QED BY <1>3, <2>4, <2>5
<1>5. grants' \in [0 .. frame_count + NEEDED -> Nat]
  <2>1. grants \in [0 .. frame_count + NEEDED -> Nat] /\ f \in 0 .. frame_count + NEEDED
    BY <1>2, FrameCount, MemoryAssumption DEF TypeOK, Frames
  <2>2. grants[f] - 1 \in Nat
    BY <2>1, <1>1
  <2> QED BY <1>1, <2>1, <2>2
<1>6. TypeOK'
  BY <1>1, <1>2, <1>4, <1>5 DEF TypeOK
<1>7. \A r \in mem_regions : f \notin Touched(r)
  <2>1. \A r \in mem_regions : r \in Nat \X Nat
    BY <1>2 DEF TypeOK
  <2> QED BY <2>1, <1>1, TouchedLemma DEF pmm_is_region_reserved
<1>8. \A r \in mem_regions' : Touched(r) \subseteq used'
  BY <1>1, <1>2, <1>7 DEF PInv
<1>9. RegionsSeparate' /\ IsFiniteSet(mem_regions')
  BY <1>1 DEF PInv, RegionsSeparate
<1>10. WithinBitmap'
  BY <1>1, <1>2 DEF WithinBitmap
<1> QED
  BY <1>1, <1>4, <1>6, <1>8, <1>9, <1>10 DEF PInv, Covered, AvailableExact, Unset

\* Every step keeps the invariant and what is reserved.
LEMMA StepPInv == ASSUME PInv, [Next]_vars PROVE PInv' /\ Covered \subseteq Covered'
<1>1. CASE UNCHANGED vars
  BY <1>1 DEF vars, PInv, TypeOK, RegionsSeparate, Running, AvailableExact, WithinBitmap,
              Unset, Covered
<1>2. CASE Next
  <2>1. CASE RESERVE_REGION
    BY <2>1, RegionPInv
  <2>2. CASE pmm_init
    BY <2>2, PmmInitPInv
  <2>3. CASE pmm_reserve_pageframe_seq
    BY <2>3, SeqPInv
  <2>4. CASE pmm_reserve_pageframe
    BY <2>4, PageframePInv
  <2>5. CASE pmm_alloc_frame
    BY <2>5, AllocPInv
  <2>6. CASE pmm_get_next_available_block
    BY <2>6, AllocPInv DEF pmm_get_next_available_block
  <2>7. ASSUME NEW f \in Frames, pmm_alloc_specific_block(f)
        PROVE  PInv' /\ Covered \subseteq Covered'
    BY <2>7, SpecificPInv
  <2>8. ASSUME NEW f \in Frames, pmm_dealloc_specific_block(f)
        PROVE  PInv' /\ Covered \subseteq Covered'
    BY <2>8, DeallocPInv
  <2> QED
    BY <1>2, <2>1, <2>2, <2>3, <2>4, <2>5, <2>6, <2>7, <2>8 DEF Next
<1> QED BY <1>1, <1>2

-----------------------------------------------------------------------------
\* The strengthened invariant holds of every behaviour.
THEOREM PmmInductive == Spec => []PInv
<1>1. PInv /\ [Next]_vars => PInv'
  BY StepPInv
<1> QED BY InitPInv, <1>1, PTL DEF Spec

\* kmem.c keeps its state in range, the search hint inside the bitmap included.
THEOREM PmmTypeCorrect == Spec => []TypeOK
<1>1. PInv => TypeOK
  BY DEF PInv
<1> QED BY PmmInductive, <1>1, PTL

\* For every memory size and firmware map, a frame that a reserved region so
\* much as touches is marked in the bitmap once pmm_init has run.
THEOREM ReservedFramesMarked == Spec => []ReservedStaysSet
<1>1. PInv => ReservedStaysSet
  <2> SUFFICES ASSUME PInv, Running, NEW f \in Frames, pmm_is_region_reserved(f)
               PROVE  f \in used
    BY DEF ReservedStaysSet
  <2>1. PICK r \in mem_regions : f * PAGE < r[2] /\ r[1] < (f + 1) * PAGE
    BY DEF pmm_is_region_reserved
  <2>2. r \in Nat \X Nat /\ Touched(r) \subseteq used
    BY DEF PInv, TypeOK
  <2> QED BY <2>1, <2>2, TouchedLemma
<1> QED BY PmmInductive, <1>1, PTL

\* For every memory size and firmware map, available_frames counts the clear
\* bits of a running kernel: a window that ran past the end of the bitmap, and
\* spoilt the counter, has halted the boot.
THEOREM CounterExact == Spec => []AvailableExact
<1>1. PInv => AvailableExact
  BY DEF PInv
<1> QED BY PmmInductive, <1>1, PTL

\* A kernel that runs has reserved no page-table frame behind the bitmap: the
\* window loop can run past the end of memory (kmem.c:572), but it is then one
\* frame short and finds none, so paging_init_identity_window fails.
THEOREM RunsWithinBitmap == Spec => [](phase = "run" => WithinBitmap)
<1>1. PInv => (phase = "run" => WithinBitmap)
  BY DEF PInv
<1> QED BY PmmInductive, <1>1, PTL

\* pmm_reserve_range leaves the table coalesced and within MEM_REGIONS_MAX.
THEOREM RegionsCoalesced == Spec => []RegionsSeparate
<1>1. PInv => RegionsSeparate
  BY DEF PInv
<1> QED BY PmmInductive, <1>1, PTL

\* No step of the memory manager gives a reserved address up.
THEOREM ReservedForEver == Spec => ReservationsPermanent
<1>1. PInv /\ [Next]_vars => [Covered \subseteq Covered']_vars
  BY StepPInv
<1> QED BY PmmInductive, <1>1, PTL DEF Spec, ReservationsPermanent

=============================================================================
