------------------------------ MODULE FdProofs ------------------------------
(***************************************************************************)
(* Descriptor lists and reference counts for every number of processes and *)
(* every size of the descriptor pool.                                      *)
(***************************************************************************)
EXTENDS FdTable, ListLemmas, FiniteSetTheorems

\* Every non-empty set of numbers has a least one.
LEMMA LeastNumber == WellOrdered
<1> SUFFICES ASSUME NEW S \in SUBSET Nat, S # {}
             PROVE  \E x \in S : \A y \in S : x <= y
  BY DEF WellOrdered
<1>1. PICK x \in S : \A y \in S : ~(<<y, x>> \in OpToRel(<, Nat))
  BY WFMin, NatLessThanWellFounded, Zenon
<1>2. \A y \in S : ~(y < x)
  BY <1>1, Zenon DEF OpToRel
<1> QED BY <1>2

\* The inductive invariant.  That an entry is on one list is said without
\* counting lists.
FdType ==
  /\ life \in [Procs -> {"free", "alive", "zombie"}]
  /\ fd_list \in [Procs -> Seq(Slots)] /\ fd_count \in [Procs -> Nat]
  /\ fd_used \subseteq Slots
  /\ local_id \in [Slots -> 0 .. 2] /\ of \in [Slots -> BOOLEAN]

FdOwned ==
  /\ \A s \in fd_used : \E p \in Procs : s \in Range(fd_list[p])
  /\ \A p, q \in Procs : \A s \in Slots :
       s \in Range(fd_list[p]) /\ s \in Range(fd_list[q]) => p = q
  /\ \A p \in Procs : /\ IsInjective(fd_list[p])
                      /\ Range(fd_list[p]) \subseteq fd_used
                      /\ fd_list[p] # <<>> => life[p] = "alive"

FdInv == FdType /\ FdOwned /\ DescriptorsInherited /\ RefcountExact

-----------------------------------------------------------------------------
(* The pool.                                                                *)

\* Any part of the pool is finite, and so is its size.
LEMMA SlotsFinite ==
  ASSUME NEW S \in SUBSET Slots
  PROVE  IsFiniteSet(S) /\ Cardinality(S) \in Nat
<1>1. IsFiniteSet(Slots)
  BY FdAssumption, FS_Interval DEF Slots
<1>2. IsFiniteSet(S)
  BY <1>1, FS_Subset
<1> QED BY <1>2, FS_CardinalityType

\* As many entries as there is room for can be found: the i-th free entry is
\* the least one with i free entries up to it.
LEMMA FreeEntry ==
  ASSUME fd_used \subseteq Slots, NEW i \in Nat \ {0}, i <= Room
  PROVE  \E s \in Slots \ fd_used : Cardinality((1 .. s) \ fd_used) = i
<1> DEFINE upto(s) == (1 .. s) \ fd_used
           enough == {s \in 0 .. FD_SLOTS : Cardinality(upto(s)) >= i}
           s == Min(enough)
<1>0. FD_SLOTS \in Nat
  BY FdAssumption
<1>1. ASSUME NEW n \in 0 .. FD_SLOTS
      PROVE  IsFiniteSet(upto(n)) /\ Cardinality(upto(n)) \in Nat
  <2>1. upto(n) \subseteq Slots
    BY <1>0 DEF Slots
  <2> QED BY <2>1, SlotsFinite
<1>2. upto(FD_SLOTS) = Slots \ fd_used
  BY DEF Slots
<1>3. FD_SLOTS \in enough
  BY <1>0, <1>2 DEF Room
<1>4. s \in enough /\ \A n \in enough : s <= n
  <2>1. enough \subseteq 0 .. FD_SLOTS
    BY Zenon
  <2>2. enough # {}
    BY <1>3, Zenon
  <2> HIDE DEF enough
  <2>3. enough \in SUBSET Nat
    BY <2>1, <1>0
  <2> QED BY <2>2, <2>3, LeastNumber, MinLemma, Zenon
<1> HIDE DEF s
<1>5. upto(0) = {}
  OBVIOUS
<1>6. s # 0
  BY <1>4, <1>5, FS_EmptySet
<1>7. s - 1 \in 0 .. FD_SLOTS /\ s \in Slots /\ s \in Int /\ s > 0
  BY <1>0, <1>4, <1>6 DEF Slots
<1>8. Cardinality(upto(s - 1)) < i
  <2>1. s - 1 \notin enough
    BY <1>4, <1>7
  <2> QED BY <2>1, <1>7, <1>1
<1>9. s \notin fd_used
  <2>1. ASSUME s \in fd_used PROVE upto(s) = upto(s - 1)
    BY <2>1, <1>7
  <2> QED BY <2>1, <1>4, <1>8, <1>7, <1>1
<1>10. upto(s) = upto(s - 1) \cup {s}
  BY <1>7, <1>9
<1>11. Cardinality(upto(s)) = Cardinality(upto(s - 1)) + 1
  <2>1. s \notin upto(s - 1)
    BY <1>7
  <2> QED BY <2>1, <1>1, <1>7, <1>10, FS_AddElement, Zenon
<1>12. Cardinality(upto(s)) = i
  BY <1>4, <1>8, <1>11, <1>1, <1>7
<1> QED BY <1>7, <1>9, <1>12, Zenon

\* The entries that n calls of fdpool_alloc_fdentry return are free and differ
\* from each other.
LEMMA LowestLemma ==
  ASSUME fd_used \subseteq Slots, NEW n \in Nat, n <= Room
  PROVE  /\ Lowest(n) \in Seq(Slots) /\ Len(Lowest(n)) = n /\ DOMAIN Lowest(n) = 1 .. n
         /\ IsInjective(Lowest(n))
         /\ Range(Lowest(n)) \subseteq Slots \ fd_used
<1> DEFINE at(i) == CHOOSE s \in Slots \ fd_used : Cardinality((1 .. s) \ fd_used) = i
<1>1. ASSUME NEW i \in 1 .. n
      PROVE  at(i) \in Slots \ fd_used /\ Cardinality((1 .. at(i)) \ fd_used) = i
  <2>1. i \in Nat \ {0} /\ i <= Room
    <3>1. Room \in Nat
      BY SlotsFinite DEF Room
    <3> QED BY <3>1
  <2> QED BY <2>1, FreeEntry, Zenon
<1>2. Lowest(n) = [i \in 1 .. n |-> at(i)]
  BY DEF Lowest
<1> HIDE DEF at
<1>3. Lowest(n) \in [1 .. n -> Slots]
  BY <1>1, <1>2, Zenon
<1>4. Lowest(n) \in Seq(Slots) /\ Len(Lowest(n)) = n /\ DOMAIN Lowest(n) = 1 .. n
  BY <1>3
<1>5. \A i \in 1 .. n : Lowest(n)[i] = at(i)
  BY <1>2
<1>6. IsInjective(Lowest(n))
  <2>1. ASSUME NEW i \in 1 .. n, NEW j \in 1 .. n, at(i) = at(j) PROVE i = j
    BY <1>1, <2>1, Zenon
  <2> QED BY <2>1, <1>4, <1>5, Zenon DEF IsInjective
<1>7. Range(Lowest(n)) \subseteq Slots \ fd_used
  BY <1>1, <1>4, <1>5, Zenon DEF Range
<1> QED BY <1>4, <1>6, <1>7

\* A list without duplicates has as many elements as positions.
LEMMA RangeSize ==
  ASSUME NEW S, NEW s \in Seq(S), IsInjective(s)
  PROVE  IsFiniteSet(Range(s)) /\ Cardinality(Range(s)) = Len(s)
<1>1. DOMAIN s = 1 .. Len(s) /\ Len(s) \in Nat
  OBVIOUS
<1>2. s \in [DOMAIN s -> Range(s)]
  BY DEF Range
<1>3. s \in Bijection(DOMAIN s, Range(s))
  BY <1>2 DEF Bijection, Injection, Surjection, IsInjective, Range
<1>4. ExistsBijection(DOMAIN s, Range(s))
  BY <1>3, Zenon DEF ExistsBijection
<1>5. IsFiniteSet(DOMAIN s) /\ Cardinality(DOMAIN s) = Len(s)
  BY <1>1, FS_Interval
<1> QED BY <1>4, <1>5, FS_Bijection, Zenon

-----------------------------------------------------------------------------
(* The operations on entries.                                               *)

\* A process that is not alive has no entries.
LEMMA NoEntries ==
  ASSUME FdInv, NEW p \in Procs, life[p] # "alive"
  PROVE  fd_list[p] = <<>>
  BY Zenon DEF FdInv, FdOwned

\* The entries of a live process: none, or those of stdin, stdout and stderr.
LEMMA Entries ==
  ASSUME FdInv, NEW p \in Procs, life[p] = "alive"
  PROVE  /\ fd_list[p] \in Seq(Slots) /\ Len(fd_list[p]) \in {0, 3}
         /\ fd_count[p] = Len(fd_list[p])
         /\ \A i \in DOMAIN fd_list[p] : of[fd_list[p][i]] /\ local_id[fd_list[p][i]] = STDIO[i]
<1> DEFINE l == fd_list[p]
           ids == [i \in DOMAIN l |-> local_id[l[i]]]
<1>1. /\ ids \in {<<>>, STDIO}
      /\ \A i \in DOMAIN ids : of[l[i]]
      /\ fd_count[p] = Len(l)
  BY Zenon DEF FdInv, DescriptorsInherited
<1>2. l \in Seq(Slots) /\ DOMAIN l = 1 .. Len(l) /\ Len(l) \in Nat
  BY DEF FdInv, FdType
<1>3. DOMAIN ids = 1 .. Len(l) /\ \A i \in 1 .. Len(l) : ids[i] = local_id[l[i]]
  BY <1>2
<1> HIDE DEF l, ids
<1>4. CASE ids = <<>>
  <2>1. Len(l) = 0
    BY <1>2, <1>3, <1>4
  <2>2. DOMAIN l = {}
    BY <1>2, <2>1
  <2> QED BY <1>1, <1>2, <2>1, <2>2, Zenon DEF l
<1>5. CASE ids = STDIO
  <2>0. DOMAIN STDIO = 1 .. 3
    BY DEF STDIO
  <2>1. Len(l) = 3
    <3>1. 1 .. Len(l) = 1 .. 3
      BY <1>3, <1>5, <2>0, Zenon
    <3>2. 3 \in 1 .. Len(l)
      BY <3>1
    <3>3. Len(l) \in 1 .. 3
      BY <3>1, <3>2, <1>2
    <3> HIDE DEF l
    <3> QED BY <3>2, <3>3, <1>2
  <2>2. \A i \in DOMAIN l : local_id[l[i]] = STDIO[i]
    BY <1>2, <1>3, <1>5, Zenon
  <2>3. \A i \in DOMAIN l : of[l[i]]
    BY <1>1, <1>2, <1>3, Zenon
  <2> QED BY <1>1, <1>2, <2>1, <2>2, <2>3, Zenon DEF l
<1> QED BY <1>1, <1>4, <1>5, Zenon DEF l

\* The counts of a set of entries, all pointing at the console.
LEMMA Opened ==
  ASSUME NEW f \in [Slots -> BOOLEAN], NEW S \in SUBSET Slots
  PROVE  IsFiniteSet({s \in S : f[s]}) /\ Cardinality({s \in S : f[s]}) \in Nat
<1>1. {s \in S : f[s]} \in SUBSET Slots
  OBVIOUS
<1> QED BY <1>1, SlotsFinite, Zenon

-----------------------------------------------------------------------------
(* The steps.                                                               *)

\* What DescriptorsInherited says of one process.
Inherited(p) ==
  LET ids == [i \in DOMAIN fd_list[p] |-> local_id[fd_list[p][i]]]
  IN /\ ids \in {<<>>, STDIO}
     /\ \A i \in DOMAIN ids : of[fd_list[p][i]]
     /\ fd_count[p] = Len(fd_list[p])

\* A process whose entries are left alone keeps its descriptors.
LEMMA StaysInherited ==
  ASSUME NEW p \in Procs, Inherited(p), fd_list'[p] = fd_list[p], fd_count'[p] = fd_count[p],
         \A s \in Range(fd_list[p]) : local_id'[s] = local_id[s] /\ of'[s] = of[s]
  PROVE  Inherited(p)'
<1> DEFINE l == fd_list[p]
<1>1. \A i \in DOMAIN l : local_id'[l[i]] = local_id[l[i]] /\ of'[l[i]] = of[l[i]]
  BY Zenon DEF Range
<1>2. [i \in DOMAIN l |-> local_id'[l[i]]] = [i \in DOMAIN l |-> local_id[l[i]]]
  BY <1>1
<1>3. /\ [i \in DOMAIN l |-> local_id[l[i]]] \in {<<>>, STDIO}
      /\ \A i \in DOMAIN l : of[l[i]]
      /\ fd_count[p] = Len(l)
  BY DEF Inherited
<1>4. \A i \in DOMAIN l : of'[l[i]]
  BY <1>1, <1>3, Zenon
<1> QED BY <1>2, <1>3, <1>4 DEF Inherited

\* A process gets its entries: the bootstrap of stdio or the copy of a fork.
LEMMA FillInv ==
  ASSUME FdInv, NEW c \in Procs, life[c] = "free", NEW n \in {0, 3}, n <= Room,
         NEW ids, DOMAIN ids = 1 .. n, Len(ids) = n, \A i \in 1 .. n : ids[i] = TRUE,
         NEW locals, \A i \in 1 .. n : locals[i] = STDIO[i],
         Fill(c, ids, locals),
         life' = [life EXCEPT ![c] = "alive"], fd_count' = [fd_count EXCEPT ![c] = n]
  PROVE  FdInv'
<1> DEFINE new == Lowest(n)
<1>0. /\ new \in Seq(Slots) /\ DOMAIN new = 1 .. n /\ Len(new) = n /\ IsInjective(new)
      /\ Range(new) \subseteq Slots \ fd_used
  BY LowestLemma DEF FdInv, FdType
<1>1. /\ fd_used' = fd_used \cup Range(new)
      /\ fd_list' = [fd_list EXCEPT ![c] = new]
      /\ local_id' \in [Slots -> 0 .. 2] /\ of' \in [Slots -> BOOLEAN]
      /\ \A s \in Slots \ Range(new) : local_id'[s] = local_id[s] /\ of'[s] = of[s]
      /\ \A i \in 1 .. n : local_id'[new[i]] = STDIO[i] /\ of'[new[i]]
      /\ of_refs' = of_refs + n /\ ft_refs' = ft_refs /\ panicked' = panicked
  <2> DEFINE at == [s \in Range(new) |-> CHOOSE i \in DOMAIN new : new[i] = s]
  <2>1. /\ fd_used' = fd_used \cup Range(new)
        /\ fd_list' = [fd_list EXCEPT ![c] = new]
        /\ local_id' = [s \in Slots |-> IF s \in Range(new) THEN locals[at[s]] ELSE local_id[s]]
        /\ of' = [s \in Slots |-> IF s \in Range(new) THEN ids[at[s]] ELSE of[s]]
        /\ of_refs' = of_refs + Cardinality({i \in DOMAIN ids : ids[i]})
        /\ ft_refs' = ft_refs /\ panicked' = panicked
    <3>1. DOMAIN at = Range(new)
      OBVIOUS
    <3>2. Lowest(Len(ids)) = new
      BY Zenon
    <3> QED BY <3>1, <3>2 DEF Fill
  <2>2. /\ new \in Seq(Slots) /\ DOMAIN new = 1 .. n /\ IsInjective(new)
        /\ Range(new) \subseteq Slots \ fd_used
    BY <1>0, Zenon
  <2> HIDE DEF new
  <2>3. ASSUME NEW s \in Range(new)  PROVE at[s] \in 1 .. n /\ new[at[s]] = s
    <3>1. \E i \in DOMAIN new : new[i] = s
      BY Zenon DEF Range
    <3>2. at[s] = CHOOSE i \in DOMAIN new : new[i] = s
      BY Zenon
    <3> QED BY <3>1, <3>2, <2>2, Zenon
  <2>4. \A i \in 1 .. n : new[i] \in Range(new) /\ at[new[i]] = i /\ new[i] \in Slots
    <3>1. \A i \in 1 .. n : new[i] \in Range(new)
      BY <2>2, Zenon DEF Range
    <3> QED BY <3>1, <2>2, <2>3, Zenon DEF IsInjective
  <2>5. {i \in DOMAIN ids : ids[i]} = 1 .. n
    OBVIOUS
  <2>6. Cardinality(1 .. n) = n
    BY FS_Interval
  <2>7. \A i \in 1 .. n : STDIO[i] \in 0 .. 2
    BY DEF STDIO
  <2> HIDE DEF at
  <2>8. local_id' \in [Slots -> 0 .. 2]
    BY <2>1, <2>3, <2>7, Zenon DEF FdInv, FdType
  <2>9. of' \in [Slots -> BOOLEAN]
    BY <2>1, <2>3, Zenon DEF FdInv, FdType
  <2>10. \A s \in Slots \ Range(new) : local_id'[s] = local_id[s] /\ of'[s] = of[s]
    BY <2>1, Zenon
  <2>11. \A i \in 1 .. n : local_id'[new[i]] = STDIO[i] /\ of'[new[i]]
    BY <2>1, <2>4, Zenon
  <2> QED BY <2>1, <2>5, <2>6, <2>8, <2>9, <2>10, <2>11, Zenon DEF new
<1> HIDE DEF new
<1>3. /\ life' \in [Procs -> {"free", "alive", "zombie"}]
      /\ fd_list' \in [Procs -> Seq(Slots)] /\ fd_count' \in [Procs -> Nat]
      /\ fd_used' \subseteq Slots
  BY <1>1, <1>0 DEF FdInv, FdType
<1>4. fd_list[c] = <<>> /\ Range(fd_list[c]) = {}
  BY NoEntries DEF Range
<1>5. /\ fd_list'[c] = new /\ life'[c] = "alive" /\ fd_count'[c] = n
      /\ \A q \in Procs \ {c} : /\ fd_list'[q] = fd_list[q]
                                /\ life'[q] = life[q] /\ fd_count'[q] = fd_count[q]
  BY <1>1 DEF FdInv, FdType
<1>6. \A s \in fd_used' : \E p \in Procs : s \in Range(fd_list'[p])
  <2>1. ASSUME NEW s \in fd_used  PROVE \E p \in Procs : s \in Range(fd_list'[p])
    <3>1. PICK p \in Procs : s \in Range(fd_list[p])
      BY Zenon DEF FdInv, FdOwned
    <3>2. p # c
      BY <3>1, <1>4, Zenon
    <3> QED BY <3>1, <3>2, <1>5, Zenon
  <2> QED BY <2>1, <1>1, <1>5, Zenon
<1>7. ASSUME NEW p \in Procs, NEW q \in Procs, NEW s \in Slots,
             s \in Range(fd_list'[p]), s \in Range(fd_list'[q])
      PROVE  p = q
  <2>1. \A r \in Procs \ {c} : Range(fd_list'[r]) \subseteq fd_used
    BY <1>5, Zenon DEF FdInv, FdOwned
  <2>2. Range(fd_list'[c]) \cap fd_used = {}
    BY <1>0, <1>5, Zenon
  <2> QED BY <1>7, <2>1, <2>2, <1>5, Zenon DEF FdInv, FdOwned
<1>8. ASSUME NEW p \in Procs
      PROVE  /\ IsInjective(fd_list'[p])
             /\ Range(fd_list'[p]) \subseteq fd_used'
             /\ fd_list'[p] # <<>> => life'[p] = "alive"
  <2>1. CASE p = c
    <3>1. fd_list'[p] = new /\ life'[p] = "alive"
      BY <2>1, <1>5, Zenon
    <3> QED BY <3>1, <1>1, <1>0, Zenon
  <2>2. CASE p # c
    <3>1. fd_list'[p] = fd_list[p] /\ life'[p] = life[p]
      BY <2>2, <1>5, Zenon
    <3>2. Range(fd_list[p]) \subseteq fd_used'
      BY <1>1, Zenon DEF FdInv, FdOwned
    <3> QED BY <3>1, <3>2, Zenon DEF FdInv, FdOwned
  <2> QED BY <2>1, <2>2, Zenon
<1>9. ASSUME NEW p \in Procs, life'[p] = "alive"  PROVE Inherited(p)'
  <2>1. CASE p = c
    <3>1. [i \in DOMAIN new |-> local_id'[new[i]]] = [i \in 1 .. n |-> STDIO[i]]
      BY <1>1, <1>0
    <3>2. [i \in 1 .. n |-> STDIO[i]] \in {<<>>, STDIO}
      BY DEF STDIO
    <3>3. \A i \in DOMAIN new : of'[new[i]]
      BY <1>1, <1>0, Zenon
    <3>4. fd_list'[p] = new /\ fd_count'[p] = Len(new)
      BY <2>1, <1>0, <1>5, Zenon
    <3> QED BY <3>1, <3>2, <3>3, <3>4 DEF Inherited
  <2>2. CASE p # c
    <3>1. Inherited(p)
      BY <1>9, <2>2, <1>5, Zenon DEF FdInv, DescriptorsInherited, Inherited
    <3>2. \A s \in Range(fd_list[p]) : local_id'[s] = local_id[s] /\ of'[s] = of[s]
      BY <1>1, <1>0, Zenon DEF FdInv, FdOwned, FdType
    <3> QED BY <2>2, <3>1, <3>2, <1>5, StaysInherited, Zenon
  <2> QED BY <2>1, <2>2
<1>10. DescriptorsInherited'
  BY <1>9, Zenon DEF DescriptorsInherited, Inherited
<1>11. RefcountExact'
  <2> DEFINE old == {s \in fd_used : of[s]}
  <2>1. {s \in fd_used' : of'[s]} = old \cup Range(new)
    <3>1. ASSUME NEW s \in Range(new)  PROVE of'[s]
      <4>1. PICK i \in DOMAIN new : s = new[i]
        BY Zenon DEF Range
      <4> QED BY <4>1, <1>1, <1>0, Zenon
    <3>2. \A s \in fd_used : of'[s] = of[s]
      BY <1>1, <1>0, Zenon DEF FdInv, FdType
    <3> QED BY <3>1, <3>2, <1>1
  <2>2. IsFiniteSet(old) /\ Cardinality(old) \in Nat
    BY Opened, Zenon DEF FdInv, FdType
  <2>3. IsFiniteSet(Range(new)) /\ Cardinality(Range(new)) = n
    BY <1>0, RangeSize, Zenon
  <2>4. Cardinality(old \cup Range(new)) = Cardinality(old) + n
    <3>1. old \cap Range(new) = {}
      BY <1>0, Zenon
    <3> HIDE DEF old
    <3>2. Cardinality(old \cup Range(new))
            = Cardinality(old) + Cardinality(Range(new)) - Cardinality(old \cap Range(new))
      BY <2>2, <2>3, FS_Union, Zenon
    <3>3. Cardinality(old \cap Range(new)) = 0
      BY <3>1, FS_EmptySet, Zenon
    <3> QED BY <2>2, <2>3, <3>2, <3>3
  <2>5. of_refs = 1 + Cardinality(old) /\ ft_refs = 2 /\ ~panicked
    BY DEF FdInv, RefcountExact
  <2> HIDE DEF old
  <2>6. of_refs' = 1 + Cardinality(old \cup Range(new))
    BY <2>2, <2>4, <2>5, <1>1
  <2> QED BY <2>1, <2>5, <2>6, <1>1, Zenon DEF RefcountExact
<1> QED BY <1>1, <1>3, <1>6, <1>7, <1>8, <1>10, <1>11, Zenon DEF FdInv, FdType, FdOwned

\* An entry was refused and the ones before it are put back: no entry in use is
\* touched.
LEMMA UnwindInv ==
  ASSUME FdInv, NEW c \in Procs, life[c] = "free", NEW k \in Nat, k <= Room, Unwind(k),
         fd_list' = [fd_list EXCEPT ![c] = <<>>],
         NEW n \in Nat, fd_count' = [fd_count EXCEPT ![c] = n],
         life' = life \/ (life' = [life EXCEPT ![c] = "alive"] /\ n = 0)
  PROVE  FdInv'
<1> DEFINE new == Lowest(k)
<1>0. Range(new) \subseteq Slots \ fd_used
  BY LowestLemma DEF FdInv, FdType
<1>1. of_refs \in Nat /\ of_refs > 0 /\ ft_refs = 2 /\ ~panicked
       /\ of_refs = 1 + Cardinality({s \in fd_used : of[s]})
  <2>1. Cardinality({s \in fd_used : of[s]}) \in Nat
    BY Opened, Zenon DEF FdInv, FdType
  <2> QED BY <2>1 DEF FdInv, RefcountExact
<1>2. of_refs' = of_refs /\ ft_refs' = 2 /\ ~panicked' /\ fd_used' = fd_used
  <2> DEFINE refs == of_refs + k
  <2>1. ~(refs < k) /\ refs # k /\ refs - k = of_refs
    BY <1>1
  <2>2. open_file_put(refs, k) /\ fd_used' = fd_used
    BY Zenon DEF Unwind
  <2> HIDE DEF refs
  <2> QED BY <2>1, <2>2, <1>1, Zenon DEF open_file_put
<1>3. /\ local_id' = [s \in Slots |-> IF s \in Range(new) THEN 0 ELSE local_id[s]]
      /\ of' = [s \in Slots |-> IF s \in Range(new) THEN FALSE ELSE of[s]]
  BY Zenon DEF Unwind
<1> HIDE DEF new
<1>4. local_id' \in [Slots -> 0 .. 2] /\ of' \in [Slots -> BOOLEAN]
  <2>1. local_id' \in [Slots -> 0 .. 2]
    BY <1>3 DEF FdInv, FdType
  <2>2. of' \in [Slots -> BOOLEAN]
    BY <1>3, Zenon DEF FdInv, FdType
  <2> QED BY <2>1, <2>2
<1>5. \A s \in fd_used : local_id'[s] = local_id[s] /\ of'[s] = of[s]
  BY <1>0, <1>3, Zenon DEF FdInv, FdType
<1>6. fd_list' = fd_list
  <2>1. fd_list[c] = <<>>
    BY NoEntries, Zenon
  <2> QED BY <2>1 DEF FdInv, FdType
<1>7. life' \in [Procs -> {"free", "alive", "zombie"}] /\ fd_count' \in [Procs -> Nat]
  BY DEF FdInv, FdType
<1>8. FdType'
  BY <1>2, <1>4, <1>6, <1>7, Zenon DEF FdInv, FdType
<1>9. \A p \in Procs : life[p] = "alive" => life'[p] = "alive"
  BY DEF FdInv, FdType
<1>10. FdOwned'
  BY <1>2, <1>6, <1>9, Zenon DEF FdInv, FdOwned
<1>11. ASSUME NEW p \in Procs, life'[p] = "alive"  PROVE Inherited(p)'
  <2>1. CASE life[p] = "alive"
    <3>1. p # c /\ fd_count'[p] = fd_count[p]
      BY <2>1 DEF FdInv, FdType
    <3>2. Inherited(p)
      BY <2>1, Zenon DEF FdInv, DescriptorsInherited, Inherited
    <3>3. \A s \in Range(fd_list[p]) : local_id'[s] = local_id[s] /\ of'[s] = of[s]
      BY <1>5, Zenon DEF FdInv, FdOwned
    <3> QED BY <3>1, <3>2, <3>3, <1>6, StaysInherited, Zenon
  <2>2. CASE life[p] # "alive"
    <3>1. p = c /\ n = 0
      BY <2>2, <1>11 DEF FdInv, FdType
    <3>2. fd_list'[p] = <<>> /\ fd_count'[p] = 0
      BY <3>1 DEF FdInv, FdType
    <3> QED BY <3>2 DEF Inherited
  <2> QED BY <2>1, <2>2, Zenon
<1>12. DescriptorsInherited'
  BY <1>11, Zenon DEF DescriptorsInherited, Inherited
<1>13. {s \in fd_used' : of'[s]} = {s \in fd_used : of[s]}
  BY <1>2, <1>5
<1>14. RefcountExact'
  BY <1>1, <1>2, <1>13, Zenon DEF RefcountExact
<1> QED BY <1>8, <1>10, <1>12, <1>14, Zenon DEF FdInv

\* A process exits: every reference it held is dropped, never the last one.
LEMMA ExitInv ==
  ASSUME FdInv, NEW p \in Procs, Exit(p)
  PROVE  FdInv'
<1> DEFINE mine == Range(fd_list[p])
           on(S) == {s \in S : of[s]}
<1>1. /\ life[p] = "alive" /\ life' = [life EXCEPT ![p] = "zombie"]
      /\ open_file_put(of_refs, Cardinality(on(mine)))
      /\ fd_used' = fd_used \ mine
      /\ local_id' = [s \in Slots |-> IF s \in mine THEN 0 ELSE local_id[s]]
      /\ of' = [s \in Slots |-> IF s \in mine THEN FALSE ELSE of[s]]
      /\ fd_list' = [fd_list EXCEPT ![p] = <<>>]
      /\ fd_count' = [fd_count EXCEPT ![p] = 0]
  BY Zenon DEF Exit
<1>2. mine \subseteq fd_used
  BY Zenon DEF FdInv, FdOwned
<1> HIDE DEF mine
<1>3. /\ fd_list'[p] = <<>> /\ life'[p] = "zombie"
      /\ \A q \in Procs \ {p} : /\ fd_list'[q] = fd_list[q]
                                /\ life'[q] = life[q] /\ fd_count'[q] = fd_count[q]
  BY <1>1 DEF FdInv, FdType
<1>4. FdType'
  <2>1. local_id' \in [Slots -> 0 .. 2]
    BY <1>1 DEF FdInv, FdType
  <2>2. of' \in [Slots -> BOOLEAN]
    BY <1>1, Zenon DEF FdInv, FdType
  <2>3. /\ life' \in [Procs -> {"free", "alive", "zombie"}]
        /\ fd_list' \in [Procs -> Seq(Slots)] /\ fd_count' \in [Procs -> Nat]
        /\ fd_used' \subseteq Slots
    BY <1>1 DEF FdInv, FdType
  <2> QED BY <2>1, <2>2, <2>3, Zenon DEF FdType
<1>5. ASSUME NEW q \in Procs \ {p}  PROVE Range(fd_list[q]) \cap mine = {}
  BY <1>5, Zenon DEF FdInv, FdOwned, FdType, mine
<1>6. FdOwned'
  <2>0. Range(fd_list'[p]) = {} /\ IsInjective(fd_list'[p])
    BY <1>3 DEF Range, IsInjective
  <2>1. ASSUME NEW s \in fd_used'  PROVE \E q \in Procs : s \in Range(fd_list'[q])
    <3>1. s \in fd_used /\ s \notin mine
      BY <1>1, Zenon
    <3>2. PICK q \in Procs : s \in Range(fd_list[q])
      BY <3>1, Zenon DEF FdInv, FdOwned
    <3>3. q # p
      BY <3>1, <3>2, Zenon DEF mine
    <3> QED BY <3>2, <3>3, <1>3, Zenon
  <2>2. ASSUME NEW q \in Procs, NEW r \in Procs, NEW s \in Slots,
               s \in Range(fd_list'[q]), s \in Range(fd_list'[r])
        PROVE  q = r
    <3>1. q # p /\ r # p
      BY <2>0, <2>2, Zenon
    <3> QED BY <2>2, <3>1, <1>3, Zenon DEF FdInv, FdOwned
  <2>3. ASSUME NEW q \in Procs
        PROVE  /\ IsInjective(fd_list'[q])
               /\ Range(fd_list'[q]) \subseteq fd_used'
               /\ fd_list'[q] # <<>> => life'[q] = "alive"
    <3>1. CASE q = p
      BY <3>1, <2>0, <1>3, Zenon
    <3>2. CASE q # p
      <4>1. Range(fd_list[q]) \subseteq fd_used'
        BY <3>2, <1>1, <1>5, Zenon DEF FdInv, FdOwned
      <4> QED BY <3>2, <4>1, <1>3, Zenon DEF FdInv, FdOwned
    <3> QED BY <3>1, <3>2, Zenon
  <2> QED BY <2>1, <2>2, <2>3, Zenon DEF FdOwned
<1>7. ASSUME NEW q \in Procs, life'[q] = "alive"  PROVE Inherited(q)'
  <2>1. q # p /\ life[q] = "alive"
    BY <1>3, <1>7
  <2>2. Inherited(q)
    BY <2>1, Zenon DEF FdInv, DescriptorsInherited, Inherited
  <2>3. \A s \in Range(fd_list[q]) : local_id'[s] = local_id[s] /\ of'[s] = of[s]
    BY <2>1, <1>1, <1>5, Zenon DEF FdInv, FdOwned, FdType
  <2> QED BY <2>1, <2>2, <2>3, <1>3, StaysInherited, Zenon
<1>8. DescriptorsInherited'
  BY <1>7, Zenon DEF DescriptorsInherited, Inherited
<1>9. RefcountExact'
  <2>1. {s \in fd_used' : of'[s]} = on(fd_used) \ on(mine)
    BY <1>1 DEF FdInv, FdType
  <2>2. IsFiniteSet(on(fd_used)) /\ Cardinality(on(fd_used)) \in Nat
    BY Opened, Zenon DEF FdInv, FdType
  <2>3. on(mine) \in SUBSET on(fd_used)
    BY <1>2
  <2>4. /\ of_refs = 1 + Cardinality(on(fd_used)) /\ ft_refs = 2 /\ ~panicked
    BY DEF FdInv, RefcountExact
  <2> HIDE DEF on
  <2>5. Cardinality(on(mine)) \in Nat /\ Cardinality(on(mine)) <= Cardinality(on(fd_used))
    <3>1. IsFiniteSet(on(mine)) /\ Cardinality(on(mine)) <= Cardinality(on(fd_used))
      BY <2>2, <2>3, FS_Subset, Zenon
    <3> QED BY <3>1, FS_CardinalityType, Zenon
  <2>6. Cardinality(on(fd_used) \ on(mine)) = Cardinality(on(fd_used)) - Cardinality(on(mine))
    <3>1. on(fd_used) \cap on(mine) = on(mine)
      BY <2>3, Zenon
    <3> QED BY <2>2, <3>1, FS_Difference, Zenon
  <2>7. /\ of_refs' = of_refs - Cardinality(on(mine)) /\ ft_refs' = 2 /\ ~panicked'
    <3>1. /\ ~(of_refs < Cardinality(on(mine))) /\ of_refs # Cardinality(on(mine))
      BY <2>2, <2>4, <2>5
    <3> QED BY <3>1, <2>4, <1>1, Zenon DEF open_file_put
  <2>8. of_refs' = 1 + Cardinality(on(fd_used) \ on(mine))
    BY <2>2, <2>4, <2>5, <2>6, <2>7
  <2> QED BY <2>1, <2>7, <2>8, Zenon DEF RefcountExact
<1> QED BY <1>4, <1>6, <1>8, <1>9, Zenon DEF FdInv

-----------------------------------------------------------------------------
(* The steps.                                                               *)

\* The state after console_init.
LEMMA InitInv == Init => FdInv
<1> SUFFICES ASSUME Init PROVE FdInv
  OBVIOUS
<1>1. FdType
  BY DEF Init, FdType
<1>2. ASSUME NEW p \in Procs  PROVE fd_list[p] = <<>> /\ life[p] # "alive"
  BY DEF Init
<1>3. FdOwned
  <2>1. ASSUME NEW p \in Procs  PROVE Range(fd_list[p]) = {} /\ IsInjective(fd_list[p])
    BY <1>2 DEF Range, IsInjective
  <2> QED BY <1>2, <2>1 DEF Init, FdOwned
<1>4. DescriptorsInherited
  BY <1>2, Zenon DEF DescriptorsInherited
<1>5. RefcountExact
  <2>1. {s \in fd_used : of[s]} = {}
    BY Zenon DEF Init
  <2>2. Cardinality({s \in fd_used : of[s]}) = 0
    BY <2>1, FS_EmptySet, Zenon
  <2> QED BY <2>2 DEF Init, RefcountExact
<1> QED BY <1>1, <1>3, <1>4, <1>5 DEF FdInv

\* The first process gets its descriptors.
LEMMA BootstrapInv ==
  ASSUME FdInv, NEW p \in Procs, BootstrapStdio(p)
  PROVE  FdInv'
<1>1. life[p] = "free" /\ life' = [life EXCEPT ![p] = "alive"]
  BY Zenon DEF BootstrapStdio
<1>2. Room \in Nat
  BY SlotsFinite DEF FdInv, FdType, Room
<1>3. CASE /\ Room >= 3 /\ Fill(p, <<TRUE, TRUE, TRUE>>, STDIO)
           /\ fd_count' = [fd_count EXCEPT ![p] = 3]
  <2>1. 3 <= Room
    BY <1>2, <1>3
  <2> DEFINE ids == <<TRUE, TRUE, TRUE>>
  <2>2. DOMAIN ids = 1 .. 3 /\ Len(ids) = 3 /\ \A i \in 1 .. 3 : ids[i] = TRUE
    OBVIOUS
  <2>3. Fill(p, ids, STDIO)
    BY <1>3
  <2> HIDE DEF ids
  <2> QED BY <1>1, <1>3, <2>1, <2>2, <2>3, FillInv
<1>4. CASE /\ \E k \in 0 .. 2 : k <= Room /\ Unwind(k)
           /\ fd_list' = [fd_list EXCEPT ![p] = <<>>]
           /\ fd_count' = [fd_count EXCEPT ![p] = 0]
  <2>1. PICK k \in 0 .. 2 : k <= Room /\ Unwind(k)
    BY <1>4, Zenon
  <2>2. k \in Nat /\ 0 \in Nat
    OBVIOUS
  <2> QED BY <1>1, <1>4, <2>1, <2>2, UnwindInv, Zenon
<1> QED BY <1>3, <1>4, Zenon DEF BootstrapStdio

\* fork copies the descriptors or gives back what it took.
LEMMA ForkInv ==
  ASSUME FdInv, NEW p \in Procs, NEW c \in Procs, _fork(p, c)
  PROVE  FdInv'
<1> DEFINE src == fd_list[p]
           ids == [i \in DOMAIN src |-> of[src[i]]]
           locals == [i \in DOMAIN src |-> local_id[src[i]]]
<1>1. life[p] = "alive" /\ life[c] = "free"
  BY Zenon DEF _fork
<1>2. Room \in Nat
  BY SlotsFinite DEF FdInv, FdType, Room
<1>3. src \in Seq(Slots)
  BY DEF FdInv, FdType
<1>4. /\ Len(src) \in {0, 3} /\ fd_count[p] = Len(src)
      /\ \A i \in 1 .. Len(src) : of[src[i]] = TRUE /\ local_id[src[i]] = STDIO[i]
  BY <1>1, Entries
<1>5. CASE /\ Room >= Len(src) /\ Fill(c, ids, locals)
           /\ life' = [life EXCEPT ![c] = "alive"]
           /\ fd_count' = [fd_count EXCEPT ![c] = fd_count[p]]
  <2>1. Len(src) <= Room
    BY <1>2, <1>4, <1>5
  <2>2. DOMAIN ids = 1 .. Len(src) /\ Len(ids) = Len(src)
        /\ \A i \in 1 .. Len(src) : ids[i] = TRUE /\ locals[i] = STDIO[i]
    BY <1>3, <1>4
  <2>3. fd_count' = [fd_count EXCEPT ![c] = Len(src)]
    BY <1>4, <1>5, Zenon
  <2>4. Fill(c, ids, locals) /\ life' = [life EXCEPT ![c] = "alive"]
    BY <1>5
  <2> HIDE DEF ids, locals, src
  <2> QED BY <1>1, <1>4, <2>1, <2>2, <2>3, <2>4, FillInv
<1>6. CASE /\ \E k \in 0 .. Len(src) - 1 : k <= Room /\ Unwind(k)
           /\ fd_list' = [fd_list EXCEPT ![c] = <<>>]
           /\ fd_count' = [fd_count EXCEPT ![c] = fd_count[p]]
           /\ life' = life
  <2>1. PICK k \in 0 .. Len(src) - 1 : k <= Room /\ Unwind(k)
    BY <1>6, Zenon
  <2>2. k \in Nat /\ Len(src) \in Nat
    BY <1>4
  <2> QED BY <1>1, <1>4, <1>6, <2>1, <2>2, UnwindInv, Zenon
<1> QED BY <1>5, <1>6, Zenon DEF _fork

\* Every step keeps the invariant.
LEMMA NextInv == FdInv /\ [Next]_vars => FdInv'
<1> SUFFICES ASSUME FdInv, [Next]_vars  PROVE FdInv'
  OBVIOUS
<1>1. ASSUME NEW p \in Procs, Reap(p)  PROVE FdInv'
  <2>1. /\ life[p] = "zombie" /\ life' = [life EXCEPT ![p] = "free"]
        /\ UNCHANGED fdVars /\ UNCHANGED panicked
    BY <1>1, Zenon DEF Reap
  <2>2. /\ life' \in [Procs -> {"free", "alive", "zombie"}]
        /\ \A q \in Procs : life'[q] = "alive" <=> life[q] = "alive"
    BY <2>1 DEF FdInv, FdType
  <2>3. FdType'
    BY <2>1, <2>2, Zenon DEF FdInv, FdType, fdVars
  <2>4. FdOwned'
    BY <2>1, <2>2, Zenon DEF FdInv, FdOwned, fdVars
  <2>5. DescriptorsInherited'
    <3>1. \A q \in Procs : life[q] = "alive" => Inherited(q)
      BY Zenon DEF FdInv, DescriptorsInherited, Inherited
    <3>2. ASSUME NEW q \in Procs  PROVE Inherited(q) => Inherited(q)'
      BY <2>1, Zenon DEF Inherited, fdVars
    <3>3. \A q \in Procs : life'[q] = "alive" => Inherited(q)'
      BY <3>1, <3>2, <2>2, Zenon
    <3> QED BY <3>3, Zenon DEF DescriptorsInherited, Inherited
  <2>6. RefcountExact'
    BY <2>1, Zenon DEF FdInv, RefcountExact, fdVars
  <2> QED BY <2>3, <2>4, <2>5, <2>6, Zenon DEF FdInv
<1>2. ASSUME UNCHANGED <<life, fdVars, panicked>>  PROVE FdInv'
  <2>1. FdType'
    BY <1>2, Zenon DEF FdInv, FdType, fdVars
  <2>2. FdOwned'
    BY <1>2, Zenon DEF FdInv, FdOwned, fdVars
  <2>3. DescriptorsInherited'
    BY <1>2, Zenon DEF FdInv, DescriptorsInherited, fdVars
  <2>4. RefcountExact'
    BY <1>2, Zenon DEF FdInv, RefcountExact, fdVars
  <2> QED BY <2>1, <2>2, <2>3, <2>4, Zenon DEF FdInv
<1>3. CASE UNCHANGED vars
  BY <1>2, <1>3, Zenon DEF vars
<1>4. CASE Next
  BY <1>1, <1>4, BootstrapInv, ForkInv, ExitInv, Zenon DEF Next
<1> QED BY <1>3, <1>4, Zenon

-----------------------------------------------------------------------------
(* Theorems.                                                                *)

\* The inductive invariant holds.
LEMMA Invariant == Spec => []FdInv
BY InitInv, NextInv, PTL DEF Spec

\* The reference count of the console's open file is exact through every
\* bootstrap, fork, unwound fork and exit: open_file_put never takes the last
\* reference and never panics.
THEOREM ReferencesCounted == Spec => []RefcountExact
<1>1. FdInv => RefcountExact
  BY DEF FdInv
<1> QED BY <1>1, Invariant, PTL

\* An entry of the descriptor pool in use is on one list, once, and the owner
\* of the list is alive: sched_clone_fork's unwinding and
\* sched_proc_cleanup_fds leak nothing and share nothing.
THEOREM EntriesOwned == Spec => []EntriesOwnedOnce
<1>1. FdInv => EntriesOwnedOnce
  <2> SUFFICES ASSUME FdInv PROVE EntriesOwnedOnce
    OBVIOUS
  <2>1. ASSUME NEW s \in fd_used
        PROVE  Cardinality({p \in Procs : s \in Range(fd_list[p])}) = 1
    <3>1. PICK p \in Procs : s \in Range(fd_list[p])
      BY Zenon DEF FdInv, FdOwned
    <3>2. {q \in Procs : s \in Range(fd_list[q])} = {p}
      <4>1. \A q \in Procs : s \in Range(fd_list[q]) => q = p
        BY <3>1, Zenon DEF FdInv, FdOwned, FdType
      <4> QED BY <3>1, <4>1, Zenon
    <3> QED BY <3>2, FS_Singleton, Zenon
  <2> QED BY <2>1, Zenon DEF EntriesOwnedOnce, FdInv, FdOwned
<1> QED BY <1>1, Invariant, PTL

\* Every live process has descriptors 0, 1 and 2 on the console or none at
\* all, whatever forks were refused in between.
THEOREM DescriptorsKept == Spec => []DescriptorsInherited
<1>1. FdInv => DescriptorsInherited
  BY DEF FdInv
<1> QED BY <1>1, Invariant, PTL

=============================================================================
