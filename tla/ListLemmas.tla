----------------------------- MODULE ListLemmas -----------------------------
(* Facts about scans and duplicate-free lists that the proofs share.        *)
EXTENDS Integers, Sequences, FiniteSets, FiniteSetsExt, Lists,
        TLAPS

\* The numbers are well ordered.  The lemmas that scan slots or positions
\* assume it, and the theorems cite the library that proves it: the prover
\* carries everything a module can see into each of its obligations.
WellOrdered == \A S \in SUBSET Nat : S # {} => \E x \in S : \A y \in S : x <= y

\* A scan of slots or positions that stops at the first hit finds the least
\* one there is.
LEMMA MinLemma ==
  ASSUME WellOrdered, NEW S \in SUBSET Nat, S # {}
  PROVE  Min(S) \in S /\ \A y \in S : Min(S) <= y
<1>1. \E x \in S : \A y \in S : x <= y
  BY Zenon DEF WellOrdered
<1> QED
  BY <1>1, Zenon DEF Min

\* Appending at the tail.
LEMMA AppendLemma ==
  ASSUME NEW S, NEW s \in Seq(S), NEW e \in S
  PROVE  /\ Append(s, e) \in Seq(S)
         /\ Range(Append(s, e)) = Range(s) \cup {e}
         /\ Len(Append(s, e)) = Len(s) + 1
         /\ IsInjective(s) /\ e \notin Range(s) => IsInjective(Append(s, e))
<1> DEFINE r == Append(s, e)
<1>1. /\ r \in Seq(S) /\ Len(r) = Len(s) + 1 /\ r[Len(s) + 1] = e
      /\ \A i \in 1 .. Len(s) : r[i] = s[i]
  OBVIOUS
<1>2. DOMAIN r = 1 .. Len(s) + 1 /\ DOMAIN s = 1 .. Len(s) /\ Len(s) \in Nat
  BY <1>1
<1> HIDE DEF r
<1>3. \A j \in DOMAIN r : j = Len(s) + 1 \/ j \in DOMAIN s
  BY <1>2
<1>4. Range(r) = Range(s) \cup {e}
  BY <1>1, <1>2, <1>3 DEF Range
<1>5. IsInjective(s) /\ e \notin Range(s) => IsInjective(r)
  BY <1>1, <1>2, <1>3 DEF Range, IsInjective
<1> QED
  BY <1>1, <1>4, <1>5 DEF r

\* The elements of a list with one more.
LEMMA AppendRange ==
  ASSUME NEW S, NEW s \in Seq(S), NEW e \in S
  PROVE  Range(Append(s, e)) = Range(s) \cup {e}
  BY AppendLemma

\* Pushing at the head.
LEMMA PushLemma ==
  ASSUME NEW S, NEW s \in Seq(S), NEW e \in S
  PROVE  /\ <<e>> \o s \in Seq(S)
         /\ Range(<<e>> \o s) = Range(s) \cup {e}
         /\ IsInjective(s) /\ e \notin Range(s) => IsInjective(<<e>> \o s)
<1> DEFINE r == <<e>> \o s
<1>1. r \in Seq(S) /\ Len(r) = Len(s) + 1 /\ r[1] = e
       /\ \A i \in 1 .. Len(s) : r[i + 1] = s[i]
  OBVIOUS
<1>2. \A j \in 1 .. Len(r) : j = 1 \/ (j - 1 \in 1 .. Len(s) /\ r[j] = s[j - 1])
  BY <1>1
<1>3. DOMAIN r = 1 .. Len(r) /\ DOMAIN s = 1 .. Len(s) /\ Len(s) \in Nat
  BY <1>1
<1> HIDE DEF r
<1>4. Range(r) = Range(s) \cup {e}
  <2>1. e \in Range(r)
    BY <1>1, <1>3 DEF Range
  <2>2. Range(s) \subseteq Range(r)
    <3>1. \A i \in DOMAIN s : i + 1 \in DOMAIN r /\ r[i + 1] = s[i]
      BY <1>1, <1>3
    <3> QED BY <3>1 DEF Range
  <2>3. Range(r) \subseteq Range(s) \cup {e}
    <3>1. \A j \in DOMAIN r : r[j] = e \/ \E i \in DOMAIN s : r[j] = s[i]
      BY <1>1, <1>2, <1>3
    <3> QED BY <3>1 DEF Range
  <2> QED BY <2>1, <2>2, <2>3
<1>5. ASSUME IsInjective(s), e \notin Range(s), NEW j \in DOMAIN r, NEW k \in DOMAIN r,
             r[j] = r[k]
      PROVE  j = k
  <2>1. \A i \in DOMAIN s : s[i] # e
    BY <1>5 DEF Range
  <2>2. j \in Int /\ k \in Int
    BY <1>3
  <2>3. j = 1 \/ (j - 1 \in DOMAIN s /\ r[j] = s[j - 1])
    BY <1>2, <1>3
  <2>4. k = 1 \/ (k - 1 \in DOMAIN s /\ r[k] = s[k - 1])
    BY <1>2, <1>3
  <2>5. j # 1 /\ k # 1 => j - 1 = k - 1
    BY <2>3, <2>4, <1>5 DEF IsInjective
  <2>6. r[1] = e
    BY <1>1
  <2> QED BY <2>1, <2>2, <2>3, <2>4, <2>5, <2>6, <1>5
<1> QED
  BY <1>1, <1>4, <1>5 DEF r, IsInjective

\* One list behind another.
LEMMA ConcatLemma ==
  ASSUME NEW S, NEW a \in Seq(S), NEW b \in Seq(S)
  PROVE  /\ a \o b \in Seq(S) /\ Len(a \o b) = Len(a) + Len(b)
         /\ \A j \in 1 .. Len(a) + Len(b) :
              (a \o b)[j] = IF j <= Len(a) THEN a[j] ELSE b[j - Len(a)]
  OBVIOUS

\* Taking the i-th element out.
LEMMA RemoveLemma ==
  ASSUME NEW S, NEW s \in Seq(S), NEW i \in DOMAIN s, IsInjective(s)
  PROVE  /\ RemoveAt(s, i) \in Seq(S)
         /\ Range(RemoveAt(s, i)) = Range(s) \ {s[i]}
         /\ Len(RemoveAt(s, i)) = Len(s) - 1
         /\ IsInjective(RemoveAt(s, i))
<1> DEFINE a == SubSeq(s, 1, i - 1)
           b == SubSeq(s, i + 1, Len(s))
           r == a \o b
<1>0. DOMAIN s = 1 .. Len(s) /\ Len(s) \in Nat /\ i \in 1 .. Len(s)
       /\ \A j \in 1 .. Len(s) : s[j] \in S
  OBVIOUS
<1>1. a \in Seq(S) /\ Len(a) = i - 1 /\ \A j \in 1 .. i - 1 : a[j] = s[j]
  BY <1>0
<1>2. b \in Seq(S) /\ Len(b) = Len(s) - i /\ \A j \in 1 .. Len(s) - i : b[j] = s[i + j]
  <2>1. Len(b) = Len(s) - i
    BY <1>0
  <2>2. b \in Seq(S)
    BY <1>0
  <2>3. ASSUME NEW j \in 1 .. Len(s) - i  PROVE b[j] = s[i + j]
    <3>1. b[j] = s[(i + 1) + j - 1]
      BY <1>0, <2>3
    <3>2. (i + 1) + j - 1 = i + j
      BY <1>0
    <3> QED BY <3>1, <3>2
  <2> QED BY <2>1, <2>2, <2>3
<1> HIDE DEF a, b
<1>3. /\ r \in Seq(S) /\ Len(r) = Len(s) - 1
      /\ \A j \in 1 .. Len(s) - 1 : r[j] = IF j <= i - 1 THEN a[j] ELSE b[j - (i - 1)]
  <2>1. Len(a) + Len(b) = Len(s) - 1
    BY <1>0, <1>1, <1>2
  <2>2. /\ r \in Seq(S) /\ Len(r) = Len(a) + Len(b)
        /\ \A j \in 1 .. Len(a) + Len(b) :
             r[j] = IF j <= Len(a) THEN a[j] ELSE b[j - Len(a)]
    BY <1>1, <1>2, ConcatLemma, Zenon
  <2> QED BY <2>1, <2>2, <1>1
<1>4. ASSUME NEW j \in 1 .. Len(s) - 1
      PROVE  r[j] = IF j < i THEN s[j] ELSE s[j + 1]
  <2>1. CASE j < i
    BY <2>1, <1>0, <1>1, <1>3
  <2>2. CASE ~(j < i)
    <3>1. j - (i - 1) \in 1 .. Len(s) - i
      BY <2>2, <1>0
    <3>2. r[j] = b[j - (i - 1)]
      BY <2>2, <1>0, <1>3
    <3>3. b[j - (i - 1)] = s[i + (j - (i - 1))]
      BY <3>1, <1>2
    <3>4. i + (j - (i - 1)) = j + 1
      BY <1>0
    <3> QED BY <2>2, <3>2, <3>3, <3>4
  <2> QED BY <2>1, <2>2, Zenon
<1>5. DOMAIN r = 1 .. Len(s) - 1
  BY <1>3
<1> HIDE DEF r
<1>6. IsInjective(r)
  BY <1>0, <1>4, <1>5 DEF IsInjective
<1>7. Range(r) \subseteq Range(s) \ {s[i]}
  BY <1>0, <1>4, <1>5 DEF IsInjective, Range
<1>8. ASSUME NEW k \in 1 .. Len(s), k # i  PROVE s[k] \in Range(r)
  <2>1. CASE k < i
    BY <2>1, <1>0, <1>4, <1>5 DEF Range
  <2>2. CASE k > i
    <3>1. k - 1 \in DOMAIN r /\ r[k - 1] = s[k]
      BY <2>2, <1>0, <1>4, <1>5
    <3> QED BY <3>1 DEF Range
  <2> QED BY <2>1, <2>2, <1>8, <1>0
<1>9. Range(s) \ {s[i]} \subseteq Range(r)
  BY <1>8, <1>0 DEF Range
<1> QED
  BY <1>3, <1>6, <1>7, <1>9 DEF r, a, b, RemoveAt

\* What is behind the first k elements.
LEMMA SuffixLemma ==
  ASSUME NEW S, NEW s \in Seq(S), NEW k \in Nat, k <= Len(s)
  PROVE  LET b == SubSeq(s, k + 1, Len(s))
         IN b \in Seq(S) /\ Len(b) = Len(s) - k /\ \A j \in 1 .. Len(s) - k : b[j] = s[k + j]
  OBVIOUS

\* Without its first k elements a list keeps the others.
LEMMA DropLemma ==
  ASSUME NEW S, NEW s \in Seq(S), NEW k \in 0 .. Len(s), IsInjective(s)
  PROVE  LET b == SubSeq(s, k + 1, Len(s))
         IN /\ b \in Seq(S) /\ IsInjective(b)
            /\ \A x : x \in Range(b) <=> x \in Range(s) /\ \A i \in 1 .. k : x # s[i]
<1> DEFINE b == SubSeq(s, k + 1, Len(s))
<1>1. Len(s) \in Nat /\ k \in Nat /\ k <= Len(s) /\ DOMAIN s = 1 .. Len(s)
  OBVIOUS
<1>2. b \in Seq(S) /\ Len(b) = Len(s) - k /\ \A j \in 1 .. Len(s) - k : b[j] = s[k + j]
  BY <1>1, SuffixLemma, Zenon
<1> HIDE DEF b
<1>3. DOMAIN b = 1 .. Len(s) - k
  BY <1>1, <1>2
<1>4. \A j \in 1 .. Len(s) - k : k + j \in 1 .. Len(s)
  BY <1>1
<1>5. \A i, j \in 1 .. Len(s) : s[i] = s[j] => i = j
  BY <1>1, Zenon DEF IsInjective
<1>6. ASSUME NEW i \in 1 .. Len(s) - k, NEW j \in 1 .. Len(s) - k, b[i] = b[j] PROVE i = j
  <2>1. k + i = k + j
    BY <1>2, <1>4, <1>5, <1>6, Zenon
  <2> QED BY <2>1, <1>1
<1>7. IsInjective(b)
  BY <1>3, <1>6, Zenon DEF IsInjective
<1>8. ASSUME NEW j \in 1 .. Len(s) - k, NEW i \in 1 .. k PROVE b[j] # s[i]
  <2>1. i \in 1 .. Len(s) /\ k + j # i
    BY <1>1
  <2> QED BY <2>1, <1>2, <1>4, <1>5, Zenon
<1>9. ASSUME NEW i \in 1 .. Len(s), i \notin 1 .. k PROVE s[i] \in Range(b)
  <2>1. i - k \in 1 .. Len(s) - k /\ k + (i - k) = i
    BY <1>1, <1>9
  <2> QED BY <2>1, <1>2, <1>3, Zenon DEF Range
<1>10. \A x : x \in Range(b) <=> x \in Range(s) /\ \A i \in 1 .. k : x # s[i]
  <2>1. ASSUME NEW x \in Range(b) PROVE x \in Range(s) /\ \A i \in 1 .. k : x # s[i]
    <3>1. PICK j \in 1 .. Len(s) - k : x = b[j]
      BY <1>3, Zenon DEF Range
    <3> QED BY <3>1, <1>1, <1>2, <1>4, <1>8, Zenon DEF Range
  <2>2. ASSUME NEW x \in Range(s), \A i \in 1 .. k : x # s[i] PROVE x \in Range(b)
    <3>1. PICK i \in 1 .. Len(s) : x = s[i]
      BY <1>1, Zenon DEF Range
    <3> QED BY <3>1, <2>2, <1>9, Zenon
  <2> QED BY <2>1, <2>2, Zenon
<1> QED BY <1>2, <1>7, <1>10, Zenon DEF b

\* ... in their order.
LEMMA DropOrder ==
  ASSUME NEW S, NEW s \in Seq(S), NEW k \in 0 .. Len(s)
  PROVE  LET b == SubSeq(s, k + 1, Len(s))
         IN \A i, j \in DOMAIN b : i < j =>
              \E m, n \in DOMAIN s : m < n /\ b[i] = s[m] /\ b[j] = s[n]
<1> DEFINE b == SubSeq(s, k + 1, Len(s))
<1>1. Len(s) \in Nat /\ k \in Nat /\ k <= Len(s) /\ DOMAIN s = 1 .. Len(s)
  OBVIOUS
<1>2. b \in Seq(S) /\ Len(b) = Len(s) - k /\ \A j \in 1 .. Len(s) - k : b[j] = s[k + j]
  BY <1>1, SuffixLemma, Zenon
<1> HIDE DEF b
<1>3. DOMAIN b = 1 .. Len(s) - k
  BY <1>1, <1>2
<1>4. \A j \in 1 .. Len(s) - k : k + j \in 1 .. Len(s)
  BY <1>1
<1>5. ASSUME NEW i \in DOMAIN b, NEW j \in DOMAIN b, i < j
      PROVE  \E m, n \in DOMAIN s : m < n /\ b[i] = s[m] /\ b[j] = s[n]
  <2>1. i \in 1 .. Len(s) - k /\ j \in 1 .. Len(s) - k
    BY <1>3, Zenon
  <2>2. k + i < k + j
    BY <1>1, <1>5, <2>1
  <2> QED BY <2>1, <2>2, <1>1, <1>2, <1>4, Zenon
<1> QED BY <1>5, Zenon DEF b

\* Putting an element in behind the first k.
LEMMA InsertLemma ==
  ASSUME NEW S, NEW s \in Seq(S), NEW e \in S, NEW k \in 0 .. Len(s)
  PROVE  LET r == InsertAt(s, k + 1, e)
         IN /\ r \in Seq(S) /\ DOMAIN r = 1 .. Len(s) + 1
            /\ \A j \in 1 .. Len(s) + 1 :
                 r[j] = IF j <= k THEN s[j] ELSE IF j = k + 1 THEN e ELSE s[j - 1]
            /\ Range(r) = Range(s) \cup {e}
            /\ IsInjective(s) /\ e \notin Range(s) => IsInjective(r)
<1> DEFINE r == InsertAt(s, k + 1, e)
           a == SubSeq(s, 1, k)
           b == SubSeq(s, k + 1, Len(s))
           c == a \o <<e>>
<1>0. DOMAIN s = 1 .. Len(s) /\ Len(s) \in Nat /\ k \in Nat /\ k <= Len(s)
       /\ \A j \in 1 .. Len(s) : s[j] \in S
  OBVIOUS
<1>1. a \in Seq(S) /\ Len(a) = k /\ \A j \in 1 .. k : a[j] = s[j]
  BY <1>0
<1>2. b \in Seq(S) /\ Len(b) = Len(s) - k /\ \A j \in 1 .. Len(s) - k : b[j] = s[k + j]
  BY <1>0, SuffixLemma, Zenon
<1>3. r = c \o b
  <2>1. (k + 1) - 1 = k
    BY <1>0
  <2> QED BY <2>1, Zenon DEF InsertAt
<1> HIDE DEF a, b, r
<1>4. c \in Seq(S) /\ Len(c) = k + 1 /\ c[k + 1] = e /\ \A j \in 1 .. k : c[j] = s[j]
  <2> DEFINE one == <<e>>
  <2>1. one \in Seq(S) /\ Len(one) = 1 /\ one[1] = e
    OBVIOUS
  <2> HIDE DEF one
  <2>2. /\ c \in Seq(S) /\ Len(c) = Len(a) + Len(one)
        /\ \A j \in 1 .. Len(a) + Len(one) :
             c[j] = IF j <= Len(a) THEN a[j] ELSE one[j - Len(a)]
    BY <2>1, <1>1, ConcatLemma DEF one
  <2> HIDE DEF c
  <2>3. /\ k + 1 \in 1 .. k + 1 /\ ~(k + 1 <= k) /\ (k + 1) - k = 1
        /\ \A j \in 1 .. k : j <= k /\ j \in 1 .. k + 1
    BY <1>0
  <2>4. Len(a) = k /\ Len(one) = 1
    BY <1>1, <2>1
  <2>5. /\ c \in Seq(S) /\ Len(c) = k + 1
        /\ \A j \in 1 .. k + 1 : c[j] = IF j <= k THEN a[j] ELSE one[j - k]
    BY <2>2, <2>4, Zenon
  <2>6. c[k + 1] = e
    BY <2>1, <2>3, <2>5, Zenon
  <2>7. \A j \in 1 .. k : c[j] = s[j]
    BY <2>3, <2>5, <1>1, Zenon
  <2> QED BY <2>5, <2>6, <2>7, Zenon
<1> HIDE DEF c
<1>5. /\ r \in Seq(S) /\ DOMAIN r = 1 .. Len(s) + 1
      /\ \A j \in 1 .. Len(s) + 1 : r[j] = IF j <= k + 1 THEN c[j] ELSE b[j - (k + 1)]
  <2>1. Len(c) + Len(b) = Len(s) + 1 /\ Len(c) = k + 1
    BY <1>0, <1>2, <1>4
  <2>2. /\ r \in Seq(S) /\ Len(r) = Len(c) + Len(b)
        /\ \A j \in 1 .. Len(c) + Len(b) :
             r[j] = IF j <= Len(c) THEN c[j] ELSE b[j - Len(c)]
    <3>1. c \in Seq(S) /\ b \in Seq(S)
      BY <1>2, <1>4, Zenon
    <3>2. /\ c \o b \in Seq(S) /\ Len(c \o b) = Len(c) + Len(b)
          /\ \A j \in 1 .. Len(c) + Len(b) :
               (c \o b)[j] = IF j <= Len(c) THEN c[j] ELSE b[j - Len(c)]
      BY <3>1, ConcatLemma
    <3> QED BY <3>2, <1>3, Zenon
  <2>3. DOMAIN r = 1 .. Len(r)
    BY <2>2
  <2> QED BY <2>1, <2>2, <2>3, Zenon
<1>6. ASSUME NEW j \in 1 .. Len(s) + 1
      PROVE  r[j] = IF j <= k THEN s[j] ELSE IF j = k + 1 THEN e ELSE s[j - 1]
  <2>1. CASE j <= k
    <3>1. j \in 1 .. k /\ j <= k + 1
      BY <2>1, <1>0
    <3> QED BY <2>1, <3>1, <1>4, <1>5, Zenon
  <2>2. CASE j = k + 1
    <3>1. ~(j <= k) /\ j <= k + 1
      BY <2>2, <1>0
    <3> QED BY <2>2, <3>1, <1>4, <1>5, Zenon
  <2>3. CASE j > k + 1
    <3>1. ~(j <= k) /\ j # k + 1 /\ ~(j <= k + 1) /\ j - (k + 1) \in 1 .. Len(s) - k
          /\ k + (j - (k + 1)) = j - 1
      BY <2>3, <1>0
    <3>2. r[j] = b[j - (k + 1)]
      BY <3>1, <1>5, Zenon
    <3>3. b[j - (k + 1)] = s[k + (j - (k + 1))]
      BY <3>1, <1>2
    <3> QED BY <3>1, <3>2, <3>3
  <2> QED BY <2>1, <2>2, <2>3, <1>0
<1>7. ASSUME IsInjective(s), e \notin Range(s)  PROVE IsInjective(r)
  <2>1. \A j \in 1 .. Len(s) : s[j] # e
    BY <1>0, <1>7 DEF Range
  <2>2. \A i, j \in 1 .. Len(s) : s[i] = s[j] => i = j
    BY <1>0, <1>7 DEF IsInjective
  <2>3. ASSUME NEW i \in 1 .. Len(s) + 1, NEW j \in 1 .. Len(s) + 1, i < j  PROVE r[i] # r[j]
    <3>1. CASE j = k + 1
      BY <2>1, <2>3, <3>1, <1>0, <1>6
    <3>2. CASE i = k + 1
      BY <2>1, <2>3, <3>2, <1>0, <1>6
    <3>3. CASE i # k + 1 /\ j # k + 1
      BY <2>2, <2>3, <3>3, <1>0, <1>6
    <3> QED BY <3>1, <3>2, <3>3
  <2>4. \A i, j \in 1 .. Len(s) + 1 : i < j \/ j < i \/ i = j
    BY <1>0
  <2>5. \A i, j \in 1 .. Len(s) + 1 : r[i] = r[j] => i = j
    BY <2>3, <2>4, Zenon
  <2> QED BY <2>5, <1>5, Zenon DEF IsInjective
<1>8. ASSUME NEW x \in Range(r)  PROVE x \in Range(s) \cup {e}
  <2>1. PICK j \in 1 .. Len(s) + 1 : x = r[j]
    BY <1>5, <1>8, Zenon DEF Range
  <2>2. CASE j = k + 1
    BY <2>1, <2>2, <1>0, <1>6
  <2>3. CASE j # k + 1
    <3>1. \E i \in 1 .. Len(s) : x = s[i]
      BY <2>1, <2>3, <1>0, <1>6
    <3> QED BY <3>1, <1>0, Zenon DEF Range
  <2> QED BY <2>2, <2>3
<1>9. e \in Range(r)
  <2>1. k + 1 \in 1 .. Len(s) + 1 /\ r[k + 1] = e
    BY <1>0, <1>6
  <2> QED BY <2>1, <1>5, Zenon DEF Range
<1>10. ASSUME NEW j \in 1 .. Len(s)  PROVE s[j] \in Range(r)
  <2>1. CASE j <= k
    BY <2>1, <1>0, <1>5, <1>6 DEF Range
  <2>2. CASE j > k
    <3>1. j + 1 \in 1 .. Len(s) + 1 /\ r[j + 1] = s[j]
      BY <2>2, <1>0, <1>6
    <3> QED BY <3>1, <1>5, Zenon DEF Range
  <2> QED BY <2>1, <2>2, <1>0
<1>11. Range(s) \cup {e} \subseteq Range(r)
  BY <1>0, <1>9, <1>10 DEF Range
<1>12. Range(r) = Range(s) \cup {e}
  BY <1>8, <1>11, Zenon
<1> QED BY <1>5, <1>6, <1>7, <1>12, Zenon DEF r

\* A list of length one.
LEMMA SingletonLemma ==
  ASSUME NEW S, NEW s \in Seq(S), Len(s) = 1, NEW e \in Range(s)
  PROVE  Range(s) = {e}
  BY DEF Range

\* The empty list, and the members of any list.
LEMMA EmptyLemma ==
  /\ Range(<<>>) = {} /\ IsInjective(<<>>)
  /\ \A e : Append(<<>>, e) = <<e>> /\ Range(<<e>>) = {e}
  BY DEF Range, IsInjective

\* An element of a list is at some position.
LEMMA MemberLemma ==
  ASSUME NEW S, NEW s \in Seq(S)
  PROVE  Range(s) \subseteq S /\ DOMAIN s \subseteq Nat
  BY DEF Range

\* The set a list is over may shrink to one that holds its elements.
LEMMA RetypeLemma ==
  ASSUME NEW S, NEW R, NEW s \in Seq(S), \A i \in DOMAIN s : s[i] \in R
  PROVE  s \in Seq(R)
  OBVIOUS
=============================================================================
