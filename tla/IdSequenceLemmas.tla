-------------------------- MODULE IdSequenceLemmas --------------------------
(***************************************************************************)
(* What the editing of sequences of distinct identifiers preserves.        *)
(***************************************************************************)
EXTENDS IdSequences, FiniteSetTheorems, FunctionTheorems, SequenceTheorems,
        WellFoundedInduction, TLAPS

(* A set of naturals that is not empty has a least element: the form in    *)
(* which the lemmas below use induction.                                   *)
LEMMA LeastNatural ==
  ASSUME NEW T, T \subseteq Nat, T # {}
  PROVE  \E x \in T : \A y \in T : x <= y
<1> DEFINE R == OpToRel(<, Nat)
<1>1. PICK x \in T : \A y \in T : ~(<<y, x>> \in R)
  BY NatLessThanWellFounded, WFMin
<1>2. \A y \in T : ~(y < x)
  BY <1>1 DEF OpToRel
<1> QED BY <1>2, SMT

(* The largest element of a set of naturals that is bounded.               *)
LEMMA GreatestNatural ==
  ASSUME NEW n \in Nat, NEW T, T \subseteq 0..n, T # {}
  PROVE  \E x \in T : \A y \in T : y <= x
<1> DEFINE U == {m \in 0..n : \A y \in T : y <= m}
<1>1. n \in U
  OBVIOUS
<1>2. PICK x \in U : \A y \in U : x <= y
  BY <1>1, LeastNatural, U \subseteq Nat
<1>3. x \in T
  <2>1. SUFFICES ASSUME x \notin T PROVE FALSE
    OBVIOUS
  <2>2. x # 0
    <3>1. SUFFICES ASSUME x = 0 PROVE FALSE
      OBVIOUS
    <3>2. PICK y \in T : TRUE
      OBVIOUS
    <3>3. y = 0
      BY <1>2, <3>1, <3>2
    <3> QED BY <2>1, <3>1, <3>3
  <2>3. x - 1 \in U
    BY <2>1, <2>2
  <2> QED BY <1>2, <2>3
<1> QED BY <1>3

(* Where the elements of two joined sequences are.                         *)
LEMMA JoinedProperties ==
  ASSUME NEW S, NEW a \in Seq(S), NEW b \in Seq(S), NEW m, NEW n,
         Len(a) = m, Len(b) = n
  PROVE  /\ a \o b \in Seq(S)
         /\ Len(a \o b) = m + n
         /\ \A i \in 1..(m + n) : (a \o b)[i] = IF i <= m THEN a[i] ELSE b[i - m]
BY ConcatProperties

(* Where the elements are once others were put in.                         *)
LEMMA SplicedPlaces ==
  ASSUME NEW S, NEW s \in Seq(S), NEW new \in Seq(S), NEW at \in 0..Len(s)
  PROVE  /\ Spliced(s, at, new) \in Seq(S)
         /\ Len(Spliced(s, at, new)) = Len(s) + Len(new)
         /\ \A i \in 1..(Len(s) + Len(new)) :
              Spliced(s, at, new)[i] = IF i <= at THEN s[i]
                                       ELSE IF i <= at + Len(new) THEN new[i - at]
                                       ELSE s[i - Len(new)]
<1> DEFINE r == Spliced(s, at, new)
           f(i) == IF i <= at THEN s[i]
                   ELSE IF i <= at + Len(new) THEN new[i - at]
                   ELSE s[i - Len(new)]
           before == SubSeq(s, 1, at)
           after == SubSeq(s, at + 1, Len(s))
           front == before \o new
<1>a. /\ before \in Seq(S) /\ Len(before) = at
      /\ \A i \in 1..at : before[i] = s[i]
  BY SubSeqProperties, ElementOfSeq, LenProperties
<1>b. /\ after \in Seq(S) /\ Len(after) = Len(s) - at
      /\ \A i \in 1..(Len(s) - at) : after[i] = s[at + i]
  BY SubSeqProperties, ElementOfSeq, LenProperties
<1> HIDE DEF before, after
<1>c. /\ front \in Seq(S) /\ Len(front) = at + Len(new)
      /\ \A i \in 1..(at + Len(new)) :
           front[i] = IF i <= at THEN before[i] ELSE new[i - at]
  <2>1. before \in Seq(S) /\ Len(before) = at
    BY <1>a
  <2> QED BY <2>1, LenProperties, JoinedProperties
<1>d. r = front \o after
  BY DEF Spliced, before, after, front
<1> HIDE DEF r, front
<1>n. Len(s) \in Nat /\ Len(new) \in Nat /\ at \in 0..Len(s)
  BY LenProperties
<1>f. /\ front \o after \in Seq(S)
      /\ Len(front \o after) = (at + Len(new)) + (Len(s) - at)
      /\ \A i \in 1..((at + Len(new)) + (Len(s) - at)) :
           (front \o after)[i] =
              IF i <= at + Len(new) THEN front[i]
              ELSE after[i - (at + Len(new))]
  <2>1. after \in Seq(S) /\ Len(after) = Len(s) - at
    BY <1>b
  <2>2. front \in Seq(S) /\ Len(front) = at + Len(new)
    BY <1>c
  <2> DEFINE m == at + Len(new)
             n == Len(s) - at
  <2> HIDE DEF m, n
  <2>3. /\ front \o after \in Seq(S) /\ Len(front \o after) = m + n
        /\ \A i \in 1..(m + n) :
             (front \o after)[i] = IF i <= m THEN front[i] ELSE after[i - m]
    <3>1. Len(front) = m /\ Len(after) = n
      BY <2>1, <2>2 DEF m, n
    <3> QED BY <2>1, <2>2, <3>1, JoinedProperties
  <2> QED BY <2>3 DEF m, n
<1>1. r \in Seq(S) /\ Len(r) = Len(s) + Len(new)
  <2>1. (at + Len(new)) + (Len(s) - at) = Len(s) + Len(new)
    BY <1>n
  <2> QED BY <1>d, <1>f, <2>1
<1>e. \A i \in 1..(Len(s) + Len(new)) :
        r[i] = IF i <= at + Len(new) THEN front[i]
               ELSE after[i - (at + Len(new))]
  <2>1. (at + Len(new)) + (Len(s) - at) = Len(s) + Len(new)
    BY <1>n
  <2> QED BY <1>d, <1>f, <2>1
<1>2. ASSUME NEW i \in 1..(Len(s) + Len(new)) PROVE r[i] = f(i)
  <2>1. CASE i <= at
    BY <2>1, <1>e, <1>c, <1>a, LenProperties
  <2>2. CASE i > at /\ i <= at + Len(new)
    BY <2>2, <1>e, <1>c, LenProperties
  <2>3. CASE i > at + Len(new)
    <3>1. i - (at + Len(new)) \in 1..(Len(s) - at)
      BY <2>3, <1>n
    <3>2. at + (i - (at + Len(new))) = i - Len(new)
      BY <1>n
    <3>3. after[i - (at + Len(new))] = s[i - Len(new)]
      BY <1>b, <3>1, <3>2
    <3> QED BY <2>3, <3>3, <1>e, <1>n
  <2> QED BY <2>1, <2>2, <2>3, LenProperties
<1> QED BY <1>1, <1>2 DEF r

(* Putting distinct new identifiers into distinct ones.                    *)
LEMMA SplicedProperties ==
  ASSUME NEW S, NEW s \in Seq(S), NEW new \in Seq(S), NEW at \in 0..Len(s)
  PROVE  /\ Spliced(s, at, new) \in Seq(S)
         /\ Len(Spliced(s, at, new)) = Len(s) + Len(new)
         /\ ToSet(Spliced(s, at, new)) = ToSet(s) \cup ToSet(new)
         /\ Distinct(s) /\ Distinct(new) /\ ToSet(s) \cap ToSet(new) = {}
              => Distinct(Spliced(s, at, new))
<1> DEFINE r == Spliced(s, at, new)
           f(i) == IF i <= at THEN s[i]
                   ELSE IF i <= at + Len(new) THEN new[i - at]
                   ELSE s[i - Len(new)]
<1>n. Len(s) \in Nat /\ Len(new) \in Nat /\ at \in 0..Len(s)
  BY LenProperties
<1>1. r \in Seq(S) /\ Len(r) = Len(s) + Len(new)
  BY SplicedPlaces
<1>2. ASSUME NEW i \in 1..(Len(s) + Len(new)) PROVE r[i] = f(i)
  BY SplicedPlaces
<1> HIDE DEF r
<1>3. DOMAIN r = 1..(Len(s) + Len(new)) /\ DOMAIN s = 1..Len(s) /\ DOMAIN new = 1..Len(new)
  BY <1>1
<1>4. ToSet(r) = ToSet(s) \cup ToSet(new)
  <2>1. ASSUME NEW i \in DOMAIN r PROVE r[i] \in ToSet(s) \cup ToSet(new)
    <3>1. CASE i <= at
      BY <3>1, <1>2, <1>3, <1>n DEF ToSet
    <3>2. CASE i > at /\ i <= at + Len(new)
      BY <3>2, <1>2, <1>3, <1>n DEF ToSet
    <3>3. CASE i > at + Len(new)
      <4>1. r[i] = s[i - Len(new)]
        BY <3>3, <1>2, <1>3, <1>n
      <4>2. i - Len(new) \in DOMAIN s
        BY <3>3, <1>3, <1>n
      <4> QED BY <4>1, <4>2 DEF ToSet
    <3> QED BY <3>1, <3>2, <3>3, <1>3, <1>n
  <2>2. ASSUME NEW j \in DOMAIN s PROVE s[j] \in ToSet(r)
    <3>1. CASE j <= at
      BY <3>1, <1>2, <1>3 DEF ToSet
    <3>2. CASE j > at
      <4>1. j + Len(new) \in DOMAIN r /\ r[j + Len(new)] = s[j]
        BY <3>2, <1>2, <1>3
      <4> QED BY <4>1 DEF ToSet
    <3> QED BY <3>1, <3>2, <1>3
  <2>3. ASSUME NEW j \in DOMAIN new PROVE new[j] \in ToSet(r)
    <3>1. j + at \in DOMAIN r /\ r[j + at] = new[j]
      BY <1>2, <1>3
    <3> QED BY <3>1 DEF ToSet
  <2> QED BY <2>1, <2>2, <2>3 DEF ToSet
<1>5. ASSUME Distinct(s), Distinct(new), ToSet(s) \cap ToSet(new) = {}
      PROVE  Distinct(r)
  <2>1. \A i \in DOMAIN s, j \in DOMAIN new : s[i] # new[j]
    BY <1>5 DEF ToSet
  <2>2. ASSUME NEW i \in DOMAIN r, NEW j \in DOMAIN r, f(i) = f(j) PROVE i = j
    <3>1. i <= at => i \in DOMAIN s
      BY <1>3, <1>n
    <3>2. i > at /\ i <= at + Len(new) => i - at \in DOMAIN new
      BY <1>3, <1>n
    <3>3. i > at + Len(new) => i - Len(new) \in DOMAIN s /\ i - Len(new) > at
      BY <1>3, <1>n
    <3>4. j <= at => j \in DOMAIN s
      BY <1>3, <1>n
    <3>5. j > at /\ j <= at + Len(new) => j - at \in DOMAIN new
      BY <1>3, <1>n
    <3>6. j > at + Len(new) => j - Len(new) \in DOMAIN s /\ j - Len(new) > at
      BY <1>3, <1>n
    <3>7. i \in Int /\ j \in Int
      BY <1>3
    <3>8. CASE i > at /\ i <= at + Len(new)
      BY <3>8, <2>1, <2>2, <3>2, <3>4, <3>5, <3>6, <3>7, <1>5, <1>n DEF Distinct
    <3>9. CASE i <= at
      BY <3>9, <2>1, <2>2, <3>1, <3>4, <3>5, <3>6, <3>7, <1>5, <1>n DEF Distinct
    <3>10. CASE i > at + Len(new)
      BY <3>10, <2>1, <2>2, <3>3, <3>4, <3>5, <3>6, <3>7, <1>5, <1>n DEF Distinct
    <3> QED BY <3>7, <3>8, <3>9, <3>10, <1>n
  <2> QED BY <2>2, <1>2, <1>3 DEF Distinct
<1> QED BY <1>1, <1>4, <1>5 DEF r

(* The place of an identifier.                                             *)
LEMMA PositionInProperties ==
  ASSUME NEW s, NEW id \in ToSet(s)
  PROVE  PositionIn(s, id) \in DOMAIN s /\ s[PositionIn(s, id)] = id
BY DEF ToSet, PositionIn

(* Taking out the entry at place p of distinct ones.                       *)
LEMMA RemoveAtProperties ==
  ASSUME NEW S, NEW s \in Seq(S), Distinct(s), NEW p \in DOMAIN s
  PROVE  /\ RemoveAt(s, p) \in Seq(S)
         /\ Len(RemoveAt(s, p)) = Len(s) - 1
         /\ ToSet(RemoveAt(s, p)) = ToSet(s) \ {s[p]}
         /\ Distinct(RemoveAt(s, p))
<1> DEFINE r == RemoveAt(s, p)
           before == SubSeq(s, 1, p - 1)
           after == SubSeq(s, p + 1, Len(s))
<1>n. Len(s) \in Nat /\ p \in 1..Len(s)
  BY LenProperties
<1>a. /\ before \in Seq(S) /\ Len(before) = p - 1
      /\ \A i \in 1..(p - 1) : before[i] = s[i]
  BY <1>n, SubSeqProperties, ElementOfSeq
<1>b. /\ after \in Seq(S) /\ Len(after) = Len(s) - p
      /\ \A i \in 1..(Len(s) - p) : after[i] = s[p + i]
  BY <1>n, SubSeqProperties, ElementOfSeq
<1>c. r = before \o after
  BY DEF RemoveAt
<1> HIDE DEF before, after, r
<1>d. /\ before \o after \in Seq(S)
      /\ Len(before \o after) = (p - 1) + (Len(s) - p)
      /\ \A i \in 1..((p - 1) + (Len(s) - p)) :
           (before \o after)[i] = IF i <= p - 1 THEN before[i] ELSE after[i - (p - 1)]
  <2>1. before \in Seq(S) /\ Len(before) = p - 1
    BY <1>a
  <2>2. after \in Seq(S) /\ Len(after) = Len(s) - p
    BY <1>b
  <2> QED BY <2>1, <2>2, JoinedProperties
<1>e. (p - 1) + (Len(s) - p) = Len(s) - 1
  BY <1>n
<1>1. r \in Seq(S) /\ Len(r) = Len(s) - 1
  BY <1>c, <1>d, <1>e
<1>2. ASSUME NEW i \in 1..(Len(s) - 1) PROVE r[i] = IF i < p THEN s[i] ELSE s[i + 1]
  <2>1. CASE i < p
    BY <2>1, <1>a, <1>c, <1>d, <1>e, <1>n
  <2>2. CASE i >= p
    <3>1. i - (p - 1) \in 1..(Len(s) - p) /\ p + (i - (p - 1)) = i + 1
      BY <2>2, <1>n
    <3>2. after[i - (p - 1)] = s[i + 1]
      BY <3>1, <1>b
    <3>3. r[i] = after[i - (p - 1)]
      <4>1. i \in 1..((p - 1) + (Len(s) - p)) /\ ~(i <= p - 1)
        BY <2>2, <1>e, <1>n
      <4> QED BY <4>1, <1>c, <1>d
    <3> QED BY <2>2, <3>2, <3>3, <1>n
  <2> QED BY <2>1, <2>2, <1>n
<1>3. DOMAIN r = 1..(Len(s) - 1) /\ DOMAIN s = 1..Len(s)
  BY <1>1
<1>4. ToSet(r) = ToSet(s) \ {s[p]}
  <2>1. ASSUME NEW i \in DOMAIN r PROVE r[i] \in ToSet(s) \ {s[p]}
    BY <1>2, <1>3 DEF ToSet, Distinct
  <2>2. ASSUME NEW j \in DOMAIN s, j # p PROVE s[j] \in ToSet(r)
    <3>1. CASE j < p
      BY <3>1, <1>2, <1>3 DEF ToSet
    <3>2. CASE j > p
      <4>1. j - 1 \in DOMAIN r /\ r[j - 1] = s[j]
        BY <3>2, <1>2, <1>3
      <4> QED BY <4>1 DEF ToSet
    <3> QED BY <3>1, <3>2, <2>2, <1>3
  <2> QED BY <2>1, <2>2 DEF ToSet
<1>5. Distinct(r)
  BY <1>2, <1>3 DEF Distinct
<1> QED BY <1>1, <1>4, <1>5 DEF r

(* Ranks in a set of naturals: they grow by one at each element, so every  *)
(* rank is that of exactly one element.                                    *)
LEMMA RankInProperties ==
  ASSUME NEW n \in Nat, NEW K, K \subseteq 1..n
  PROVE  /\ Cardinality(K) \in 0..n
         /\ \A i \in 0..n : RankIn(K, i) \in 0..Cardinality(K)
         /\ \A i \in K : RankIn(K, i) \in 1..Cardinality(K)
         /\ \A i, k \in K : RankIn(K, i) = RankIn(K, k) => i = k
         /\ \A j \in 1..Cardinality(K) : \E i \in K : RankIn(K, i) = j
<1> DEFINE U(i) == {k \in K : k <= i}
           C(i) == RankIn(K, i)
<1>1. IsFiniteSet(K) /\ Cardinality(K) \in 0..n
  <2>1. IsFiniteSet(1..n) /\ Cardinality(1..n) = n
    BY FS_Interval
  <2>2. IsFiniteSet(K) /\ Cardinality(K) <= Cardinality(1..n)
    BY <2>1, FS_Subset
  <2>3. Cardinality(K) \in Nat
    BY <2>2, FS_CardinalityType
  <2> QED BY <2>1, <2>2, <2>3
<1>a. \A k \in K : k \in Int /\ 1 <= k /\ k <= n
  OBVIOUS
<1>2. ASSUME NEW i \in 0..n PROVE IsFiniteSet(U(i)) /\ C(i) \in 0..Cardinality(K)
  <2>1. U(i) \subseteq K
    OBVIOUS
  <2>2. IsFiniteSet(U(i)) /\ Cardinality(U(i)) <= Cardinality(K)
    BY <1>1, <2>1, FS_Subset
  <2>3. Cardinality(U(i)) \in Nat
    BY <2>2, FS_CardinalityType
  <2> QED BY <2>2, <2>3, <1>1 DEF RankIn
<1>3. C(0) = 0
  <2>a. ASSUME NEW x \in K PROVE ~(x <= 0)
    BY <1>a
  <2>1. U(0) = {}
    BY <2>a, Zenon
  <2> QED BY <2>1, FS_EmptySet DEF RankIn
<1>4. C(n) = Cardinality(K)
  <2>1. U(n) = K
    BY <1>a
  <2> QED BY <2>1 DEF RankIn
<1>5. ASSUME NEW i \in K PROVE i \in 1..n /\ C(i) = C(i - 1) + 1
  <2>1. i \in 1..n /\ i - 1 \in 0..n
    OBVIOUS
  <2>a. ASSUME NEW x \in K PROVE x <= i <=> x <= i - 1 \/ x = i
    BY <2>1, <1>a
  <2>b. i <= i
    BY <2>1
  <2>2. U(i) = U(i - 1) \cup {i}
    BY <2>a, <2>b, Zenon
  <2>3. i \notin U(i - 1)
    BY <2>1
  <2> QED BY <1>2, <2>1, <2>2, <2>3, FS_AddElement DEF RankIn
<1>6. ASSUME NEW i \in 1..n, i \notin K PROVE C(i) = C(i - 1)
  <2>a. ASSUME NEW x \in K PROVE x <= i <=> x <= i - 1
    <3>1. x # i
      BY <1>6
    <3> QED BY <1>a, <3>1
  <2>1. U(i) = U(i - 1)
    BY <2>a, Zenon
  <2> QED BY <2>1 DEF RankIn
<1>7. ASSUME NEW i \in 0..n, NEW k \in 0..n, i <= k PROVE C(i) <= C(k)
  <2>a. ASSUME NEW x \in K, x <= i PROVE x <= k
    BY <1>a, <1>7, <2>a
  <2>1. U(i) \subseteq U(k)
    BY <2>a, Zenon
  <2> QED BY <1>2, <2>1, FS_Subset DEF RankIn
<1> HIDE DEF C, U
<1>8. ASSUME NEW i \in K PROVE C(i) \in 1..Cardinality(K)
  <2>1. i \in 1..n /\ i - 1 \in 0..n /\ i \in 0..n
    BY <1>5
  <2> QED BY <2>1, <1>2, <1>5
<1>9. ASSUME NEW i \in K, NEW k \in K, i < k PROVE C(i) < C(k)
  <2>1. i \in 0..n /\ k \in 0..n /\ k - 1 \in 0..n /\ i <= k - 1
    BY <1>5, <1>9
  <2> QED BY <2>1, <1>2, <1>5, <1>7
<1>10. ASSUME NEW j \in 1..Cardinality(K) PROVE \E i \in K : C(i) = j
  <2> DEFINE T == {m \in 0..n : C(m) >= j}
  <2>1. n \in T
    BY <1>4, <1>1
  <2>2. PICK x \in T : \A y \in T : x <= y
    BY <2>1, LeastNatural, T \subseteq Nat
  <2>3. x \in 1..n
    BY <2>2, <1>3
  <2>4. x - 1 \in 0..n /\ C(x - 1) < j
    BY <2>2, <2>3, <1>2
  <2>5. x \in K
    BY <2>2, <2>3, <2>4, <1>6
  <2> QED BY <2>2, <2>3, <2>4, <2>5, <1>5, <1>2
<1>11. \A i, k \in K : C(i) = C(k) => i = k
  BY <1>8, <1>9, <1>5
<1> QED BY <1>1, <1>2, <1>8, <1>10, <1>11 DEF C

(* Keeping the elements outside "ids" keeps their order and their number.  *)
LEMMA WithoutProperties ==
  ASSUME NEW S, NEW s \in Seq(S), NEW ids
  PROVE  /\ Without(s, ids) \in Seq(S)
         /\ Len(Without(s, ids)) = Cardinality(KeptPlaces(s, ids))
         /\ Len(Without(s, ids)) <= Len(s)
         /\ ToSet(Without(s, ids)) = ToSet(s) \ ids
         /\ Distinct(s) => Distinct(Without(s, ids))
         /\ \A i \in 0..Len(s) : KeptUpTo(s, ids, i) \in 0..Len(Without(s, ids))
<1> DEFINE K == KeptPlaces(s, ids)
           m == Cardinality(K)
           at(j) == CHOOSE i \in K : RankIn(K, i) = j
           r == Without(s, ids)
<1>1. Len(s) \in Nat /\ DOMAIN s = 1..Len(s) /\ \A i \in DOMAIN s : s[i] \in S
  BY LenProperties, ElementOfSeq
<1>2. K \subseteq 1..Len(s) /\ \A i \in DOMAIN s : i \in K <=> s[i] \notin ids
  BY <1>1 DEF KeptPlaces
<1>3. r = [j \in 1..m |-> s[at(j)]]
  BY DEF Without, KeptUpTo
<1>k. \A i \in 0..Len(s) : KeptUpTo(s, ids, i) = RankIn(K, i)
  BY DEF KeptUpTo
<1> HIDE DEF K, r
<1>4. /\ m \in 0..Len(s)
      /\ \A i \in 0..Len(s) : RankIn(K, i) \in 0..m
      /\ \A i \in K : RankIn(K, i) \in 1..m
      /\ \A i, k \in K : RankIn(K, i) = RankIn(K, k) => i = k
      /\ \A j \in 1..m : \E i \in K : RankIn(K, i) = j
  BY <1>1, <1>2, RankInProperties
<1>5. ASSUME NEW j \in 1..m PROVE at(j) \in K /\ RankIn(K, at(j)) = j
  BY <1>4
<1>6. ASSUME NEW i \in K PROVE at(RankIn(K, i)) = i
  <2>1. RankIn(K, i) \in 1..m
    BY <1>4
  <2>2. at(RankIn(K, i)) \in K /\ RankIn(K, at(RankIn(K, i))) = RankIn(K, i)
    BY <2>1, <1>5
  <2> QED BY <2>2, <1>4
<1> HIDE DEF at, m
<1>7. DOMAIN r = 1..m /\ \A j \in 1..m : r[j] = s[at(j)] /\ r[j] \in S \ ids
  BY <1>1, <1>2, <1>3, <1>5
<1>8. r \in [1..m -> S]
  BY <1>3, <1>7
<1>9. r \in Seq(S) /\ Len(r) = m
  BY <1>4, <1>8
<1>10. ToSet(r) = ToSet(s) \ ids
  <2>1. ASSUME NEW j \in 1..m PROVE r[j] \in ToSet(s) \ ids
    BY <1>1, <1>2, <1>5, <1>7 DEF ToSet
  <2>2. ASSUME NEW i \in DOMAIN s, s[i] \notin ids PROVE s[i] \in ToSet(r)
    <3>1. i \in K
      BY <1>2, <2>2
    <3>2. RankIn(K, i) \in 1..m /\ r[RankIn(K, i)] = s[i]
      BY <3>1, <1>4, <1>6, <1>7
    <3> QED BY <3>2, <1>7 DEF ToSet
  <2> QED BY <2>1, <2>2, <1>7 DEF ToSet
<1>11. ASSUME Distinct(s) PROVE Distinct(r)
  <2>1. ASSUME NEW j \in 1..m, NEW k \in 1..m, r[j] = r[k] PROVE j = k
    <3>1. at(j) = at(k)
      BY <2>1, <1>1, <1>2, <1>5, <1>7, <1>11 DEF Distinct
    <3> QED BY <3>1, <1>5
  <2> QED BY <2>1, <1>7 DEF Distinct
<1> QED BY <1>4, <1>9, <1>10, <1>11, <1>k DEF r, m, K

(* As many identifiers as places, when none appears twice.                 *)
LEMMA DistinctCardinality ==
  ASSUME NEW S, NEW s \in Seq(S), Distinct(s)
  PROVE  IsFiniteSet(ToSet(s)) /\ Cardinality(ToSet(s)) = Len(s)
<1>1. Len(s) \in Nat /\ DOMAIN s = 1..Len(s) /\ s \in [1..Len(s) -> S]
  BY LenProperties
<1>2. IsFiniteSet(1..Len(s)) /\ Cardinality(1..Len(s)) = Len(s)
  BY <1>1, FS_Interval
<1>3. s \in Surjection(1..Len(s), ToSet(s))
  BY <1>1 DEF Surjection, ToSet
<1>4. s \in Injection(1..Len(s), ToSet(s))
  BY <1>1, <1>3 DEF Injection, Surjection, IsInjective, Distinct
<1> QED BY <1>2, <1>3, <1>4, FS_Surjection

(* An arrangement of a set has each of its elements exactly once.          *)
LEMMA ArrangementsProperties ==
  ASSUME NEW S, IsFiniteSet(S), NEW p \in Arrangements(S)
  PROVE  p \in Seq(S) /\ Len(p) = Cardinality(S) /\ ToSet(p) = S /\ Distinct(p)
<1>1. Cardinality(S) \in Nat
  BY FS_CardinalityType
<1>2. p \in [1..Cardinality(S) -> S] /\ ToSet(p) = S
  BY DEF Arrangements
<1>3. p \in Seq(S) /\ Len(p) = Cardinality(S) /\ DOMAIN p = 1..Cardinality(S)
  BY <1>1, <1>2
<1>4. IsFiniteSet(1..Cardinality(S)) /\ Cardinality(1..Cardinality(S)) = Cardinality(S)
  BY <1>1, FS_Interval
<1>5. p \in Surjection(1..Cardinality(S), S)
  BY <1>2, <1>3 DEF Surjection, ToSet
<1>6. p \in Injection(1..Cardinality(S), S)
  BY <1>4, <1>5, FS_SurjSameCardinalityImpliesInj
<1> QED BY <1>2, <1>3, <1>6 DEF Injection, IsInjective, Distinct

(* Putting one identifier in front of others.                              *)
LEMMA PutFirst ==
  ASSUME NEW S, NEW x \in S, NEW s \in Seq(S), x \notin ToSet(s), Distinct(s)
  PROVE  /\ <<x>> \o s \in Seq(S)
         /\ ToSet(<<x>> \o s) = {x} \cup ToSet(s)
         /\ Distinct(<<x>> \o s)
<1> DEFINE r == <<x>> \o s
<1>1. <<x>> \in Seq(S) /\ Len(<<x>>) = 1 /\ <<x>>[1] = x
  OBVIOUS
<1>2. Len(s) \in Nat /\ DOMAIN s = 1..Len(s)
  BY LenProperties
<1>3. /\ r \in Seq(S) /\ Len(r) = 1 + Len(s)
      /\ \A i \in 1..(1 + Len(s)) : r[i] = IF i <= 1 THEN <<x>>[i] ELSE s[i - 1]
  BY <1>1, ConcatProperties
<1> HIDE DEF r
<1>4. DOMAIN r = 1..(1 + Len(s)) /\ r[1] = x
  BY <1>1, <1>2, <1>3, LenProperties
<1>5. ASSUME NEW i \in 2..(1 + Len(s)) PROVE i - 1 \in DOMAIN s /\ r[i] = s[i - 1]
  BY <1>2, <1>3
<1>6. ToSet(r) = {x} \cup ToSet(s)
  <2>1. ASSUME NEW i \in DOMAIN r PROVE r[i] \in {x} \cup ToSet(s)
    BY <1>2, <1>4, <1>5 DEF ToSet
  <2>2. ASSUME NEW j \in DOMAIN s PROVE s[j] \in ToSet(r)
    <3>1. j + 1 \in 2..(1 + Len(s)) /\ (j + 1) - 1 = j
      BY <1>2
    <3>2. j + 1 \in DOMAIN r /\ r[j + 1] = s[j]
      BY <3>1, <1>4, <1>5
    <3> QED BY <3>2 DEF ToSet
  <2>3. x \in ToSet(r)
    BY <1>2, <1>4 DEF ToSet
  <2> QED BY <2>1, <2>2, <2>3 DEF ToSet
<1>7. Distinct(r)
  <2>1. ASSUME NEW i \in DOMAIN r, NEW j \in DOMAIN r, r[i] = r[j] PROVE i = j
    <3>1. ASSUME NEW k \in 2..(1 + Len(s)) PROVE r[k] # x
      BY <1>5 DEF ToSet
    <3>2. CASE i = 1 \/ j = 1
      BY <3>1, <3>2, <2>1, <1>2, <1>4
    <3>3. CASE i # 1 /\ j # 1
      <4>1. i \in 2..(1 + Len(s)) /\ j \in 2..(1 + Len(s))
        BY <3>3, <1>2, <1>4
      <4>2. i - 1 = j - 1
        BY <4>1, <2>1, <1>5 DEF Distinct
      <4> QED BY <4>1, <4>2
    <3> QED BY <3>2, <3>3
  <2> QED BY <2>1 DEF Distinct
<1> QED BY <1>3, <1>6, <1>7 DEF r

(* What a shorter beginning, an end and an appended identifier hold.       *)
LEMMA BeginningProperties ==
  ASSUME NEW S, NEW s \in Seq(S), NEW n \in 0..Len(s)
  PROVE  /\ SubSeq(s, 1, n) \in Seq(S)
         /\ Len(SubSeq(s, 1, n)) = n
         /\ ToSet(SubSeq(s, 1, n)) \subseteq ToSet(s)
<1> DEFINE r == SubSeq(s, 1, n)
<1>1. Len(s) \in Nat /\ DOMAIN s = 1..Len(s)
  BY LenProperties
<1>2. r \in Seq(S) /\ Len(r) = n /\ \A i \in 1..n : r[i] = s[i]
  BY <1>1, SubSeqProperties, ElementOfSeq
<1> HIDE DEF r
<1>3. DOMAIN r = 1..n
  BY <1>2, LenProperties
<1> QED BY <1>1, <1>2, <1>3 DEF ToSet, r

LEMMA TailSubset ==
  ASSUME NEW S, NEW s \in Seq(S), s # <<>>
  PROVE  /\ Tail(s) \in Seq(S)
         /\ Len(Tail(s)) = Len(s) - 1
         /\ ToSet(Tail(s)) \subseteq ToSet(s)
<1>1. Len(s) \in Nat /\ DOMAIN s = 1..Len(s)
  BY LenProperties
<1>2. /\ Tail(s) \in Seq(S) /\ Len(Tail(s)) = Len(s) - 1
      /\ \A i \in 1..Len(Tail(s)) : Tail(s)[i] = s[i + 1]
  BY HeadTailProperties
<1>3. DOMAIN Tail(s) = 1..(Len(s) - 1)
  BY <1>2, LenProperties
<1> QED BY <1>1, <1>2, <1>3 DEF ToSet

LEMMA AppendedSet ==
  ASSUME NEW S, NEW s \in Seq(S), NEW x \in S
  PROVE  /\ Append(s, x) \in Seq(S)
         /\ Len(Append(s, x)) = Len(s) + 1
         /\ ToSet(Append(s, x)) \subseteq ToSet(s) \cup {x}
<1>1. Len(s) \in Nat /\ DOMAIN s = 1..Len(s)
  BY LenProperties
<1>2. /\ Append(s, x) \in Seq(S) /\ Len(Append(s, x)) = Len(s) + 1
      /\ \A i \in 1..Len(s) : Append(s, x)[i] = s[i]
      /\ Append(s, x)[Len(s) + 1] = x
  BY AppendProperties
<1>3. DOMAIN Append(s, x) = 1..(Len(s) + 1)
  BY <1>2, LenProperties
<1> QED BY <1>1, <1>2, <1>3 DEF ToSet

(* A set in some order.                                                    *)
LEMMA SetToSeqProperties ==
  ASSUME NEW S, IsFiniteSet(S)
  PROVE  SetToSeq(S) \in Seq(S) /\ ToSet(SetToSeq(S)) = S /\ Distinct(SetToSeq(S))
<1> DEFINE n == Cardinality(S)
           s == SetToSeq(S)
<1>1. n \in Nat /\ ExistsBijection(1 .. n, S)
  BY FS_CardinalityType
<1>2. PICK f \in [1 .. n -> S] : IsInjective(f)
  BY <1>1 DEF ExistsBijection, Bijection, Injection
<1>3. s \in [1 .. n -> S] /\ IsInjective(s)
  BY <1>2 DEF SetToSeq
<1> HIDE DEF s
<1>4. s \in Seq(S)
  BY <1>1, <1>3
<1>5. s \in Injection(1 .. n, S)
  BY <1>3 DEF Injection
<1>6. IsFiniteSet(1 .. n) /\ Cardinality(1 .. n) = n
  BY <1>1, FS_Interval
<1>7. s \in Surjection(1 .. n, S)
  BY <1>5, <1>6, FS_Injection
<1>8. ToSet(s) = S
  BY <1>3, <1>7 DEF Surjection, ToSet
<1> QED BY <1>3, <1>4, <1>8 DEF IsInjective, Distinct, s

(* A few things in some order.                                             *)
LEMMA FewInOrder ==
  ASSUME NEW a, NEW b, NEW c, NEW S, S \subseteq {a, b, c}
  PROVE  SetToSeq(S) \in Seq(S) /\ ToSet(SetToSeq(S)) = S /\ Distinct(SetToSeq(S))
<1>1. IsFiniteSet({}) /\ \A T, x : IsFiniteSet(T) => IsFiniteSet(T \cup {x})
  BY FS_EmptySet, FS_AddElement
<1>2. {a, b, c} = (({} \cup {a}) \cup {b}) \cup {c}
  OBVIOUS
<1>3. IsFiniteSet((({} \cup {a}) \cup {b}) \cup {c})
  BY <1>1
<1>4. IsFiniteSet(S)
  BY <1>2, <1>3, FS_Subset
<1> QED BY <1>4, SetToSeqProperties

---------------------------------------------------------------------------
(* What is left of a sequence, place by place.                             *)

(* Ranks grow with the place, and grow up to each element.                 *)
LEMMA RankGrows ==
  ASSUME NEW n \in Nat, NEW K, K \subseteq 1..n, NEW i \in 0..n, NEW k \in 0..n
  PROVE  /\ i <= k => RankIn(K, i) <= RankIn(K, k)
         /\ k \in K /\ i < k => RankIn(K, i) < RankIn(K, k)
<1> DEFINE U(x) == {y \in K : y <= x}
<1>1. IsFiniteSet(K)
  <2>1. IsFiniteSet(1..n)
    BY FS_Interval
  <2> QED BY <2>1, FS_Subset
<1>2. \A x : IsFiniteSet(U(x)) /\ Cardinality(U(x)) \in Nat
  BY <1>1, FS_Subset, FS_CardinalityType
<1>3. \A y \in K : y \in Int
  OBVIOUS
<1>4. ASSUME i <= k PROVE Cardinality(U(i)) <= Cardinality(U(k))
  <2>1. \A y \in K : y <= i => y <= k
    BY <1>3, <1>4
  <2>2. U(i) \subseteq U(k)
    BY <2>1, Zenon
  <2> QED BY <1>2, <2>2, FS_Subset
<1>5. ASSUME k \in K, i < k PROVE Cardinality(U(i)) < Cardinality(U(k))
  <2>1. (\A y \in K : y <= i => y <= k) /\ k <= k /\ ~(k <= i)
    BY <1>3, <1>5
  <2>2. U(i) \cup {k} \subseteq U(k) /\ k \notin U(i)
    BY <1>5, <2>1, Zenon
  <2>3. Cardinality(U(i) \cup {k}) = Cardinality(U(i)) + 1
    BY SMTT(30), <1>2, <2>2, FS_AddElement
  <2>4. Cardinality(U(i) \cup {k}) <= Cardinality(U(k))
    BY <1>2, <2>2, FS_Subset
  <2>5. Cardinality(U(i)) \in Nat /\ Cardinality(U(k)) \in Nat
    BY <1>2
  <2> HIDE DEF U
  <2> QED BY <2>3, <2>4, <2>5
<1> QED BY <1>4, <1>5 DEF RankIn

(* f goes through K, which has m elements, in order.                       *)
GoesThrough(f, m, K) ==
  /\ m \in Nat /\ f \in [1..m -> K]
  /\ \A i, j \in 1..m : i < j => f[i] < f[j]
  /\ \A x \in K : \E j \in 1..m : f[j] = x

RanksGrow(f, m, K) == \A j \in 1..m : RankIn(K, f[j]) = j

(* Counted through in order, the jth element has rank j.                   *)
LEMMA CountedThrough ==
  ASSUME NEW n \in Nat, NEW K, K \subseteq 1..n, NEW m, NEW f, GoesThrough(f, m, K)
  PROVE  Cardinality(K) = m /\ RanksGrow(f, m, K)
<1> DEFINE T(j) == {f[i] : i \in 1..j}
<1> USE DEF GoesThrough
<1>1. \A i \in 1..m : f[i] \in K /\ f[i] \in Int
  <2>1. \A i \in 1..m : f[i] \in K
    OBVIOUS
  <2>2. \A x \in K : x \in Int
    OBVIOUS
  <2> QED BY <2>1, <2>2
<1>2. ASSUME NEW j \in 0..m PROVE Cardinality(T(j)) = j
  <2> DEFINE g == [i \in 1..j |-> f[i]]
  <2>1. \A i, k \in 1..j : f[i] = f[k] => i = k
    <3>1. \A i, k \in 1..j : i \in 1..m /\ k \in 1..m /\ (i < k \/ k < i \/ i = k)
      OBVIOUS
    <3> QED BY <1>1, <3>1
  <2>2. g \in Bijection(1..j, T(j))
    BY <2>1 DEF Bijection, Injection, Surjection, IsInjective
  <2>3. IsFiniteSet(1..j) /\ Cardinality(1..j) = j
    BY FS_Interval
  <2>4. ExistsBijection(1..j, T(j))
    BY <2>2 DEF ExistsBijection
  <2> QED BY <2>3, <2>4, FS_Bijection
<1>3. T(m) = K
  BY <1>1
<1>4. ASSUME NEW j \in 1..m PROVE {x \in K : x <= f[j]} = T(j)
  <2>1. ASSUME NEW x \in K, x <= f[j] PROVE x \in T(j)
    <3>1. PICK i \in 1..m : f[i] = x
      OBVIOUS
    <3>2. ~(j < i)
      BY <1>1, <2>1, <3>1
    <3>3. i \in 1..j
      BY <3>2
    <3> QED BY <3>1, <3>3
  <2>2. ASSUME NEW i \in 1..j PROVE f[i] \in K /\ f[i] <= f[j]
    <3>1. i \in 1..m /\ (i = j \/ i < j)
      OBVIOUS
    <3> QED BY <1>1, <3>1
  <2> QED BY <2>1, <2>2
<1> HIDE DEF T
<1> QED BY <1>2, <1>3, <1>4 DEF RankIn, RanksGrow

(* What follows a place.                                                   *)
LEMMA AfterProperties ==
  ASSUME NEW S, NEW s \in Seq(S), NEW k \in 0..Len(s)
  PROVE  /\ SubSeq(s, k + 1, Len(s)) \in Seq(S)
         /\ Len(SubSeq(s, k + 1, Len(s))) = Len(s) - k
         /\ \A j \in 1..(Len(s) - k) : SubSeq(s, k + 1, Len(s))[j] = s[j + k]
<1> DEFINE t == SubSeq(s, k + 1, Len(s))
           N == Len(s)
<1>1. N \in Nat /\ k + 1 \in Int /\ k \in 0..N /\ \A i \in (k + 1)..N : s[i] \in S
  BY LenProperties, ElementOfSeq
<1>2. /\ t \in Seq(S)
      /\ Len(t) = IF k + 1 <= N THEN (N - (k + 1)) + 1 ELSE 0
      /\ \A j \in 1..((N - (k + 1)) + 1) : t[j] = s[(k + 1) + j - 1]
  BY <1>1, SubSeqProperties
<1> HIDE DEF t, N
<1>3. Len(t) = N - k /\ 1..((N - (k + 1)) + 1) = 1..(N - k)
  BY <1>1, <1>2
<1>4. \A j \in 1..(N - k) : (k + 1) + j - 1 = j + k
  BY <1>1
<1>5. \A j \in 1..(N - k) : t[j] = s[j + k]
  BY <1>2, <1>3, <1>4
<1> QED BY <1>2, <1>3, <1>5 DEF t, N

(* If f goes through the places kept, what is left are their elements.     *)
LEMMA WithoutThrough ==
  ASSUME NEW S, NEW s \in Seq(S), NEW ids, NEW m, NEW f,
         GoesThrough(f, m, KeptPlaces(s, ids))
  PROVE  Without(s, ids) = [j \in 1..m |-> s[f[j]]]
<1> DEFINE K == KeptPlaces(s, ids)
           at(j) == CHOOSE i \in K : RankIn(K, i) = j
<1>1. Len(s) \in Nat /\ K \subseteq 1..Len(s)
  BY LenProperties DEF KeptPlaces
<1>2. Without(s, ids) = [j \in 1..Cardinality(K) |-> s[at(j)]]
  BY DEF Without, KeptUpTo
<1>3. Cardinality(K) = m /\ \A j \in 1..m : RankIn(K, f[j]) = j
  <2>1. GoesThrough(f, m, K)
    OBVIOUS
  <2> DEFINE n == Len(s)
  <2>2. n \in Nat /\ K \subseteq 1..n
    BY <1>1
  <2> HIDE DEF K, n
  <2>3. Cardinality(K) = m /\ RanksGrow(f, m, K)
    BY <2>1, <2>2, CountedThrough
  <2> QED BY <2>3 DEF RanksGrow
<1>4. ASSUME NEW j \in 1..m PROVE at(j) = f[j]
  <2>1. f[j] \in K
    BY DEF GoesThrough
  <2>2. at(j) \in K /\ RankIn(K, at(j)) = j
    BY <1>3, <2>1
  <2>3. PICK k \in 1..m : f[k] = at(j)
    BY <2>2 DEF GoesThrough
  <2> QED BY <2>2, <2>3, <1>3
<1> QED BY <1>2, <1>3, <1>4

(* w is u, which has none of "ids", with n of them put in after place k.   *)
PutInto(u, ids, k, n, w) ==
  /\ n \in Nat /\ k \in 0..Len(u) /\ Len(w) = Len(u) + n
  /\ \A j \in 1..k : w[j] = u[j]
  /\ \A j \in (k + 1)..(k + n) : w[j] \in ids
  /\ \A j \in (k + 1)..Len(u) : w[j + n] = u[j]
  /\ \A j \in 1..Len(u) : u[j] \notin ids

(* Taking out what was put in gives back what there was.                   *)
LEMMA WithoutInserted ==
  ASSUME NEW S, NEW u \in Seq(S), NEW w \in Seq(S), NEW ids, NEW n, NEW k,
         PutInto(u, ids, k, n, w)
  PROVE  Without(w, ids) = u
<1> USE DEF PutInto
<1> DEFINE m == Len(u)
           f == [j \in 1..m |-> IF j <= k THEN j ELSE j + n]
           K == KeptPlaces(w, ids)
<1>1. m \in Nat /\ DOMAIN w = 1..(m + n) /\ u = [j \in 1..m |-> u[j]]
  BY LenProperties
<1>2. \A j \in 1..m : f[j] \in 1..(m + n) /\ w[f[j]] = u[j]
  BY <1>1
<1>3. f \in [1..m -> K]
  BY <1>1, <1>2 DEF KeptPlaces
<1>4. \A i, j \in 1..m : i < j => f[i] < f[j]
  BY <1>1
<1>5. ASSUME NEW x \in K PROVE \E j \in 1..m : f[j] = x
  <2>1. x \in 1..(m + n) /\ x \notin (k + 1)..(k + n)
    BY <1>1 DEF KeptPlaces
  <2>2. CASE x <= k
    BY <1>1, <2>1, <2>2
  <2>3. CASE x > k + n
    <3>1. x - n \in 1..m /\ ~(x - n <= k) /\ (x - n) + n = x
      BY <1>1, <2>1, <2>3
    <3> QED BY <3>1
  <2> QED BY <1>1, <2>1, <2>2, <2>3
<1> HIDE DEF f, m
<1>6. Without(w, ids) = [j \in 1..m |-> w[f[j]]]
  <2>1. GoesThrough(f, m, K)
    BY <1>1, <1>3, <1>4, <1>5 DEF GoesThrough
  <2> QED BY <2>1, WithoutThrough
<1> QED BY <1>1, <1>2, <1>6

(* Nothing is taken out where there is nothing to.                         *)
LEMMA WithoutNothing ==
  ASSUME NEW S, NEW u \in Seq(S), NEW ids, ToSet(u) \cap ids = {}
  PROVE  Without(u, ids) = u
<1>1. Len(u) \in Nat /\ \A j \in 1..Len(u) : u[j] \notin ids
  BY LenProperties DEF ToSet
<1>2. 0 \in 0..Len(u) /\ Len(u) = Len(u) + 0
  BY <1>1
<1>3. \A j \in (0 + 1)..(0 + 0) : u[j] \in ids
  OBVIOUS
<1>4. \A j \in (0 + 1)..Len(u) : u[j + 0] = u[j]
  BY <1>1
<1>5. PutInto(u, ids, 0, 0, u)
  BY <1>1, <1>2, <1>3, <1>4 DEF PutInto
<1> QED BY <1>5, WithoutInserted

(* What follows a place, after taking out: what follows what is left of it.*)
LEMMA WithoutAfter ==
  ASSUME NEW S, NEW s \in Seq(S), NEW ids, NEW k \in 0..Len(s)
  PROVE  SubSeq(Without(s, ids), KeptUpTo(s, ids, k) + 1, Len(Without(s, ids)))
           = Without(SubSeq(s, k + 1, Len(s)), ids)
<1> DEFINE K == KeptPlaces(s, ids)
           R(i) == RankIn(K, i)
           at(j) == CHOOSE i \in K : R(i) = j
           t == SubSeq(s, k + 1, Len(s))
           N == Len(s)
           c == R(k)
           m == Cardinality(K) - c
           f == [j \in 1..m |-> at(j + c) - k]
<1>1. N \in Nat /\ DOMAIN s = 1..N /\ \A i \in 1..N : s[i] \in S
  BY LenProperties, ElementOfSeq
<1>2. /\ t \in Seq(S) /\ Len(t) = N - k /\ DOMAIN t = 1..(N - k)
      /\ \A i \in 1..(N - k) : t[i] = s[i + k]
  <2>1. /\ t \in Seq(S) /\ Len(t) = N - k
        /\ \A i \in 1..(N - k) : t[i] = s[i + k]
    BY AfterProperties
  <2> QED BY <2>1, LenProperties
<1>3. /\ K \subseteq 1..N /\ \A i \in 1..N : i \in K <=> s[i] \notin ids
      /\ Without(s, ids) = [j \in 1..Cardinality(K) |-> s[at(j)]]
      /\ KeptUpTo(s, ids, k) = c
      /\ \A i \in 1..(N - k) : i \in KeptPlaces(t, ids) <=> i + k \in K
      /\ KeptPlaces(t, ids) \subseteq 1..(N - k)
  <2>1. K \subseteq 1..N /\ \A i \in 1..N : i \in K <=> s[i] \notin ids
    BY <1>1 DEF KeptPlaces
  <2>2. /\ Without(s, ids) = [j \in 1..Cardinality(K) |-> s[at(j)]]
        /\ KeptUpTo(s, ids, k) = c
    BY DEF Without, KeptUpTo
  <2>3. KeptPlaces(t, ids) \subseteq 1..(N - k)
    BY <1>2 DEF KeptPlaces
  <2> HIDE DEF K
  <2>4. \A i \in 1..(N - k) : i + k \in 1..N
    BY <1>1
  <2> HIDE DEF t
  <2>5. \A i \in 1..(N - k) : i \in KeptPlaces(t, ids) <=> t[i] \notin ids
    BY <1>2 DEF KeptPlaces
  <2>6. \A i \in 1..(N - k) : i \in KeptPlaces(t, ids) <=> i + k \in K
    BY <1>2, <2>1, <2>4, <2>5
  <2> QED BY <2>1, <2>2, <2>3, <2>6
<1> HIDE DEF K, t
<1>4. /\ Cardinality(K) \in 0..N /\ R(k) \in 0..Cardinality(K)
      /\ \A i \in K : R(i) \in 1..Cardinality(K)
      /\ \A j \in 1..Cardinality(K) : \E i \in K : R(i) = j
      /\ \A i, x \in K : R(i) = R(x) => i = x
  BY <1>1, <1>3, RankInProperties
<1>5. \A i, x \in 0..N : (i <= x => R(i) <= R(x)) /\ (x \in K /\ i < x => R(i) < R(x))
  BY <1>1, <1>3, RankGrows
<1>6. \A i \in K : i \in 0..N /\ R(i) \in Int
  BY <1>3, <1>4
<1> HIDE DEF R
<1>7. /\ c \in 0..Cardinality(K) /\ m \in Nat
      /\ c \in Nat /\ Cardinality(K) \in Nat /\ m = Cardinality(K) - c
  <2>1. Cardinality(K) \in Nat /\ c \in 0..Cardinality(K)
    BY <1>1, <1>4
  <2> QED BY <2>1
<1>8. ASSUME NEW j \in 1..Cardinality(K) PROVE at(j) \in K /\ R(at(j)) = j
  BY <1>4
<1> HIDE DEF at
<1>9. ASSUME NEW j \in 1..m
      PROVE  /\ j + c \in 1..Cardinality(K) /\ at(j + c) \in K /\ R(at(j + c)) = j + c
             /\ at(j + c) > k /\ at(j + c) - k \in 1..(N - k) /\ (at(j + c) - k) + k = at(j + c)
  <2>1. j + c \in 1..Cardinality(K) /\ j + c > c
    <3> HIDE DEF c, m
    <3> QED BY <1>7
  <2>2. at(j + c) \in K /\ R(at(j + c)) = j + c
    BY <2>1, <1>8
  <2>3. at(j + c) \in 0..N /\ at(j + c) \in 1..N
    BY <2>2, <1>3, <1>6
  <2>4. ~(at(j + c) <= k)
    BY <1>1, <1>5, <1>7, <2>1, <2>2, <2>3
  <2> QED BY <1>1, <2>1, <2>2, <2>3, <2>4
<1> HIDE DEF c, m
<1>10. f \in [1..m -> KeptPlaces(t, ids)]
  BY <1>3, <1>9
<1>11. \A i, j \in 1..m : i < j => f[i] < f[j]
  <2>1. ASSUME NEW i \in 1..m, NEW j \in 1..m, i < j PROVE at(i + c) < at(j + c)
    <3>1. i + c < j + c /\ at(i + c) \in 0..N /\ at(j + c) \in 0..N
      BY <1>6, <1>7, <1>9, <2>1
    <3>2. R(at(i + c)) = i + c /\ R(at(j + c)) = j + c
      BY <1>9
    <3>3. ~(at(j + c) <= at(i + c))
      BY <1>5, <1>7, <3>1, <3>2
    <3> QED BY <3>1, <3>3
  <2>2. \A i \in 1..m : at(i + c) \in Int
    BY <1>6, <1>9
  <2> QED BY <2>1, <2>2
<1>12. ASSUME NEW x \in KeptPlaces(t, ids) PROVE \E j \in 1..m : f[j] = x
  <2>1. x \in 1..(N - k) /\ x + k \in K /\ k < x + k /\ x + k \in 0..N
    BY <1>1, <1>3
  <2>2. R(x + k) > c /\ R(x + k) \in 1..Cardinality(K)
    BY <1>4, <1>5, <2>1 DEF c
  <2>3. R(x + k) - c \in 1..m /\ (R(x + k) - c) + c = R(x + k)
    BY <1>7, <2>2
  <2>4. at(R(x + k)) = x + k
    BY <1>4, <1>8, <2>1, <2>2
  <2>5. f[R(x + k) - c] = x
    BY <2>1, <2>3, <2>4
  <2> QED BY <2>3, <2>5
<1>13. Without(t, ids) = [j \in 1..m |-> t[f[j]]]
  <2>1. GoesThrough(f, m, KeptPlaces(t, ids))
    BY <1>7, <1>10, <1>11, <1>12 DEF GoesThrough
  <2> HIDE DEF f
  <2> QED BY <2>1, <1>2, WithoutThrough
<1>14. \A j \in 1..m : t[f[j]] = s[at(j + c)]
  BY <1>2, <1>9
<1>15. /\ Without(s, ids) \in Seq(S) /\ Len(Without(s, ids)) = Cardinality(K)
       /\ \A j \in 1..Cardinality(K) : Without(s, ids)[j] = s[at(j)]
  BY <1>3, WithoutProperties DEF K
<1> DEFINE w == Without(s, ids)
           tail == SubSeq(w, c + 1, Len(w))
<1> HIDE DEF w
<1>16. /\ tail \in Seq(S) /\ Len(tail) = m
       /\ \A j \in 1..m : tail[j] = w[j + c]
  <2>1. w \in Seq(S) /\ Len(w) = Cardinality(K) /\ c \in 0..Len(w) /\ m = Len(w) - c
    BY <1>7, <1>15 DEF w, m
  <2> QED BY <2>1, AfterProperties
<1>17. tail = [j \in 1..m |-> tail[j]]
  BY <1>16, LenProperties
<1>18. \A j \in 1..m : tail[j] = s[at(j + c)]
  BY <1>9, <1>15, <1>16 DEF w
<1> HIDE DEF tail
<1>19. tail = Without(t, ids)
  BY <1>13, <1>14, <1>17, <1>18
<1> QED BY <1>3, <1>19 DEF tail, w, t
=============================================================================
