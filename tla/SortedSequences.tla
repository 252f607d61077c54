--------------------------- MODULE SortedSequences ---------------------------
(***************************************************************************)
(* A finite set with a strict total order can be listed in that order.     *)
(* Route plans and the scans of a key pool are such lists: the models      *)
(* choose one, and what is proved of them rests on there being one.        *)
(*                                                                         *)
(* The argument counts: an element comes behind as many others as are less *)
(* than it.  This rank is an injection of the set into 1..Cardinality, so  *)
(* it reaches every place, and its inverse is the list.                    *)
(***************************************************************************)
EXTENDS SequencesExt, FiniteSetTheorems, SequenceTheorems, TLAPS

(* R, a set of pairs, orders the elements of S strictly and totally.        *)
StrictlyOrders(R, S) ==
  /\ \A x \in S : <<x, x>> \notin R
  /\ \A x, y \in S : x # y => <<x, y>> \in R \/ <<y, x>> \in R
  /\ \A x, y, z \in S : <<x, y>> \in R /\ <<y, z>> \in R => <<x, z>> \in R

Smaller(R, S, x) == {y \in S : <<y, x>> \in R}

Rank(R, S, x) == Cardinality(Smaller(R, S, x)) + 1

Sorted(R, s) == \A j, k \in DOMAIN s : j < k => <<s[j], s[k]>> \in R

-----------------------------------------------------------------------------
(* The rank is a place in the list.                                         *)
LEMMA RankIsPlace ==
  ASSUME NEW S, IsFiniteSet(S), NEW R, StrictlyOrders(R, S), NEW x \in S
  PROVE  /\ IsFiniteSet(Smaller(R, S, x))
         /\ Cardinality(Smaller(R, S, x)) \in Nat
         /\ Rank(R, S, x) \in 1..Cardinality(S)
<1> DEFINE less == Smaller(R, S, x)
<1>1. less \subseteq S /\ x \notin less
  BY DEF Smaller, StrictlyOrders
<1> HIDE DEF less
<1>2. IsFiniteSet(less) /\ Cardinality(less) <= Cardinality(S)
  BY <1>1, FS_Subset
<1>3. Cardinality(less) # Cardinality(S)
  BY <1>1, FS_Subset
<1>4. Cardinality(less) \in Nat /\ Cardinality(S) \in Nat
  BY <1>2, FS_CardinalityType
<1>5. Cardinality(less) + 1 \in 1..Cardinality(S)
  BY <1>2, <1>3, <1>4
<1> QED
  BY <1>2, <1>4, <1>5 DEF Rank, less

(* What is less has the lower rank.                                         *)
LEMMA RankFollowsOrder ==
  ASSUME NEW S, IsFiniteSet(S), NEW R, StrictlyOrders(R, S),
         NEW x \in S, NEW y \in S, <<x, y>> \in R
  PROVE  Rank(R, S, x) < Rank(R, S, y)
<1> DEFINE below == Smaller(R, S, x)
           above == Smaller(R, S, y)
<1>1. below \subseteq above
  BY DEF Smaller, StrictlyOrders
<1>2. x \in above /\ x \notin below
  BY DEF Smaller, StrictlyOrders
<1>3. /\ IsFiniteSet(above)
      /\ Cardinality(below) \in Nat /\ Cardinality(above) \in Nat
  BY RankIsPlace
<1> HIDE DEF below, above
<1>4. Cardinality(below) <= Cardinality(above)
  BY <1>1, <1>3, FS_Subset
<1>5. Cardinality(below) # Cardinality(above)
  BY <1>1, <1>2, <1>3, FS_Subset
<1>6. Cardinality(below) + 1 < Cardinality(above) + 1
  BY <1>3, <1>4, <1>5
<1> QED
  BY <1>6 DEF Rank, below, above

(* There is a sorted list of every finite set.                              *)
LEMMA SortedExists ==
  ASSUME NEW S, IsFiniteSet(S), NEW R, StrictlyOrders(R, S)
  PROVE  \E s \in SetToSeqs(S) : Sorted(R, s)
<1> DEFINE n == Cardinality(S)
           rank == [x \in S |-> Rank(R, S, x)]
           list == [k \in 1..n |-> CHOOSE x \in S : rank[x] = k]
<1>1. n \in Nat
  BY FS_CardinalityType
<1>2. rank \in [S -> 1..n]
  BY RankIsPlace
<1>3. \A x, y \in S : rank[x] = rank[y] => x = y
  <2>1. SUFFICES ASSUME NEW x \in S, NEW y \in S, rank[x] = rank[y], x # y
                 PROVE  FALSE
    OBVIOUS
  <2>2. rank[x] < rank[y] \/ rank[y] < rank[x]
    BY <2>1, RankFollowsOrder DEF StrictlyOrders
  <2>3. rank[x] \in Int /\ rank[y] \in Int
    BY <1>1, <1>2
  <2> HIDE DEF rank
  <2> QED
    BY <2>1, <2>2, <2>3
<1>4. \A x, y \in S : rank[x] < rank[y] => <<x, y>> \in R
  <2>1. SUFFICES ASSUME NEW x \in S, NEW y \in S, rank[x] < rank[y],
                        <<x, y>> \notin R
                 PROVE  FALSE
    OBVIOUS
  <2>2. rank[x] = rank[y] \/ rank[y] < rank[x]
    BY <2>1, RankFollowsOrder DEF StrictlyOrders
  <2>3. rank[x] \in Int /\ rank[y] \in Int
    BY <1>1, <1>2
  <2> HIDE DEF rank
  <2> QED
    BY <2>1, <2>2, <2>3
<1> HIDE DEF rank
<1>5. rank \in Injection(S, 1..n)
  BY <1>2, <1>3 DEF Injection, IsInjective
<1>6. IsFiniteSet(1..n) /\ Cardinality(1..n) = n
  BY <1>1, FS_Interval
<1>7. rank \in Surjection(S, 1..n)
  BY <1>5, <1>6, FS_Injection
<1>8. \A k \in 1..n : list[k] \in S /\ rank[list[k]] = k
  BY <1>7 DEF Surjection
<1> HIDE DEF list
<1>9. list \in [1..n -> S]
  BY <1>8 DEF list
<1>10. \A j, k \in 1..n : j # k => list[j] # list[k]
  BY <1>8
<1>11. list \in SetToSeqs(S)
  BY <1>9, <1>10 DEF SetToSeqs
<1>12. Sorted(R, list)
  BY <1>4, <1>8, <1>9 DEF Sorted
<1> QED
  BY <1>11, <1>12

(* What SetToSeqs lists, it lists once and whole.                           *)
LEMMA Listed ==
  ASSUME NEW S, IsFiniteSet(S), NEW s \in SetToSeqs(S)
  PROVE  /\ s \in Seq(S)
         /\ Len(s) = Cardinality(S)
         /\ Cardinality(S) \in Nat
         /\ \A j, k \in DOMAIN s : j # k => s[j] # s[k]
         /\ \A x \in S : \E k \in DOMAIN s : s[k] = x
<1> DEFINE n == Cardinality(S)
<1>1. n \in Nat
  BY FS_CardinalityType
<1> HIDE DEF n
<1>2. s \in [1..n -> S] /\ \A j, k \in 1..n : j # k => s[j] # s[k]
  BY DEF SetToSeqs, n
<1>3. s \in Seq(S) /\ Len(s) = n /\ DOMAIN s = 1..n
  BY <1>1, <1>2
<1>4. s \in Injection(1..n, S)
  BY <1>2 DEF Injection, IsInjective
<1>5. s \in Surjection(1..n, S)
  <2>1. Cardinality(1..n) = Cardinality(S)
    BY <1>1, FS_Interval DEF n
  <2> QED
    BY <1>4, <2>1, FS_Injection
<1>6. \A x \in S : \E k \in 1..n : s[k] = x
  BY <1>5 DEF Surjection
<1> QED
  BY <1>1, <1>2, <1>3, <1>6 DEF n

(* In a sorted list every element stands at its rank.                       *)
LEMMA SortedAtRank ==
  ASSUME NEW S, IsFiniteSet(S), NEW R, StrictlyOrders(R, S),
         NEW s \in SetToSeqs(S), Sorted(R, s), NEW k \in DOMAIN s
  PROVE  Rank(R, S, s[k]) = k
<1> DEFINE n == Cardinality(S)
           before == 1..(k - 1)
           less == Smaller(R, S, s[k])
           f == [j \in before |-> s[j]]
<1>1. /\ s \in Seq(S) /\ Len(s) = n /\ n \in Nat
      /\ \A i, j \in DOMAIN s : i # j => s[i] # s[j]
      /\ \A x \in S : \E j \in DOMAIN s : s[j] = x
  BY Listed
<1> HIDE DEF n
<1>2. DOMAIN s = 1..n /\ k \in 1..n
  BY <1>1
<1>3. s[k] \in S
  BY <1>1, <1>2
<1>4. \A j \in before : j \in DOMAIN s /\ j < k
  BY <1>1, <1>2
<1>5. \A j \in before : s[j] \in less
  BY <1>1, <1>4 DEF Sorted, Smaller
<1>6. \A x \in less : \E j \in before : s[j] = x
  <2> TAKE x \in less
  <2>1. x \in S /\ <<x, s[k]>> \in R
    BY DEF Smaller
  <2>2. PICK j \in DOMAIN s : s[j] = x
    BY <1>1, <2>1
  <2>3. j # k
    BY <1>3, <2>1, <2>2 DEF StrictlyOrders
  <2>4. ~(k < j)
    <3>1. SUFFICES ASSUME k < j
                   PROVE  FALSE
      OBVIOUS
    <3>2. <<s[k], s[j]>> \in R
      BY <2>2, <3>1 DEF Sorted
    <3> QED
      BY <1>3, <2>1, <2>2, <3>2 DEF StrictlyOrders
  <2>5. j \in before
    BY <1>2, <2>2, <2>3, <2>4
  <2> QED
    BY <2>2, <2>5
<1> HIDE DEF less
<1>7. f \in Bijection(before, less)
  <2>1. f \in [before -> less]
    BY <1>5
  <2>2. \A i, j \in before : f[i] = f[j] => i = j
    BY <1>1, <1>4
  <2>3. \A x \in less : \E j \in before : f[j] = x
    BY <1>6
  <2> HIDE DEF f
  <2>4. f \in Injection(before, less)
    BY <2>1, <2>2 DEF Injection, IsInjective
  <2>5. f \in Surjection(before, less)
    BY <2>1, <2>3 DEF Surjection
  <2> QED
    BY <2>4, <2>5 DEF Bijection
<1>8. ExistsBijection(before, less)
  BY <1>7 DEF ExistsBijection
<1>9. IsFiniteSet(before) /\ Cardinality(before) = k - 1
  <2>1. 1 \in Int /\ k - 1 \in Int /\ k - 1 >= 0
    BY <1>2, <1>1
  <2>2. IsFiniteSet(before)
    BY <2>1, FS_Interval
  <2>3. Cardinality(before) = IF 1 > k - 1 THEN 0 ELSE (k - 1) - 1 + 1
    BY <2>1, FS_Interval
  <2> HIDE DEF before
  <2> QED
    BY <1>1, <1>2, <2>1, <2>2, <2>3
<1>10. Cardinality(less) = k - 1
  BY <1>8, <1>9, FS_Bijection
<1> HIDE DEF less
<1>11. Cardinality(less) + 1 = k
  BY <1>1, <1>2, <1>10
<1> QED
  BY <1>11 DEF Rank, less

(* So there is but one sorted list.                                         *)
LEMMA SortedUnique ==
  ASSUME NEW S, IsFiniteSet(S), NEW R, StrictlyOrders(R, S),
         NEW s \in SetToSeqs(S), NEW t \in SetToSeqs(S),
         Sorted(R, s), Sorted(R, t)
  PROVE  s = t
<1>1. /\ s \in Seq(S) /\ t \in Seq(S) /\ Len(s) = Len(t)
      /\ \A x \in S : \E j \in DOMAIN s : s[j] = x
  BY Listed
<1>2. \A k \in DOMAIN t : t[k] = s[k]
  <2> TAKE k \in DOMAIN t
  <2>1. t[k] \in S
    BY <1>1
  <2>2. PICK j \in DOMAIN s : s[j] = t[k]
    BY <1>1, <2>1
  <2>3. j = k
    BY <2>2, SortedAtRank
  <2> QED
    BY <2>2, <2>3
<1>3. s \in Seq(S) /\ t \in Seq(S) /\ Len(s) = Len(t)
  BY <1>1
<1>4. DOMAIN t = 1..Len(s)
  BY ONLY <1>3
<1>5. \A k \in 1..Len(s) : s[k] = t[k]
  BY <1>2, <1>4
<1> QED
  BY ONLY <1>3, <1>5, SeqEqual

(* A list of all of a set, each once, is among those of SetToSeqs.          *)
LEMMA ListsAll ==
  ASSUME NEW S, NEW s \in Seq(S),
         \A j, k \in 1..Len(s) : j # k => s[j] # s[k],
         \A x \in S : \E k \in 1..Len(s) : s[k] = x
  PROVE  s \in SetToSeqs(S)
<1> DEFINE n == Len(s)
<1>1. n \in Nat /\ s \in [1..n -> S]
  OBVIOUS
<1> HIDE DEF n
<1>2. s \in Injection(1..n, S)
  BY <1>1 DEF Injection, IsInjective, n
<1>3. s \in Surjection(1..n, S)
  BY <1>1 DEF Surjection, n
<1>4. ExistsBijection(1..n, S)
  BY <1>2, <1>3 DEF ExistsBijection, Bijection
<1>5. IsFiniteSet(1..n) /\ Cardinality(1..n) = n
  BY <1>1, FS_Interval
<1>6. Cardinality(S) = n
  BY <1>4, <1>5, FS_Bijection
<1> QED
  BY <1>1, <1>6 DEF SetToSeqs, n
=============================================================================
