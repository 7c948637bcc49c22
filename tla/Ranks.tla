------------------------------- MODULE Ranks -------------------------------
(***************************************************************************)
(* The rank of an element in a finite set of integers, that is its place   *)
(* in the sorted list of the set, counted from 0.  AssignPartitions takes  *)
(* pods and Stream takes records by their rank.                            *)
(***************************************************************************)
EXTENDS Integers, FiniteSets, FiniteSetTheorems, TLAPS

Rank(S, x) == Cardinality({y \in S : y < x})

(* A rank is a number below the size of the set, and no two elements have  *)
(* the same.                                                               *)
LEMMA RankDistinct ==
    ASSUME NEW S \in SUBSET Int, IsFiniteSet(S)
    PROVE  /\ Cardinality(S) \in Nat
           /\ \A x \in S : Rank(S, x) \in 0..(Cardinality(S) - 1)
           /\ \A x, y \in S : Rank(S, x) = Rank(S, y) => x = y
<1> DEFINE B(x) == {y \in S : y < x}
<1>0. Cardinality(S) \in Nat
  BY FS_CardinalityType
<1>1. ASSUME NEW x \in S
      PROVE  /\ IsFiniteSet(B(x))
             /\ Cardinality(B(x)) \in Nat
             /\ Cardinality(B(x)) < Cardinality(S)
  <2>1. B(x) \in SUBSET S /\ B(x) # S
    OBVIOUS
  <2>2. /\ IsFiniteSet(B(x)) /\ Cardinality(B(x)) <= Cardinality(S)
        /\ Cardinality(S) # Cardinality(B(x))
    BY <2>1, FS_Subset
  <2>3. Cardinality(B(x)) \in Nat
    BY <2>2, FS_CardinalityType
  <2> QED  BY <1>0, <2>2, <2>3
<1>2. ASSUME NEW x \in S, NEW y \in S, x < y
      PROVE  Cardinality(B(x)) < Cardinality(B(y))
  <2>1. B(x) \in SUBSET B(y) /\ x \in B(y) /\ x \notin B(x)
    <3>1. \A z \in S : z < x => z < y
      BY <1>2
    <3>2. ~(x < x)
      OBVIOUS
    <3> QED  BY <1>2, <3>1, <3>2
  <2>2. /\ Cardinality(B(x)) <= Cardinality(B(y))
        /\ Cardinality(B(y)) = Cardinality(B(x)) => B(y) = B(x)
    BY <1>1, <2>1, FS_Subset
  <2>3. Cardinality(B(x)) # Cardinality(B(y))
    BY <2>1, <2>2
  <2>4. Cardinality(B(x)) \in Nat /\ Cardinality(B(y)) \in Nat
    BY <1>1
  <2> HIDE DEF B
  <2> QED  BY <2>2, <2>3, <2>4
<1>3. \A x \in S : Rank(S, x) = Cardinality(B(x))
  BY DEF Rank
<1> HIDE DEF B
<1>4. \A x \in S : Rank(S, x) \in 0..(Cardinality(S) - 1)
  BY <1>0, <1>1, <1>3
<1>5. ASSUME NEW x \in S, NEW y \in S, Rank(S, x) = Rank(S, y)
      PROVE  x = y
  <2>1. x \in Int /\ y \in Int
    OBVIOUS
  <2>2. ~(x < y) /\ ~(y < x)
    BY <1>1, <1>2, <1>3, <1>5
  <2> QED  BY <2>1, <2>2
<1> QED  BY <1>0, <1>4, <1>5

(* Every number below the size of the set is the rank of an element.       *)
LEMMA RankOnto ==
    ASSUME NEW S \in SUBSET Int, IsFiniteSet(S), NEW n \in 0..(Cardinality(S) - 1)
    PROVE  \E x \in S : Rank(S, x) = n
<1> DEFINE c == Cardinality(S)
           R == 0..(c - 1)
           f == [x \in S |-> Rank(S, x)]
<1>1. /\ c \in Nat
      /\ \A x \in S : Rank(S, x) \in R
      /\ \A x, y \in S : Rank(S, x) = Rank(S, y) => x = y
  BY RankDistinct
<1>2. f \in Injection(S, R)
  BY <1>1 DEF Injection, IsInjective
<1>3. c > 0
  BY <1>1
<1> HIDE DEF c
<1>4. IsFiniteSet(R) /\ Cardinality(R) = c
  <2>1. 0 \in Int /\ c - 1 \in Int /\ ~(0 > c - 1) /\ (c - 1) - 0 + 1 = c
    BY <1>1, <1>3
  <2> QED  BY <2>1, FS_Interval
<1>5. f \in Surjection(S, R)
  BY <1>2, <1>4, FS_Injection DEF c
<1> QED  BY <1>5 DEF Surjection, c

(* Counting on from p, modulo the size c, meets no number twice before c.  *)
LEMMA RoundRobin ==
    ASSUME NEW c \in Nat, c > 0, NEW p \in Nat, NEW i \in 0..(c - 1), NEW j \in 0..(c - 1),
           (p + i) % c = (p + j) % c
    PROVE  i = j
<1> DEFINE a == p + i
           b == p + j
           qa == a \div c
           qb == b \div c
           r == a % c
<1>1. a \in Nat /\ b \in Nat /\ r = b % c
  OBVIOUS
<1> HIDE DEF a, b
<1>2. /\ qa \in Int /\ qb \in Int /\ r \in 0..(c - 1)
      /\ a = c * qa + r /\ b = c * qb + r
  BY <1>1
<1> HIDE DEF qa, qb, r
<1>3. a - b = i - j
  BY DEF a, b
<1>4. a - b = c * (qa - qb)
  BY <1>2
<1> DEFINE d == qa - qb
<1>5. d \in Int /\ i - j = c * d
  BY <1>2, <1>3, <1>4
<1> HIDE DEF d
<1>6. CASE d = 0
  BY <1>5, <1>6
<1>7. CASE d > 0
  <2>1. c * d >= c
    BY <1>5, <1>7
  <2> QED  BY <1>5, <2>1
<1>8. CASE d < 0
  <2>1. c * d <= -c
    BY <1>5, <1>8
  <2> QED  BY <1>5, <2>1
<1> QED  BY <1>5, <1>6, <1>7, <1>8

(* A set that has 0, and n + 1 with every number n, has every number: the  *)
(* first one it missed would have rank 0 among those it misses.            *)
LEMMA NatClosed ==
    ASSUME NEW T, 0 \in T, \A n \in Nat : n \in T => n + 1 \in T
    PROVE  Nat \subseteq T
<1> SUFFICES ASSUME NEW n \in Nat, n \notin T PROVE FALSE
  OBVIOUS
<1> DEFINE B == {i \in 0..n : i \notin T}
<1>1. B \in SUBSET Int /\ n \in B
  OBVIOUS
<1>2. IsFiniteSet(B)
  <2>1. IsFiniteSet(0..n) /\ B \subseteq 0..n
    BY FS_Interval
  <2> QED  BY <2>1, FS_Subset
<1>3. \A i \in B : i \in 0..n /\ i \notin T
  OBVIOUS
<1>4. \A i \in 0..n : i \notin T => i \in B
  OBVIOUS
<1> HIDE DEF B
<1>5. Cardinality(B) \in Nat /\ Cardinality(B) # 0
  BY <1>1, <1>2, FS_CardinalityType, FS_EmptySet
<1>6. 0 \in 0..(Cardinality(B) - 1)
  BY <1>5
<1>7. PICK m \in B : Rank(B, m) = 0
  BY <1>1, <1>2, <1>6, RankOnto
<1>8. {y \in B : y < m} = {}
  <2>1. {y \in B : y < m} \subseteq B
    OBVIOUS
  <2>2. IsFiniteSet({y \in B : y < m})
    BY <1>2, <2>1, FS_Subset
  <2> QED  BY <1>7, <2>2, FS_EmptySet DEF Rank
<1>9. m \in 0..n /\ m \notin T
  BY <1>3
<1>10. m # 0 /\ m - 1 \in 0..n /\ m - 1 < m
  BY <1>9
<1>11. m - 1 \in T
  BY <1>4, <1>8, <1>10
<1> QED  BY <1>9, <1>10, <1>11
=============================================================================
