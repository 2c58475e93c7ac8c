---------------------------- MODULE FiniteNumbers ----------------------------
(***************************************************************************)
(* Facts about finite sets of numbers that the proofs keep needing: a set  *)
(* that is not empty has a largest and a smallest element, and the ranks   *)
(* of its elements are 1, 2, ... up to how many they are.                  *)
(***************************************************************************)
EXTENDS Integers, FiniteSets, FiniteSetTheorems, TLAPS

\* The numbers up to some element of U are 1 .. k, with k how many they are.
LEMMA LargestExists ==
  ASSUME NEW n \in Nat, NEW U \in SUBSET (1 .. n), U # {}
  PROVE  \E m \in U : \A u \in U : u <= m
<1> DEFINE T == {j \in 1 .. n : \E u \in U : j <= u}
           k == Cardinality(T)
<1>1. IsFiniteSet(T) /\ k \in Nat
  <2>1. IsFiniteSet(1 .. n)
    BY FS_Interval
  <2>2. T \in SUBSET (1 .. n)
    OBVIOUS
  <2>3. IsFiniteSet(T)
    BY <2>1, <2>2, FS_Subset
  <2> QED
    BY <2>3, FS_CardinalityType
<1>2. \A m \in Nat : IsFiniteSet(1 .. m) /\ Cardinality(1 .. m) = m
  <2> SUFFICES ASSUME NEW m \in Nat
               PROVE  IsFiniteSet(1 .. m) /\ Cardinality(1 .. m) = m
    OBVIOUS
  <2>1. IsFiniteSet(1 .. m)
        /\ Cardinality(1 .. m) = IF 1 > m THEN 0 ELSE m - 1 + 1
    BY FS_Interval
  <2> QED
    BY <2>1
<1>3. \A t \in T : t \in Nat /\ t <= k
  <2> SUFFICES ASSUME NEW t \in T PROVE t \in Nat /\ t <= k
    OBVIOUS
  <2>1. t \in Nat /\ 1 .. t \in SUBSET T
    <3>1. PICK u \in U : t <= u
      OBVIOUS
    <3>2. \A j \in 1 .. t : j \in 1 .. n /\ j <= u
      BY <3>1
    <3> QED
      BY <3>1, <3>2
  <2> HIDE DEF T
  <2>2. Cardinality(1 .. t) <= Cardinality(T)
    BY <1>1, <2>1, FS_Subset
  <2> QED
    BY <1>2, <2>1, <2>2
<1>4. T = 1 .. k
  <2>1. T \in SUBSET (1 .. k)
    BY <1>1, <1>3
  <2> HIDE DEF T
  <2>2. IsFiniteSet(1 .. k) /\ Cardinality(1 .. k) = k
    BY <1>1, <1>2
  <2>3. Cardinality(T) = Cardinality(1 .. k)
    BY <2>2
  <2> QED
    BY <2>1, <2>2, <2>3, FS_Subset
<1>5. U \subseteq T
  OBVIOUS
<1>6. k \in T
  <2>1. PICK u \in U : TRUE
    OBVIOUS
  <2>2. u \in T
    BY <1>5
  <2>3. u \in 1 .. k
    BY <1>4, <2>2
  <2>4. k \in 1 .. k
    BY <1>1, <2>3
  <2> QED
    BY <1>4, <2>4
<1>7. PICK m \in U : k <= m
  BY <1>6
<1>8. \A u \in U : u <= k
  BY <1>3, <1>5
<1>9. m <= k
  BY <1>7, <1>8
<1> QED
  BY <1>1, <1>7, <1>8, <1>9

LEMMA SmallestExists ==
  ASSUME NEW n \in Nat, NEW U \in SUBSET (1 .. n), U # {}
  PROVE  \E m \in U : \A u \in U : m <= u
<1> DEFINE V == {n + 1 - u : u \in U}
<1>1. V \in SUBSET (1 .. n) /\ V # {}
  <2>1. \A u \in U : n + 1 - u \in 1 .. n
    OBVIOUS
  <2> QED
    BY <2>1
<1>2. PICK v \in V : \A x \in V : x <= v
  <2> HIDE DEF V
  <2> QED
    BY <1>1, LargestExists
<1>3. PICK m \in U : v = n + 1 - m
  BY <1>2
<1>4. ASSUME NEW u \in U PROVE m <= u
  <2>1. n + 1 - u <= n + 1 - m
    BY <1>2, <1>3
  <2> QED
    BY <2>1
<1> QED
  BY <1>3, <1>4

-----------------------------------------------------------------------------
(* The elements of a set of numbers in order.                              *)

\* How many elements of S are at most x.
Rank(S, x) == Cardinality({y \in S : y <= x})

LEMMA FiniteRange ==
  ASSUME NEW n \in Nat, NEW S \in SUBSET (1 .. n)
  PROVE  IsFiniteSet(S) /\ Cardinality(S) \in Nat /\ \A x \in S : x \in Nat
<1>1. IsFiniteSet(1 .. n)
  BY FS_Interval
<1>2. IsFiniteSet(S)
  BY <1>1, FS_Subset
<1> QED
  BY <1>2, FS_CardinalityType

LEMMA RankType ==
  ASSUME NEW n \in Nat, NEW S \in SUBSET (1 .. n), NEW x \in S
  PROVE  Rank(S, x) \in 1 .. Cardinality(S)
<1> DEFINE T == {y \in S : y <= x}
<1>1. x \in T /\ T \in SUBSET S
  BY FiniteRange
<1>2. IsFiniteSet(T) /\ Cardinality(T) <= Cardinality(S)
  BY <1>1, FiniteRange, FS_Subset
<1>3. Cardinality(T) \in Nat /\ Cardinality(S) \in Nat
  BY <1>2, FiniteRange, FS_CardinalityType
<1>4. Cardinality(T) # 0
  BY <1>1, <1>2, FS_EmptySet
<1> QED
  BY <1>2, <1>3, <1>4 DEF Rank

LEMMA RankIsInjective ==
  ASSUME NEW n \in Nat, NEW S \in SUBSET (1 .. n), NEW x \in S, NEW y \in S,
         Rank(S, x) = Rank(S, y)
  PROVE  x = y
<1>1. ASSUME NEW a \in S, NEW b \in S, a < b PROVE Rank(S, a) # Rank(S, b)
  <2> DEFINE A == {h \in S : h <= a}  B == {h \in S : h <= b}
  <2>1. a \in Nat /\ b \in Nat /\ \A h \in S : h \in Nat
    BY FiniteRange
  <2>2. A \in SUBSET B
    <3>1. ASSUME NEW h \in S, h <= a PROVE h <= b
      BY <1>1, <2>1, <3>1
    <3> QED
      BY <3>1
  <2>3. b \in B /\ b \notin A
    BY <1>1, <2>1
  <2>4. B \in SUBSET (1 .. n)
    OBVIOUS
  <2>5. IsFiniteSet(B)
    BY <2>4, FiniteRange
  <2> HIDE DEF A, B
  <2>6. Cardinality(A) # Cardinality(B)
    BY <2>2, <2>3, <2>5, FS_Subset
  <2> QED
    BY <2>6 DEF Rank, A, B
<1>2. x \in Nat /\ y \in Nat
  BY FiniteRange
<1>3. x < y \/ y < x \/ x = y
  BY <1>2
<1> QED
  BY <1>1, <1>3

LEMMA RankIsSurjective ==
  ASSUME NEW n \in Nat, NEW S \in SUBSET (1 .. n), NEW i \in 1 .. Cardinality(S)
  PROVE  \E x \in S : Rank(S, x) = i
<1> DEFINE T == 1 .. Cardinality(S)
           M == [x \in S |-> Rank(S, x)]
<1>1. IsFiniteSet(T) /\ Cardinality(T) = Cardinality(S)
  <2>1. Cardinality(S) \in Nat
    BY FiniteRange
  <2>2. /\ IsFiniteSet(T)
        /\ Cardinality(T) = IF 1 > Cardinality(S) THEN 0 ELSE Cardinality(S) - 1 + 1
    BY <2>1, FS_Interval
  <2> QED
    BY <2>1, <2>2
<1>2. M \in [S -> T]
  BY RankType
<1>3. \A x, y \in S : M[x] = M[y] => x = y
  BY RankIsInjective
<1>4. M \in Injection(S, T)
  BY <1>2, <1>3 DEF Injection, IsInjective
<1>5. IsFiniteSet(S)
  BY FiniteRange
<1> HIDE DEF T
<1>6. M \in Surjection(S, T)
  BY <1>1, <1>4, <1>5, FS_Injection
<1>7. \E x \in S : M[x] = i
  BY <1>6 DEF Surjection, T
<1> QED
  BY <1>7

LEMMA RankGrows ==
  ASSUME NEW n \in Nat, NEW S \in SUBSET (1 .. n), NEW x \in S, NEW y \in S, x < y
  PROVE  Rank(S, x) < Rank(S, y)
<1> DEFINE A == {h \in S : h <= x}  B == {h \in S : h <= y}
<1>1. x \in Nat /\ y \in Nat /\ \A h \in S : h \in Nat
  BY FiniteRange
<1>2. A \in SUBSET B
  <2>1. ASSUME NEW h \in S, h <= x PROVE h <= y
    BY <1>1, <2>1
  <2> QED
    BY <2>1
<1>3. B \in SUBSET (1 .. n)
  OBVIOUS
<1>4. IsFiniteSet(B)
  BY <1>3, FiniteRange
<1> HIDE DEF A, B
<1>5. Cardinality(A) <= Cardinality(B)
  BY <1>2, <1>4, FS_Subset
<1>6. Rank(S, x) <= Rank(S, y)
  BY <1>5 DEF Rank, A, B
<1>7. Rank(S, x) \in 1 .. Cardinality(S) /\ Rank(S, y) \in 1 .. Cardinality(S)
  BY RankType
<1>8. Rank(S, x) # Rank(S, y)
  BY <1>1, RankIsInjective
<1>9. Cardinality(S) \in Nat
  BY FiniteRange
<1> QED
  BY <1>6, <1>7, <1>8, <1>9
=============================================================================
