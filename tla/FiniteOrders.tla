----------------------------- MODULE FiniteOrders ------------------------------
(***************************************************************************)
(* What the proofs need of orders on finite sets: the newest record of a     *)
(* ledger, the latest feedback, the waiter with the least PID, and the order *)
(* of a plan are chosen by one. An order is a set of pairs, since a lemma    *)
(* about an operator could not be instantiated.                             *)
(***************************************************************************)
EXTENDS FiniteSetTheorems, TLAPS

Irreflexive(R, S) == \A x \in S : <<x, x>> \notin R

Transitive(R, S) ==
    \A x, y, z \in S : <<x, y>> \in R /\ <<y, z>> \in R => <<x, z>> \in R

Total(R, S) == \A x, y \in S : x # y => <<x, y>> \in R \/ <<y, x>> \in R

\* The elements of S that R has before x.
Below(R, S, x) == {y \in S : <<y, x>> \in R}

\* What is before an element has less before it.
LEMMA BelowIsLess ==
    ASSUME NEW S, NEW R, Irreflexive(R, S), Transitive(R, S),
           NEW x \in S, NEW y \in S, <<y, x>> \in R
    PROVE  Below(R, S, y) \subseteq Below(R, S, x)
           /\ y \in Below(R, S, x) \ Below(R, S, y)
  BY DEF Below, Irreflexive, Transitive

\* A finite set has an element before which there is none.
LEMMA HasMinimal ==
    ASSUME NEW S, IsFiniteSet(S), S # {}, NEW R, Irreflexive(R, S),
           Transitive(R, S)
    PROVE  \E x \in S : \A y \in S : <<y, x>> \notin R
<1> DEFINE T == {Below(R, S, x) : x \in S}
<1>1. T \subseteq FiniteSubsetsOf(S) /\ T # {}
  <2>1. \A x \in S : Below(R, S, x) \in SUBSET S
    BY DEF Below
  <2> QED
    BY <2>1, FS_Subset DEF FiniteSubsetsOf
<1>2. PICK D \in T : \A E \in T : <<E, D>> \notin StrictSubsetOrdering(S)
  <2> HIDE DEF T
  <2> QED
    BY <1>1, FS_StrictSubsetOrderingWellFounded, WFMin
<1>3. PICK x \in S : D = Below(R, S, x)
  BY <1>2
<1>4. ASSUME NEW y \in S, <<y, x>> \in R
      PROVE  FALSE
  <2>1. /\ Below(R, S, y) \subseteq D
        /\ Below(R, S, y) # D
    BY <1>3, <1>4, BelowIsLess
  <2>2. Below(R, S, y) \in SUBSET S /\ D \in SUBSET S
    BY <1>3 DEF Below
  <2>3. <<Below(R, S, y), D>> \in StrictSubsetOrdering(S)
    BY <2>1, <2>2 DEF StrictSubsetOrdering
  <2> QED
    BY <1>2, <2>3
<1> QED
  BY <1>4

LEMMA HasLeast ==
    ASSUME NEW S, S \subseteq Int, IsFiniteSet(S), S # {}
    PROVE  \E i \in S : \A j \in S : i <= j
<1> DEFINE R == {p \in S \X S : p[1] < p[2]}
<1>1. \A i, j \in S : <<i, j>> \in R <=> i < j
  OBVIOUS
<1> HIDE DEF R
<1>2. Irreflexive(R, S) /\ Transitive(R, S)
  BY <1>1 DEF Irreflexive, Transitive
<1>3. PICK i \in S : \A j \in S : <<j, i>> \notin R
  BY <1>2, HasMinimal
<1>4. \A j \in S : ~(j < i) /\ i \in Int /\ j \in Int
  BY <1>1, <1>3
<1> QED
  BY <1>4

LEMMA HasGreatest ==
    ASSUME NEW S, S \subseteq Int, IsFiniteSet(S), S # {}
    PROVE  \E i \in S : \A j \in S : j <= i
<1> DEFINE R == {p \in S \X S : p[1] > p[2]}
<1>1. \A i, j \in S : <<i, j>> \in R <=> i > j
  OBVIOUS
<1> HIDE DEF R
<1>2. Irreflexive(R, S) /\ Transitive(R, S)
  BY <1>1 DEF Irreflexive, Transitive
<1>3. PICK i \in S : \A j \in S : <<j, i>> \notin R
  BY <1>2, HasMinimal
<1>4. \A j \in S : ~(j > i) /\ i \in Int /\ j \in Int
  BY <1>1, <1>3
<1> QED
  BY <1>4

LEMMA FiniteImage ==
    ASSUME NEW S, IsFiniteSet(S), NEW f, DOMAIN f = S
    PROVE  /\ IsFiniteSet({f[x] : x \in S})
           /\ Cardinality({f[x] : x \in S}) <= Cardinality(S)
<1> DEFINE T == {f[x] : x \in S}
           g == [x \in S |-> f[x]]
<1>1. g \in Surjection(S, T)
  BY DEF Surjection
<1> HIDE DEF T, g
<1>2. IsFiniteSet(T) /\ Cardinality(T) <= Cardinality(S)
  BY <1>1, FS_Surjection
<1> QED
  BY <1>2 DEF T

LEMMA BelowIsFinite ==
    ASSUME NEW S, IsFiniteSet(S), NEW R, Irreflexive(R, S), NEW x \in S
    PROVE  /\ IsFiniteSet(Below(R, S, x))
           /\ Cardinality(Below(R, S, x)) \in 0..(Cardinality(S) - 1)
<1>0. Cardinality(S) \in Nat
  BY FS_CardinalityType
<1>1. Below(R, S, x) \in SUBSET S /\ x \notin Below(R, S, x)
  BY DEF Below, Irreflexive
<1>2. /\ IsFiniteSet(Below(R, S, x))
      /\ Cardinality(Below(R, S, x)) <= Cardinality(S)
      /\ Cardinality(Below(R, S, x)) # Cardinality(S)
  BY <1>1, FS_Subset
<1>3. Cardinality(Below(R, S, x)) \in Nat
  BY <1>2, FS_CardinalityType
<1> QED
  BY <1>0, <1>2, <1>3

\* What is before an element has a lower rank.
LEMMA LessHasLowerRank ==
    ASSUME NEW S, IsFiniteSet(S), NEW R, Irreflexive(R, S), Transitive(R, S),
           NEW x \in S, NEW y \in S, <<y, x>> \in R
    PROVE  Cardinality(Below(R, S, y)) < Cardinality(Below(R, S, x))
<1>1. /\ Below(R, S, y) \in SUBSET Below(R, S, x)
      /\ Below(R, S, y) # Below(R, S, x)
  BY BelowIsLess
<1>2. IsFiniteSet(Below(R, S, x)) /\ Cardinality(Below(R, S, x)) \in Int
  BY BelowIsFinite
<1>3. /\ Cardinality(Below(R, S, y)) <= Cardinality(Below(R, S, x))
      /\ Cardinality(Below(R, S, y)) # Cardinality(Below(R, S, x))
  BY <1>1, <1>2, FS_Subset
<1>4. Cardinality(Below(R, S, y)) \in Int
  BY BelowIsFinite
<1> QED
  BY <1>2, <1>3, <1>4

\* The ranks of the elements in a total order are the numbers from 1 on.
LEMMA RanksAreConsecutive ==
    ASSUME NEW S, IsFiniteSet(S), NEW R, Irreflexive(R, S), Transitive(R, S),
           Total(R, S)
    PROVE  {1 + Cardinality(Below(R, S, x)) : x \in S} = 1..Cardinality(S)
<1> DEFINE n == Cardinality(S)
           rank == [x \in S |-> 1 + Cardinality(Below(R, S, x))]
<1>0. n \in Nat
  BY FS_CardinalityType
<1>1. \A x \in S : Cardinality(Below(R, S, x)) \in 0..(n - 1)
  BY BelowIsFinite
<1>2. \A x, y \in S : <<y, x>> \in R =>
        Cardinality(Below(R, S, y)) < Cardinality(Below(R, S, x))
  BY LessHasLowerRank
<1>3. rank \in [S -> 1..n]
  BY <1>0, <1>1
<1>4. rank \in Injection(S, 1..n)
  <2>1. ASSUME NEW x \in S, NEW y \in S, rank[x] = rank[y]
        PROVE  x = y
    <3>1. Cardinality(Below(R, S, x)) = Cardinality(Below(R, S, y))
      BY <1>1, <2>1
    <3>2. ~(<<x, y>> \in R) /\ ~(<<y, x>> \in R)
      <4>1. Cardinality(Below(R, S, x)) \in Int
        BY <1>1
      <4> QED
        BY <1>2, <3>1, <4>1
    <3> QED
      BY <3>2 DEF Total
  <2> QED
    BY <1>3, <2>1 DEF Injection, IsInjective
<1>5. IsFiniteSet(1..n) /\ Cardinality(1..n) = n
  BY <1>0, FS_Interval
<1>6. rank \in Surjection(S, 1..n)
  <2> HIDE DEF rank
  <2> QED
    BY <1>4, <1>5, FS_Injection
<1>7. \A k \in 1..n : \E x \in S : rank[x] = k
  BY <1>6 DEF Surjection
<1> QED
  BY <1>3, <1>7

================================================================================
