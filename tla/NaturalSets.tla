---------------------------- MODULE NaturalSets ----------------------------
(***************************************************************************)
(* Least and greatest elements of sets of natural numbers.  Inductions of  *)
(* the project are arguments about a least counterexample (LeastNat).      *)
(***************************************************************************)
EXTENDS Naturals, FiniteSetsExt, FiniteSetTheorems, WellFoundedInduction, TLAPS

\* Every non-empty set of natural numbers has a least element.
LEMMA LeastNat ==
    ASSUME NEW T, T \subseteq Nat, T # {}
    PROVE  \E x \in T : \A y \in T : x <= y
<1>1. PICK x \in T : \A y \in T : ~ (<<y, x>> \in OpToRel(<, Nat))
  BY WFMin, NatLessThanWellFounded
<1>2. \A y \in T : ~ (y < x)
  BY <1>1 DEF OpToRel
<1>3. x \in Nat /\ \A y \in T : y \in Nat
  OBVIOUS
<1>4. \A y \in T : x <= y
  <2> HIDE <1>1
  <2> QED BY <1>2, <1>3
<1> QED BY <1>4

\* The minimum of a non-empty set of natural numbers is its least element.
LEMMA MinNat ==
    ASSUME NEW T, T \subseteq Nat, T # {}
    PROVE  Min(T) \in T /\ \A y \in T : Min(T) <= y
BY LeastNat DEF Min

\* A finite set of natural numbers is bounded: a least cardinality of an
\* unbounded one would not be 0, and removing an element would leave a smaller.
LEMMA FiniteNatBounded ==
    ASSUME NEW T, T \subseteq Nat, IsFiniteSet(T)
    PROVE  \E b \in Nat : \A y \in T : y <= b
<1> DEFINE Bounded(S) == \E b \in Nat : \A y \in S : y <= b
           Bad == {k \in Nat : \E S \in SUBSET Nat :
                       IsFiniteSet(S) /\ Cardinality(S) = k /\ ~ Bounded(S)}
<1>1. SUFFICES ASSUME ~ Bounded(T) PROVE FALSE
  OBVIOUS
<1>2. Cardinality(T) \in Bad
  BY <1>1, FS_CardinalityType
<1>3. PICK k \in Bad : \A j \in Bad : k <= j
  <2>1. Bad \subseteq Nat
    OBVIOUS
  <2> HIDE DEF Bad
  <2> QED BY <1>2, <2>1, LeastNat
<1>4. PICK S \in SUBSET Nat : IsFiniteSet(S) /\ Cardinality(S) = k /\ ~ Bounded(S)
  BY <1>3
<1>5. PICK x : x \in S
  BY <1>4
<1>6. /\ IsFiniteSet(S \ {x})
      /\ Cardinality(S \ {x}) = k - 1
      /\ k \in Nat /\ Cardinality(S \ {x}) \in Nat
  BY <1>3, <1>4, <1>5, FS_RemoveElement, FS_CardinalityType
<1>7. Bounded(S \ {x})
  <2>1. k - 1 \notin Bad
    BY <1>3, <1>6
  <2> QED BY <1>4, <1>6, <2>1
<1>8. PICK b \in Nat : \A y \in S \ {x} : y <= b
  BY <1>7
<1>9. \A y \in S : y <= b + x
  BY <1>4, <1>5, <1>8
<1>10. b + x \in Nat
  BY <1>4, <1>5
<1> QED BY <1>4, <1>9, <1>10

\* The maximum of a finite non-empty set of natural numbers is in the set.
LEMMA MaxNat ==
    ASSUME NEW T, T \subseteq Nat, IsFiniteSet(T), T # {}
    PROVE  Max(T) \in T /\ \A y \in T : y <= Max(T)
<1>1. PICK b \in Nat : \A y \in T : y <= b
  BY FiniteNatBounded
<1> DEFINE Gap == {b - y : y \in T}
<1>2. Gap \subseteq Nat /\ Gap # {}
  BY <1>1
<1>3. PICK g \in Gap : \A h \in Gap : g <= h
  <2> HIDE DEF Gap
  <2> QED BY <1>2, LeastNat
<1>4. PICK x \in T : g = b - x
  BY <1>3
<1>5. \A y \in T : x >= y
  <2> TAKE y \in T
  <2>1. b - x <= b - y
    BY <1>3, <1>4
  <2>2. x \in Nat /\ y \in Nat
    OBVIOUS
  <2> QED BY <2>1, <2>2
<1>6. \E z \in T : \A y \in T : z >= y
  BY <1>5
<1>7. Max(T) \in T /\ \A y \in T : Max(T) >= y
  BY <1>6 DEF Max
<1>8. Max(T) \in Nat /\ \A y \in T : y \in Nat
  BY <1>7
<1> QED BY <1>7, <1>8

\* A set of positive numbers that holds every lower one with each of its elements
\* is the interval up to its cardinality.
LEMMA PrefixSet ==
    ASSUME NEW n \in Nat, NEW T, T \subseteq 1 .. n,
           \A i \in T : \A j \in 1 .. i : j \in T
    PROVE  /\ Cardinality(T) \in 0 .. n
           /\ T = 1 .. Cardinality(T)
<1>1. CASE T = {}
  <2>1. Cardinality(T) = 0 /\ 1 .. 0 = {}
    BY <1>1, FS_EmptySet
  <2> QED BY <1>1, <2>1
<1>2. CASE T # {}
  <2>1. T \in SUBSET Nat /\ \A i \in T : i <= n
    OBVIOUS
  <2>2. IsFiniteSet(T)
    BY <2>1, FS_BoundedSetOfNaturals
  <2>3. Max(T) \in T /\ \A y \in T : y <= Max(T)
    BY <1>2, <2>1, <2>2, MaxNat
  <2> DEFINE m == Max(T)
  <2>4. m \in 1 .. n /\ m \in Nat
    <3>1. m \in 1 .. n
      BY <2>3, Zenon
    <3> QED BY <3>1
  <2>5. T = 1 .. m
    <3>1. 1 .. m \subseteq T
      BY <2>3
    <3>2. \A y \in T : y \in 1 .. n /\ y <= m
      BY <2>3
    <3>3. T \subseteq 1 .. m
      <4> HIDE DEF m
      <4> QED BY <2>4, <3>2
    <3> QED BY <3>1, <3>3
  <2>6. Cardinality(1 .. m) = m
    <3> HIDE DEF m
    <3>1. 1 \in Int /\ m \in Int /\ ~ (1 > m) /\ m - 1 + 1 = m
      BY <2>4
    <3> QED BY <3>1, FS_Interval
  <2> HIDE DEF m
  <2> QED BY <2>4, <2>5, <2>6
<1> QED BY <1>1, <1>2

=============================================================================
