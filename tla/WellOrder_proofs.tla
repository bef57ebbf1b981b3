-------------------------- MODULE WellOrder_proofs --------------------------
(***************************************************************************)
(* Sets of natural numbers have a least element, and those with a bound a  *)
(* greatest one.  This is how the other proofs do induction: the library's *)
(* induction theorems take an operator, which the provers cannot supply,   *)
(* but a set of numbers that lack a property has a least one.              *)
(***************************************************************************)
EXTENDS Integers, FiniteSets, WellFoundedInduction, FiniteSetTheorems, TLAPS

\* From the strict order of the finite sets: take the number with the fewest below it.
LEMMA LeastNat ==
  ASSUME NEW S, S \subseteq Nat, S # {}
  PROVE  \E m \in S : \A i \in S : m <= i
<1> DEFINE Below(n) == {i \in S : i < n}
           R == StrictSubsetOrdering(Nat)
           F == {Below(n) : n \in S}
<1>1. \A n \in S : n \in Nat
  OBVIOUS
<1>2. \A n \in S : Below(n) \in FiniteSubsetsOf(Nat)
  <2> SUFFICES ASSUME NEW n \in S PROVE Below(n) \in SUBSET Nat /\ IsFiniteSet(Below(n))
    BY DEF FiniteSubsetsOf
  <2>1. n \in Nat /\ Below(n) \in SUBSET Nat
    OBVIOUS
  <2>2. \A s \in Below(n) : s <= n
    BY <1>1
  <2> HIDE DEF Below
  <2> QED BY <2>1, <2>2, FS_BoundedSetOfNaturals
<1>3. IsWellFoundedOn(R, FiniteSubsetsOf(Nat))
  BY FS_StrictSubsetOrderingWellFounded
<1>4. \E x \in F : \A y \in F : ~ (<<y, x>> \in R)
  <2>1. F \subseteq FiniteSubsetsOf(Nat) /\ F # {}
    BY <1>2
  <2> HIDE DEF F, R
  <2> QED BY <1>3, <2>1, WFMin
<1>5. PICK m \in S : \A n \in S : ~ (<<Below(n), Below(m)>> \in R)
  BY <1>4
<1>6. ASSUME NEW n \in S, n < m PROVE FALSE
  <2>1. n \in Nat /\ m \in Nat /\ ~(n < n) /\ \A i \in S : i < n => i < m
    BY <1>1, <1>6
  <2>2. Below(n) \subseteq Below(m) /\ n \in Below(m) /\ n \notin Below(n)
    BY <1>6, <2>1
  <2>3. Below(n) \in SUBSET Nat /\ Below(m) \in SUBSET Nat
    OBVIOUS
  <2> HIDE DEF Below
  <2>4. <<Below(n), Below(m)>> \in R
    BY <2>2, <2>3 DEF StrictSubsetOrdering
  <2> QED BY <1>5, <2>4
<1> QED BY <1>1, <1>6

\* A set of numbers that start at a and end at b has a least element ...
LEMMA LeastInRange ==
  ASSUME NEW a \in Int, NEW b \in Int, NEW S, S \subseteq a .. b, S # {}
  PROVE  \E m \in S : \A i \in S : m <= i
<1> DEFINE T == {i - a : i \in S}
<1>1. T \subseteq Nat /\ T # {} /\ \A i \in S : i \in Int
  OBVIOUS
<1>2. PICK t \in T : \A i \in T : t <= i
  <2> HIDE DEF T
  <2> QED BY <1>1, LeastNat
<1>3. PICK m \in S : t = m - a
  OBVIOUS
<1>4. \A i \in S : m - a <= i - a
  BY <1>2, <1>3
<1> QED BY <1>1, <1>4

\* ... and a greatest one.
LEMMA GreatestInRange ==
  ASSUME NEW a \in Int, NEW b \in Int, NEW S, S \subseteq a .. b, S # {}
  PROVE  \E m \in S : \A i \in S : i <= m
<1> DEFINE T == {b - i : i \in S}
<1>1. T \subseteq Nat /\ T # {} /\ \A i \in S : i \in Int
  OBVIOUS
<1>2. PICK t \in T : \A i \in T : t <= i
  <2> HIDE DEF T
  <2> QED BY <1>1, LeastNat
<1>3. PICK m \in S : t = b - m
  OBVIOUS
<1>4. \A i \in S : b - m <= b - i
  BY <1>2, <1>3
<1> QED BY <1>1, <1>4
=============================================================================
