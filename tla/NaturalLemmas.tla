---------------------------- MODULE NaturalLemmas ----------------------------
(***************************************************************************)
(* Least and greatest elements of sets of natural numbers, as the proofs   *)
(* about loops and chains need them.                                       *)
(***************************************************************************)
EXTENDS Integers, FiniteSetsExt, TLAPS, WellFoundedInduction

\* A nonempty set of naturals has a least element.
LEMMA LeastNat ==
  ASSUME NEW T, T \subseteq Nat, T # {}
  PROVE  \E x \in T : \A y \in T : x <= y
<1>1. \E x \in T : \A y \in T : ~ (<<y, x>> \in OpToRel(<, Nat))
  BY NatLessThanWellFounded, WFMin
<1>2. \A x, y \in Nat : y < x => <<y, x>> \in OpToRel(<, Nat)
  BY DEF OpToRel
<1>3. \A x, y \in Nat : ~(y < x) => x <= y
  OBVIOUS
<1> QED BY <1>1, <1>2, <1>3

\* That element is what Min returns.
LEMMA MinIsLeast ==
  ASSUME NEW T, T \subseteq Nat, T # {}
  PROVE  Min(T) \in T /\ \A y \in T : Min(T) <= y
  BY LeastNat DEF Min

\* A nonempty set of naturals with a bound has a greatest element.
LEMMA GreatestNat ==
  ASSUME NEW T, NEW m \in Nat, T \subseteq 0..m, T # {}
  PROVE  \E x \in T : \A y \in T : y <= x
<1> DEFINE below == {m - y : y \in T}
<1>1. below \subseteq Nat /\ below # {}
  <2>1. \A y \in T : m - y \in Nat
    <3> SUFFICES ASSUME NEW y \in T PROVE m - y \in Nat
      OBVIOUS
    <3>1. y \in Nat /\ y <= m
      OBVIOUS
    <3> QED BY <3>1
  <2>2. PICK y \in T : TRUE
    OBVIOUS
  <2>3. m - y \in below
    OBVIOUS
  <2> QED BY <2>1, <2>3
<1>2. PICK d \in below : \A e \in below : d <= e
  <2> HIDE DEF below
  <2> QED BY <1>1, LeastNat
<1>3. PICK x \in T : d = m - x
  OBVIOUS
<1>4. \A y \in T : m - x <= m - y
  BY <1>2, <1>3
<1>5. \A y \in T : y <= x
  BY <1>4
<1> QED BY <1>5

\* An element that none exceeds is what Max returns.
LEMMA MaxIsGreatest ==
  ASSUME NEW T, T \subseteq Nat, NEW m \in T, \A y \in T : y <= m
  PROVE  Max(T) = m
<1>1. Max(T) \in T /\ \A y \in T : Max(T) >= y
  <2>1. \A y \in T : m >= y
    OBVIOUS
  <2> QED BY <2>1 DEF Max
<1>2. Max(T) \in Nat /\ m \in Nat /\ Max(T) <= m /\ Max(T) >= m
  BY <1>1
<1> QED BY <1>2

=============================================================================
