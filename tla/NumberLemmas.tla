---------------------------- MODULE NumberLemmas ----------------------------
(***************************************************************************)
(* Facts about sets of numbers.  The first one takes the place of induction: *)
(* the least number for which something fails is not 0, and the number       *)
(* before it is one for which it holds.                                      *)
(***************************************************************************)
EXTENDS FiniteSetsExt, FiniteSetTheorems, NaturalsInduction, WellFoundedInduction, TLAPS

\* A set of numbers has a least one.
LEMMA LeastNumber ==
    ASSUME NEW T, T \subseteq Nat, T # {}
    PROVE  \E x \in T : \A y \in T : x <= y
<1> DEFINE R == OpToRel(<, Nat)
<1>1. \E x \in T : \A y \in T : ~ (<<y, x>> \in R)
  BY Zenon, WFMin, NatLessThanWellFounded
<1>2. \A x \in Nat, y \in Nat : y < x => <<y, x>> \in R
  BY Zenon DEF OpToRel
<1> HIDE DEF R
<1>3. \A x \in T, y \in T : ~ (<<y, x>> \in R) => x <= y
  BY <1>2
<1> QED
  BY <1>1, <1>3

Higher(S, x) == {y \in S : y > x}

\* Fewer numbers are above a larger one.
LEMMA HigherShrinks ==
    ASSUME NEW S, S \subseteq Nat, IsFiniteSet(S), NEW x \in S, NEW y \in S, y > x
    PROVE  Cardinality(Higher(S, y)) < Cardinality(Higher(S, x))
<1>1. IsFiniteSet(Higher(S, x)) /\ y \in Higher(S, x)
  BY FS_Subset DEF Higher
<1>2. Higher(S, y) \subseteq Higher(S, x) \ {y}
  <2>1. \A z \in S : z > y => z > x /\ z # y
    <3>1. x \in Nat /\ y \in Nat /\ \A z \in S : z \in Nat
      OBVIOUS
    <3> QED
      BY <3>1
  <2> QED
    BY <2>1 DEF Higher
<1>3. /\ IsFiniteSet(Higher(S, x) \ {y})
      /\ Cardinality(Higher(S, x) \ {y}) = Cardinality(Higher(S, x)) - 1
  BY <1>1, FS_RemoveElement
<1>4. Cardinality(Higher(S, y)) <= Cardinality(Higher(S, x) \ {y})
  BY <1>2, <1>3, FS_Subset
<1>5. Cardinality(Higher(S, x)) \in Nat /\ Cardinality(Higher(S, y)) \in Nat
  BY <1>1, <1>2, <1>3, FS_Subset, FS_CardinalityType
<1> QED
  BY <1>3, <1>4, <1>5

\* A finite set of numbers has a largest one.
LEMMA MaxIsLargest ==
    ASSUME NEW S, S \subseteq Nat, IsFiniteSet(S), S # {}
    PROVE  Max(S) \in S /\ \A y \in S : y <= Max(S)
<1> DEFINE T == {Cardinality(Higher(S, x)) : x \in S}
<1>1. \A x \in S : Cardinality(Higher(S, x)) \in Nat
  BY FS_Subset, FS_CardinalityType DEF Higher
<1>2. T \subseteq Nat /\ T # {}
  BY <1>1
<1>3. PICK x \in S : \A y \in S : Cardinality(Higher(S, x)) <= Cardinality(Higher(S, y))
  <2>1. PICK t \in T : \A u \in T : t <= u
    BY <1>2, LeastNumber
  <2> QED
    BY <2>1
<1>4. \A y \in S : y <= x
  <2> SUFFICES ASSUME NEW y \in S, y > x PROVE FALSE
    <3>1. \A y \in S : y \in Nat
      OBVIOUS
    <3> QED
      BY <3>1
  <2>1. Cardinality(Higher(S, y)) < Cardinality(Higher(S, x))
    BY HigherShrinks
  <2> QED
    BY <2>1, <1>1, <1>3
<1> QED
  BY <1>3, <1>4 DEF Max

=============================================================================
