---------------------------- MODULE OrderLemmas ----------------------------
(***************************************************************************)
(* The least and the greatest of a set of numbers, for the names of a page *)
(* in Listing and the positions of the slashes of a path in Names.         *)
(***************************************************************************)
EXTENDS FiniteSetTheorems, TLAPS

(* A nonempty set of numbers has a least one.                              *)
LEMMA LeastExists ==
    ASSUME NEW S \in SUBSET Nat, S # {}
    PROVE  \E n \in S : \A m \in S : n <= m
  <1> DEFINE R == {pair \in Nat \X Nat : pair[1] < pair[2]}
  <1>1. IsWellFoundedOn(R, Nat)
    BY NatLessThanWellFounded DEF OpToRel
  <1>2. \A m, n \in Nat : m < n => <<m, n>> \in R
    OBVIOUS
  <1> HIDE DEF R
  <1>3. PICK n \in S : \A m \in S : <<m, n>> \notin R
    BY <1>1, WFMin
  <1>4. \A m \in S : ~(m < n)
    BY <1>2, <1>3
  <1>5. QED
    BY <1>4

(* A nonempty set of numbers with a bound has a greatest one.              *)
LEMMA GreatestExists ==
    ASSUME NEW S \in SUBSET Nat, S # {}, NEW b \in Nat, \A n \in S : n <= b
    PROVE  \E n \in S : \A m \in S : m <= n
  <1> DEFINE T == {b - n : n \in S}
  <1>1. T \in SUBSET Nat
    OBVIOUS
  <1>2. T # {}
    OBVIOUS
  <1>3. PICK t \in T : \A u \in T : t <= u
    BY <1>1, <1>2, LeastExists
  <1>4. PICK n \in S : t = b - n
    BY <1>3
  <1>5. \A m \in S : b - n <= b - m
    BY <1>3, <1>4
  <1>6. QED
    BY <1>5
=============================================================================
