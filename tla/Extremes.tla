------------------------------ MODULE Extremes ------------------------------
(***************************************************************************)
(* Sets of numbers have a least element, and a greatest one if they have   *)
(* a bound.  The proofs about the models that choose such an element rest  *)
(* on these two facts.                                                     *)
(***************************************************************************)
EXTENDS Naturals, FiniteSetsExt, WellFoundedInduction, TLAPS

\* The least-number principle for sets: the order of the numbers is well founded.
LEMMA LeastExists ==
    ASSUME NEW S \in SUBSET Nat, S # {}
    PROVE  \E x \in S : \A y \in S : x =< y
<1> DEFINE R == OpToRel(<, Nat)
<1>1. IsWellFoundedOn(R, Nat)
  BY NatLessThanWellFounded
<1>2. R = {p \in Nat \X Nat : p[1] < p[2]}
  BY DEF OpToRel
<1> HIDE DEF R
<1>3. PICK x \in S : \A y \in S : ~ (<<y, x>> \in R)
  BY <1>1, WFMin
<1>4. \A y \in S : <<y, x>> \in Nat \X Nat /\ <<y, x>>[1] = y /\ <<y, x>>[2] = x
  OBVIOUS
<1>5. \A y \in S : y < x => <<y, x>> \in R
  BY <1>2, <1>4
<1>6. \A y \in S : ~ (y < x)
  BY <1>3, <1>5
<1>7. \A y \in S : y \in Nat
  OBVIOUS
<1> QED BY <1>6, <1>7

\* A set of numbers that has a bound has a greatest element.
LEMMA GreatestExists ==
    ASSUME NEW n \in Nat, NEW S \in SUBSET (0..n), S # {}
    PROVE  Max(S) \in S /\ \A y \in S : y =< Max(S)
<1> DEFINE T == {n - y : y \in S}
<1>1. \A y \in S : y \in 0..n /\ n - y \in Nat
  OBVIOUS
<1>2. T \in SUBSET Nat /\ T # {}
  BY <1>1
<1>3. \A y \in S : n - y \in T
  OBVIOUS
<1>4. \A u \in T : \E y \in S : u = n - y
  OBVIOUS
<1> HIDE DEF T
<1>5. PICK t \in T : \A u \in T : t =< u
  BY <1>2, LeastExists
<1>6. PICK x \in S : t = n - x
  BY <1>4
<1>7. \A y \in S : n - x =< n - y
  BY <1>3, <1>5, <1>6
<1>8. \A y \in S : x >= y /\ y \in Nat
  BY <1>1, <1>7
<1> QED BY <1>8 DEF Max
=============================================================================
