---------------------------- MODULE MinMaxLemmas ----------------------------
(***************************************************************************)
(* The least and the largest number of a set, as FiniteSetsExt defines     *)
(* them.  Least counterexamples replace inductions in the proofs that use  *)
(* these lemmas.                                                           *)
(***************************************************************************)
EXTENDS Integers, FiniteSetsExt, WellFoundedInduction, TLAPS

LEMMA MinIn ==
  ASSUME NEW S \in SUBSET Nat, S # {}
  PROVE  Min(S) \in S /\ \A y \in S : Min(S) <= y
<1>1. PICK x \in S : \A y \in S : <<y, x>> \notin OpToRel(<, Nat)
  BY NatLessThanWellFounded, WFMin
<1>2. \A y \in S : ~(y < x)
  BY <1>1 DEF OpToRel
<1>3. \A y \in S : x <= y
  BY <1>2
<1>4. QED
  BY <1>3 DEF Min

LEMMA MaxIn ==
  ASSUME NEW S \in SUBSET Nat, S # {}, NEW n \in Nat, \A x \in S : x <= n
  PROVE  Max(S) \in S /\ \A y \in S : y <= Max(S)
<1>. DEFINE T == {n - x : x \in S}
<1>1. \A x \in S : n - x \in Nat
  OBVIOUS
<1>2. PICK x0 \in S : TRUE
  OBVIOUS
<1>3. n - x0 \in T
  OBVIOUS
<1>4. T \in SUBSET Nat /\ T # {}
  BY <1>1, <1>3
<1>5. Min(T) \in T /\ \A u \in T : Min(T) <= u
  BY <1>4, MinIn
<1>6. PICK x \in S : Min(T) = n - x
  BY <1>5
<1>7. \A y \in S : n - y \in T
  OBVIOUS
<1>8. \A y \in S : n - x <= n - y
  BY <1>5, <1>6, <1>7
<1>9. \A y \in S : x >= y
  BY <1>8
<1>10. QED
  BY <1>9 DEF Max
=============================================================================
