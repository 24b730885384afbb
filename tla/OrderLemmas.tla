----------------------------- MODULE OrderLemmas -----------------------------
(***************************************************************************)
(* Least and greatest elements: what the CHOOSE of a minimum returns.      *)
(***************************************************************************)
EXTENDS Integers, TLAPS, WellFoundedInduction

Less == {ss \in Nat \X Nat : ss[1] < ss[2]}

\* Every nonempty set of natural numbers has a least element.
LEMMA LeastNatural ==
  ASSUME NEW S \in SUBSET Nat, S # {}
  PROVE  \E m \in S : \A k \in S : m <= k
<1>1. Less = OpToRel(<, Nat)
  BY Zenon DEF Less, OpToRel
<1>2. \E m \in S : \A k \in S : ~(<<k, m>> \in Less)
  BY <1>1, NatLessThanWellFounded, WFMin
<1>3. \A k, m \in Nat : k < m => <<k, m>> \in Less
  BY DEF Less
<1>4. PICK m \in S : \A k \in S : ~(<<k, m>> \in Less)
  BY <1>2
<1>5. ASSUME NEW k \in S PROVE m <= k
  <2>1. k \in Nat /\ m \in Nat
    OBVIOUS
  <2>2. k < m => <<k, m>> \in Less
    BY <1>3, <2>1
  <2>3. ~(<<k, m>> \in Less)
    BY <1>4
  <2>4. QED
    BY <2>1, <2>2, <2>3
<1>6. QED
  BY <1>5

=============================================================================
