------------------------------- MODULE MCBilling -------------------------------
(* Instances of Billing for TLC.                                           *)
EXTENDS Billing, TLC

CONSTANTS o1, o2, g1, g2, h1, h2, q1

Symmetry == Permutations(Handler) \cup Permutations(Game) \cup Permutations(Order)
=============================================================================
