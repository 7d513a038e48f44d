----------------------------- MODULE MCCheckout -----------------------------
(* Instances of Checkout for TLC *)
EXTENDS Checkout, TLC

MCSymmetry == Permutations(Slugs) \cup Permutations(Users)
=============================================================================
