----------------------------- MODULE MCBoxRepair -----------------------------
(* Instances of BoxRepair for TLC *)
EXTENDS BoxRepair

MCNone == {}
MCHealed == {"healed in place"}
=============================================================================
