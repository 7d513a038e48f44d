-------------------------- MODULE MCInstanceAccess --------------------------
(* Instances of InstanceAccess for TLC *)
EXTENDS InstanceAccess, TLC

MCSymmetry ==
  Permutations(Commands) \cup Permutations(Requests) \cup Permutations(Keys)
    \cup Permutations(Tokens)
=============================================================================
