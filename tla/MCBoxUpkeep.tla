---------------------------- MODULE MCBoxUpkeep -----------------------------
(***************************************************************************)
(* Instances of BoxUpkeep for TLC.                                         *)
(***************************************************************************)
EXTENDS BoxUpkeep

MCImages == {"old", "new", "bad"}
MCBroken == {"bad"}
=============================================================================
