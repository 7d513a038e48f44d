--------------------------- MODULE MCBoxSnapshots ---------------------------
(* Instances of BoxSnapshots for TLC *)
EXTENDS BoxSnapshots

(* To this module a reset is an update that is never skipped. *)
MCOperations == {"update", "restore"}
=============================================================================
