--------------------------- MODULE MCBoxOperation ---------------------------
(***************************************************************************)
(* The instance of BoxOperation for TLC.                                   *)
(***************************************************************************)
EXTENDS BoxOperation, TLC

(* A type that opens the box, moves its status and is closed by its own last
   mutation; one that writes no status and is closed by settle; and one with
   work left when it is closed.  Every type of the catalogue is in the
   theorems. *)
MCTypes == {"create", "snapshot", "update"}
=============================================================================
