----------------------------- MODULE MCPassword -----------------------------
(* Instances of Password for TLC *)
EXTENDS Password
=============================================================================
