-------------------------- MODULE MCSharedTerminal --------------------------
(* Instances of SharedTerminal for TLC *)
EXTENDS SharedTerminal

MCNone == {}
MCFresh == {"joins_fresh"}
MCEarly == {"leaves_early"}
MCCross == {"crosses_a_leave"}
=============================================================================
