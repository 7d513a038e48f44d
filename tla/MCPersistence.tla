---------------------------- MODULE MCPersistence ----------------------------
(* Instances of Persistence for TLC: a directory d that may hold a file c, and
   images that have the file, that do not, and that have a file at d *)
EXTENDS Persistence

CONSTANTS d, c, full, bare, flat

MCPaths == {d, c}
MCAbove == [p \in MCPaths |-> IF p = c THEN {d} ELSE {}]
MCImages == {full, bare, flat}
MCImageContents == {full, flat}

MCBase ==
  [i \in MCImages |-> [p \in MCPaths |->
     CASE p = d /\ i = flat -> File(i, "image")
       [] p = d /\ i # flat -> Directory
       [] p = c /\ i = full -> File(i, "image")
       [] OTHER             -> Nothing]]
=============================================================================
