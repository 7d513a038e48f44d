\* Every failure of every step, in a world without the two faults.
SPECIFICATION RepairFairSpec
CONSTANTS
  Volumes = {v1, v2}
  NoVolume = NoVolume
  MaxWrites = 2
  Faults <- MCNone
\* A deleted box has nothing left to do.
CHECK_DEADLOCK FALSE
INVARIANTS FilesKept
PROPERTIES OrphansAreReclaimed
