\* A repair resumed after the rebuild heals the empty host in place.
SPECIFICATION RepairSpec
CONSTANTS
  Volumes = {v1, v2}
  NoVolume = NoVolume
  MaxWrites = 1
  Faults <- MCHealed
\* A deleted box has nothing left to do.
CHECK_DEADLOCK FALSE
INVARIANTS RunningBoxHasItsFiles
