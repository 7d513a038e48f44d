\* Every order of captures, deletions and expiries of two snapshots.
SPECIFICATION FairSpec
CONSTANTS
  MaxRows = 2
  PlanCap = 1
  Operations <- MCOperations
  SupersedeIsLate = FALSE
\* A deleted box without snapshots has nothing left to do.
CHECK_DEADLOCK FALSE
INVARIANTS CompleteRowsAreRestorable PromisedCopiesExist
PROPERTIES CapturesFitTheSplit LeftoversAreReclaimed
