\* One box, two operations, every interleaving of their workflows, callbacks,
\* sweeps and cancellations; and that the sweep frees the box in the end.
SPECIFICATION FairSpec
CONSTANTS
  Boxes = {b1}
  Ops = {o1, o2}
  OpTypes <- MCTypes
  NoBox = NoBox
  ComponentCallsFail = FALSE
\* Every operation may be over and the box deleted.
CHECK_DEADLOCK FALSE
INVARIANTS WorkflowHoldsLock
PROPERTIES ImplementsLock FinishedWorkflowFreesBox
