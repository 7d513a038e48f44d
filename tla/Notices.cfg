CONSTANTS
  MaxUsers = 2
  Streams <- MCStreams
  None = None
  PageSize = 1
  RetryBatch = 1
  MaxCalls = 2
  MaxTroubles = 1
  MaxPurges = 1
SPECIFICATION FairSpec
INVARIANTS
  ReachesThoseOwed
  EvidenceAgrees
  FailuresAreReported
PROPERTIES
  NoticeFinishes
  AlertsLeave
CHECK_DEADLOCK FALSE
