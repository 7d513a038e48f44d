SPECIFICATION FairSpec
CONSTANTS
  Arrivals = 2
  Streams = {s}
  NoClient = NoClient
  High = 1
  Low = 1
  MaxOutput = 2
  MaxTroubles = 1
  Faults <- MCNone
CHECK_DEADLOCK FALSE
INVARIANTS StartedWindowsStream HeldWhileAttached
PROPERTIES NothingIsMissed StartsEnd OutputFlows
