SPECIFICATION Spec
CONSTANTS
  Commands = {c1, c2}
  Requests = {r1, r2}
  Keys = {k1, k2}
  Tokens = {t1, t2}
  MaxMade = 2
  MaxSerial = 2
  MaxBox = 2
  MaxStops = 2
  Faults = {}
CHECK_DEADLOCK FALSE
SYMMETRY MCSymmetry
INVARIANTS KeysFollowCommands RevocationReaches CopyHoldsNothing
