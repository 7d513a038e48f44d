\* Two submissions over two grants of one code, calls that get lost, restarts
\* and other operations between.
SPECIFICATION PasswordFairSpec
CONSTANTS
  Hashes = {a, b}
  NoHash = NoHash
  Codes = {k}
  Grants = {g1, g2}
  NoGrant = NoGrant
  MaxAttempts = 2
  MaxTroubles = 1
CHECK_DEADLOCK FALSE
INVARIANTS RowKeepsLast HeldIsOnItsWay
PROPERTIES LastPasswordSettles
