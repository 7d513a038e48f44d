SPECIFICATION Spec
CONSTANTS
  Users = {u1}
  Slugs = {s1, s2, s3}
  NoUser = NoUser
  NoSlug = NoSlug
  MaxIntents = 3
  MaxSales = 2
  MaxTroubles = 2
  ServerLimit = 2
  MaxActive = 2
  PaysOnce = TRUE
  AttachRaces = FALSE
CHECK_DEADLOCK FALSE
SYMMETRY MCSymmetry
INVARIANTS SlugsAreExclusive CapacityNotOversold OrdersAreAccountedFor FulfilledOrdersAreKept
