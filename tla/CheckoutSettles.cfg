SPECIFICATION FairSpec
CONSTANTS
  Users = {u1}
  Slugs = {s1, s2}
  NoUser = NoUser
  NoSlug = NoSlug
  MaxIntents = 2
  MaxSales = 1
  MaxTroubles = 4
  ServerLimit = 2
  MaxActive = 1
  PaysOnce = TRUE
  AttachRaces = FALSE
CHECK_DEADLOCK FALSE
PROPERTIES PaidOrdersSettle BoxesFollowTheirSubscription AccountDeletionsFinish
