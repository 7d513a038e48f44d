\* Every order of two changes, the writer's calls, lost notices, restarts,
\* new images and failures.
SPECIFICATION FairSpec
CONSTANTS
  d = d
  c = c
  full = full
  bare = bare
  flat = flat
  Paths <- MCPaths
  Above <- MCAbove
  Contents = {x}
  ImageContents <- MCImageContents
  Images <- MCImages
  Base <- MCBase
  NoContent = NoContent
  QueueBound = 2
  MaxEdits = 2
  MaxTroubles = 2
  MovesTrees = TRUE
  LosesNotices = TRUE
\* At rest nothing differs from the image.
CHECK_DEADLOCK FALSE
INVARIANTS NoTornCopy LeftoversHaveANotice UntouchedFollowImage
PROPERTIES AuditRecovers
