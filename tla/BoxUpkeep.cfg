CONSTANTS
  Images <- MCImages
  Broken <- MCBroken
  NoImage = "none"
  Sustained = 2
  Quiet = 1
  Window = 2
  MaxRepairs = 2
  MaxEvents = 2
SPECIFICATION FairSpec
INVARIANTS
  RepairsAreBounded
  RunningFollowsRow
PROPERTIES
  DownIsHeard
  FloorIsCrossed
CHECK_DEADLOCK FALSE
