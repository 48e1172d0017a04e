SPECIFICATION FairSpec
CHECK_DEADLOCK FALSE
CONSTANTS
  MaxSessions = 2
  Tracks = {"video"}
  VGOP = 1
  MaxTags = 2
INVARIANTS CountExact WireOwnTags Released NoForeignReset
PROPERTIES StopEnds CacheDrains
