SPECIFICATION FairSpec
CHECK_DEADLOCK FALSE
CONSTANTS
  MaxOpens = 2
  MaxDrops = 2
  MaxAsks = 1
  MaxQueue = 2
INVARIANTS NoLeak MediaCurrent
PROPERTIES CloseQuits JoinSettles
