SPECIFICATION Spec
CHECK_DEADLOCK FALSE
CONSTANTS
  MaxOpens = 1
  MaxDrops = 2
  MaxAsks = 1
  MaxQueue = 2
INVARIANT MicSafe
