\* Two requests, one of which blocks its caller.
SPECIFICATION FairSpec
CONSTANTS
  Requests = {r1, r2}
  SyncRequests = {r1}
INVARIANTS NeverForgotten SettledOnce
PROPERTIES EveryRequestSettles
CHECK_DEADLOCK FALSE
