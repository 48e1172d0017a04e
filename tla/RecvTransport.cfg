\* Four Consume() calls, audio and video, with and without mids of the server.
SPECIFICATION Spec
CONSTANTS
  None = 0
  Faults = {"probator", "remote", "connect", "local"}
  MaxConsume = 4
  MaxRestarts = 1
INVARIANTS SdpConsistent OwnSection NoOrphanSection MidsDistinct
CHECK_DEADLOCK FALSE
