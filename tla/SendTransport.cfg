\* Four Produce() calls: two sections can be closed and one of them reused
\* while another is open, with a failure anywhere in between.
SPECIFICATION Spec
CONSTANTS
  None = 0
  Faults = {"offer", "answer", "validate", "produce", "negotiate"}
  MaxProduce = 4
  MaxRestarts = 1
INVARIANTS SdpConsistent Aligned OwnSection NoOrphanSection ProducersWithIdClosed
CHECK_DEADLOCK FALSE
