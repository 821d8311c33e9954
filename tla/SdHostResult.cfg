\* Violated: read_block returns true after a transfer error or a stall.
SPECIFICATION Spec
CONSTANTS
  WordsPerBlock = 2
  Sectors <- OneSector
  MaxCount = 2
  FifoDepth = 2
  CardKinds <- TwoCards
  Faults <- DataFaults
INVARIANTS
  TrueMeansComplete
CHECK_DEADLOCK FALSE
