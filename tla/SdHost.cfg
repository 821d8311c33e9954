\* Safety of the SD driver with every kind of fault, any number of times.
SPECIFICATION Spec
CONSTANTS
  WordsPerBlock = 2
  Sectors <- MCSectors
  MaxCount = 2
  FifoDepth = 2
  CardKinds <- MCCards
  Faults <- MCFaults
INVARIANTS
  TypeOK
  RightWords
  NothingPastBadBlock
  CleanReadIsComplete
  ReadyCard
\* A stopped or panicked driver with a quiet controller really stops.
CHECK_DEADLOCK FALSE
