\* Every call of the SD driver returns and bring-up settles.
SPECIFICATION LiveSpec
CONSTANTS
  WordsPerBlock = 2
  Sectors <- OneSector
  MaxCount = 2
  FifoDepth = 1
  CardKinds <- TwoCards
  Faults <- LiveFaults
PROPERTIES
  CallsReturn
  BringUpSettles
CHECK_DEADLOCK FALSE
