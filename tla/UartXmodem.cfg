\* The XMODEM sender against a lossy line and an impatient board.
SPECIFICATION Spec
CONSTANTS
  Blocks = 4
  Wrap = 3
  Pieces = 2
  ChunkSize = 2
  RingSize = 3
  MaxFaults = 2
  MaxHurries = 1
  MaxResets = 1
INVARIANTS
  TypeOK
  StoredInOrder
  EotMeansAll
  InsideFile
PROPERTIES
  TransferEnds
\* The transfer is over.
CHECK_DEADLOCK FALSE
