\* What Linux is given, and why the loader panics.
SPECIFICATION Spec
CONSTANTS
  KernelAt = 1
  InitrdAt = 3
  DtbAt = 5
  Top = 7
  Cards <- MCCards
  Room = 12
  NameCost <- MCNameCost
  Cost <- MCCost
  Faulty = TRUE
INVARIANTS
  TypeOK
  ImagesIntact
  TreeComplete
  PanicHasCause
\* Linux runs, or the loader has panicked.
CHECK_DEADLOCK FALSE
