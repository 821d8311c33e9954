\* Violated: the address of the initrd is dropped.
SPECIFICATION Spec
CONSTANTS
  KernelAt = 1
  InitrdAt = 3
  DtbAt = 5
  Top = 7
  Cards <- MCCards
  Room = 12
  NameCost <- MCNameCost
  Cost <- MCCost
  Faulty = FALSE
INVARIANTS
  InitrdIsThere
\* Linux runs, or the loader has panicked.
CHECK_DEADLOCK FALSE
