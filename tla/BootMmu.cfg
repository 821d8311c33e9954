\* Violated: the MMU stays on, bit 1 of SCTLR is not bit 0.
SPECIFICATION Spec
CONSTANTS
  KernelAt = 1
  InitrdAt = 3
  DtbAt = 5
  Top = 7
  Cards <- MCCards
  Room = 12
  NameCost <- MCNameCost
  Cost <- MCCost
  Faulty = FALSE
INVARIANTS
  MmuIsOff
\* Linux runs, or the loader has panicked.
CHECK_DEADLOCK FALSE
