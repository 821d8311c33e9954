\* The heap: any sequence of malloc and free, and restarts.
SPECIFICATION Spec
CONSTANTS
  LogSli = 2
  FliOffset = 4
  MaxFli = 9
  PoolSize = 112
  Requests <- MCRequests
INVARIANTS
  TypeOK
  HeadersAgree
  ListsAgree
  NothingLeaks
  NullMeansNoFit
PROPERTIES
  ImplementsHeap
