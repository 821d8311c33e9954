\* The monitor implements the service, with more requests than MAIL0 can hold.
SPECIFICATION Spec
CONSTANTS
  Depth = 2
  Wrap = 4096
  Buffers <- ThreeBuffers
  Size <- ThreeSizes
  Foreign <- MCForeign
  Channels <- MCChannels
  Messages <- OneMessage
  Timeout = 1
  MaxTicks = 1
  Strangers = TRUE
INVARIANTS
  TypeOK
PROPERTIES
  ImplementsService
  WrittenIsSent
CHECK_DEADLOCK FALSE
