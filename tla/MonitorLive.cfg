\* Every request is answered, and truthfully where there is room.
SPECIFICATION LiveSpec
CONSTANTS
  Depth = 2
  Wrap = 4096
  Buffers <- TwoBuffers
  Size <- TwoSizes
  Foreign <- MCForeign
  Channels <- MCChannels
  Messages <- MCMessages
  Timeout = 0
  MaxTicks = 0
  Strangers = TRUE
INVARIANTS
  SingleTagReply
PROPERTIES
  RoomyKeepsOut
  Answered
CHECK_DEADLOCK FALSE
