\* Violated: the tag loop skips the tags after the first.
SPECIFICATION Spec
CONSTANTS
  Depth = 2
  Wrap = 4096
  Buffers <- TwoBuffers
  Size <- TwoSizes
  Foreign <- MCForeign
  Channels <- MCChannels
  Messages <- TwoTags
  Timeout = 1
  MaxTicks = 1
  Strangers = FALSE
INVARIANTS
  SuccessMeansAllHandled
CHECK_DEADLOCK FALSE
