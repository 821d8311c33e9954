\* From sdram_init() to the running ARM: order, handshakes, retries, and that it ends.
SPECIFICATION FirmwareSpec
CONSTANTS
  Needs <- MCNeeds
  Memories <- MCMemories
  Chips <- MCChips
INVARIANTS
  TypeOK
  SdramTypeOK
  DomainOrder
  UsbOffUnderImage
  ArmRunsCode
  CfgSweepSuffices
  StartedOnLock
  ArmKnowsMemory
PROPERTIES
  ClockSetQuietly
  CommandsUndisturbed
  StartupEnds
\* The ARM runs, or the firmware has panicked.
CHECK_DEADLOCK FALSE
