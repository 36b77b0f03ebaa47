SPECIFICATION NewRingSpec
CONSTANTS
  Width = 8
  Byte <- MCByte
  Cap = 4
  Wrap = 12
  Chunks <- MCChunks
  Steps <- MCSteps
INVARIANTS
  TypeOK
  ViewsAgree
  CapacityFits
PROPERTIES
  RefinesQueue
CHECK_DEADLOCK FALSE
