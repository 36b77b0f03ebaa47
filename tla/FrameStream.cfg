SPECIFICATION StreamSpec
CONSTANTS
  Conns <- MCConns
  Stream <- MCStream
  Cap = 4
  ChanCap = 1
  MaxRead = 5
  Rereads = TRUE
INVARIANTS
  StreamTypeOK
  FramesAreTheStreams
  NothingLeftBehind
PROPERTIES
  HandedOverIsProcessed
CHECK_DEADLOCK FALSE
