SPECIFICATION StreamSpec
CONSTANTS
  Conns <- MCConns
  Stream <- MCStream
  Cap = 4
  ChanCap = 1
  MaxRead = 5
  Rereads = FALSE
PROPERTIES
  DrainingIsBounded
CHECK_DEADLOCK FALSE
