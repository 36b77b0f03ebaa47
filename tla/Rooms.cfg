SPECIFICATION RoomsSpec
CONSTANTS
  Ids <- MCIds
  Members <- MCMembers
  Capacities <- MCCapacities
  Logics <- MCAnyLogic
  MaxRooms = 2
  MaxTold = 4
INVARIANTS
  RoomsTypeOK
  LogicAgrees
CHECK_DEADLOCK FALSE
