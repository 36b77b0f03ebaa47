SPECIFICATION Spec
CONSTANTS
  serve = serve
  closer = closer
  Submitters <- MCSubmitters
  Ops <- MCOps
  Entries = 4
  Wrap = 8
  Vacant = Vacant
INVARIANTS
  TypeOK
  PendingBounded
  SerialSubmissionsArrive
CHECK_DEADLOCK FALSE
