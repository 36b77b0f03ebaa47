SPECIFICATION Spec
CONSTANTS
  serve = serve
  closer = closer
  Submitters <- MCServeAlone
  Ops <- MCServeOps
  Entries = 4
  Wrap = 8
  Vacant = Vacant
INVARIANT IndexPointsToEntry
CHECK_DEADLOCK FALSE
