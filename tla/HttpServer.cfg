SPECIFICATION Spec
CONSTANTS
  Requests <- MCRequests
  Pipelines <- MCPipelines
  LateRoutes <- MCLateRoutes
  ReadAgain = TRUE
  MaxRequests = 2
  MaxChunks = 3
INVARIANTS
  TypeOK
  OneAnswerPerChunk
  ParsersAgree
PROPERTIES
  WholeRequestsAnswered
CHECK_DEADLOCK FALSE
