SPECIFICATION Spec
CONSTANTS
  Fds <- MCFds
  InitialQueue <- MCNoQueue
  NumBufs = 1
  MaxChunks = 1
  MaxCQ = 3
INVARIANTS
  TypeOK
  PeersKnown
  AcceptsAccounted
  DataAccounted
PROPERTIES
  DrainEnds
  AcceptingEnds
  AcceptHandled
  FirstChunkHandled
CHECK_DEADLOCK FALSE
