SPECIFICATION Spec
CONSTANTS
  Fds <- MCFds
  InitialQueue <- MCZeros
  NumBufs = 1
  MaxChunks = 1
  MaxCQ = 3
PROPERTY AcceptHandled
CHECK_DEADLOCK FALSE
