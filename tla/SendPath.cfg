SPECIFICATION Spec
CONSTANTS
  Cap = 2
  Sizes <- MCSizes
  Answers <- MCAnswers
  MaxFed = 5
  MaxAnswers = 1
  MaxFlight = 3
  MaxWire = 5
INVARIANTS
  TypeOK
  StreamIntact
  InFlightUntouched
  QueuedAgrees
CHECK_DEADLOCK FALSE
