SPECIFICATION Spec
CONSTANTS
  Entries = 3
  Wrap = 6
  MaxPosts = 8
INVARIANTS
  TypeOK
  BatchIsThere
PROPERTIES
  TakesWholeBatches
  AllReturned
CHECK_DEADLOCK FALSE
