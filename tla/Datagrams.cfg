SPECIFICATION Spec
CONSTANTS
  Protocols <- MCProtocols
  Addresses <- MCAddresses
  Entries = 2
  Word = 16
  Messages <- MCMessages
  BufferSize = 2
  MaxArrivals = 3
  MaxCQ = 2
INVARIANTS
  TypeOK
  EventsAreDatagrams
PROPERTIES
  ServesOnlyWhenReady
  DatagramIsSeen
CHECK_DEADLOCK FALSE
