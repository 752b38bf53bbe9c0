SPECIFICATION Spec
CONSTANTS
  Capacities = {20, 29, 32}
  Sizes <- MCSizes
  Lengths <- MCLengths
INVARIANTS
  GuestSeesWholeQuote
  RoomToRead
PROPERTIES
  StatusIsFinal
  GuestIsAnswered
CHECK_DEADLOCK FALSE
