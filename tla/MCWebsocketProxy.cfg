SPECIFICATION FairSpec
INVARIANTS
  TypeOK
  StreamHolds
PROPERTIES
  ConnectionEnds
CONSTANTS
  MaxSent = 3
  MaxLines = 2
CHECK_DEADLOCK FALSE
