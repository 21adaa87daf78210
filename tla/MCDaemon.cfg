SPECIFICATION FairSpec
INVARIANTS
  TypeOK
  LeftInOrder
PROPERTIES
  ShutdownEnds
CONSTANTS
  r1 = r1
  Requesters <- OneRequester
  MaxPairs = 2
  MaxStarts = 3
CHECK_DEADLOCK FALSE
