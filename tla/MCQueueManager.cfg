SPECIFICATION FairSpec
INVARIANTS
  TypeOK
  MapsHold
PROPERTIES
  StopEndsUnlessStuck
  ClientEndsUnlessStuck
CONSTANTS
  a1 = a1
  a2 = a2
  c1 = c1
  c2 = c2
  Nobody = Nobody
  Adders <- TwoAdders
  Clients <- TwoClients
  Loops <- OneLoop
  SourceLimit = 2
  Limit = 1
  SignalCap = 1
  MaxLoad = 7
CHECK_DEADLOCK FALSE
