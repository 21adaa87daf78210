SPECIFICATION FairSpec
INVARIANTS
  TypeOK
  RecordingIsRead
PROPERTIES
  CallsReturn
  StatesPass
CONSTANTS
  c1 = c1
  c2 = c2
  Monitor = Monitor
  Callers <- TwoCallers
  MaxTimeouts = 2
  MaxCalls = 2
CHECK_DEADLOCK FALSE
