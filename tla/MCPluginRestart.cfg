SPECIFICATION Spec
INVARIANTS
  StoppedIsRestartable
CONSTANTS
  c1 = c1
  c2 = c2
  Monitor = Monitor
  Callers <- TwoCallers
  MaxTimeouts = 1
  MaxCalls = 2
CHECK_DEADLOCK FALSE
