SPECIFICATION RpcSpec
INVARIANTS
  RpcTypeOK
  GrantsHold
CONSTANTS
  c1 = c1
  Calls <- OneCall
  Names <- TwoNames
  Within <- PartOf
  UnitSeconds <- ShortUnits
  Second = 2
  Top = 32
  Lifetimes <- SomeLifetimes
  MaxTime = 3
  MaxBakes = 1
CHECK_DEADLOCK FALSE
