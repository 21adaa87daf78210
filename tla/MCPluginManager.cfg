SPECIFICATION FairSpec
INVARIANTS
  TypeOK
  ProcessesHeld

  
CONSTANTS
  n1 = n1
  i1 = i1
  i2 = i2
  c1 = c1
  c2 = c2
  Monitor = Monitor
  Main = Main
  NoInstance = NoInstance
  Names <- OneName
  Instances <- TwoInstances
  NameOf <- SameName
  Configs <- NoneOneTwins
  Callers <- TwoCallers
  MaxTimeouts = 1
  MaxCalls = 3
CHECK_DEADLOCK FALSE
