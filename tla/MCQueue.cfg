SPECIFICATION FairSpec
INVARIANTS
  TypeOK
  FramesInOrder
  NoStrandedFrame
  ListenersSound
PROPERTIES
  ImplementsFifo
  JamIsForever
  EndsOrJams
CONSTANTS
  p1 = p1
  p2 = p2
  s1 = s1
  s2 = s2
  NoPusher = NoPusher
  Pushers <- TwoPushers
  Subscribers <- TwoSubscribers
  Limit = 2
  SignalCap = 1
  MaxPushes = 3
CHECK_DEADLOCK FALSE
