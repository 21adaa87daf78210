SPECIFICATION Spec
INVARIANTS
  PopReturnsItem
CONSTANTS
  p1 = p1
  p2 = p2
  s1 = s1
  s2 = s2
  NoPusher = NoPusher
  Pushers <- OnePusher
  Subscribers <- OneSubscriber
  Limit = 3
  SignalCap = 2
  MaxPushes = 3
CHECK_DEADLOCK FALSE
