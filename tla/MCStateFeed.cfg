SPECIFICATION FairSpec
INVARIANTS
  TypeOK
  FeedIsCurrent
  ClientIsCurrent
  ListenersSound
PROPERTIES
  StuckIsForever
  EndsOrJams
  ClientHearsOrJams
CONSTANTS
  p1 = p1
  p2 = p2
  s1 = s1
  s2 = s2
  ready = ready
  busy = busy
  stopped = stopped
  Plugins <- OnePlugin
  Subscribers <- TwoSubscribers
  Ready = ready
  States <- TwoStates
  SignalCap = 1
  OneSize = 1
  AllSize = 1
  MaxSets = 2
CHECK_DEADLOCK FALSE
