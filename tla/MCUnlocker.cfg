SPECIFICATION FairSpec
INVARIANTS
  TypeOK
  RootKeySealedUnlessCrossed
  StorePasswordKnown
  FirstPasswordOnce
  ReadyUnlessLate
PROPERTIES
  StartupEndsUnlessLate
CONSTANTS
  a = a
  b = b
  c1 = c1
  c2 = c2
  NoPassword = NoPassword
  Nobody = Nobody
  Main = Main
  NoView = NoView
  Passwords <- TwoPasswords
  Clients <- TwoClients
  MaxLoad = 7
  Asked <- FewRequests
CHECK_DEADLOCK FALSE
