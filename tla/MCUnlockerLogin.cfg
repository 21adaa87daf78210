SPECIFICATION Spec
INVARIANTS
  LoginUnlocks
CONSTANTS
  a = a
  b = b
  c1 = c1
  c2 = c2
  NoPassword = NoPassword
  Nobody = Nobody
  Main = Main
  NoView = NoView
  Passwords <- TwoPasswords
  Clients <- OneClient
  MaxLoad = 7
  Asked <- FewRequests
CHECK_DEADLOCK FALSE
