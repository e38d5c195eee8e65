SPECIFICATION Spec
CONSTANTS
  Transfers = {t1, t2}
  Conns = {k1, k2}
  Owners = {o1, o2}
  None = None
  MaxScripts = 2
  MaxRedirects = 1
  MaxTries = 2
  Features = {"sync", "intercept", "auth", "synthetic", "fails"}
  SelfEnd = {}
CHECK_DEADLOCK FALSE
SYMMETRY Symmetry
INVARIANTS
  TypeOK
  StackHoldsLive
  ConnsAccounted
  CountsMatch
  EndIsTold
  AbortDrains
  PausedIsParked
