SPECIFICATION Spec
CONSTANTS
  Transfers = {t1, t2}
  Conns = {k1, k2}
  Owners = {o1}
  None = None
  MaxScripts = 2
  MaxRedirects = 1
  MaxTries = 2
  Features = {"sync", "crossed"}
  SelfEnd = {}
CHECK_DEADLOCK FALSE
INVARIANTS
  StackHoldsLive
