SPECIFICATION Spec
CONSTANTS
  Transfers = {t1, t2, t3}
  Conns = {k1}
  Owners = {o1}
  None = None
  MaxScripts = 2
  MaxRedirects = 0
  MaxTries = 2
  Features = {"ws", "intercept", "auth", "synthetic"}
  SelfEnd = {}
CHECK_DEADLOCK FALSE
SYMMETRY Symmetry
INVARIANTS
  StackHoldsLive
  PerformingIsInCurl
  InterceptedMatches
  QueueMatches
