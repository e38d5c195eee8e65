SPECIFICATION FairSpec
CONSTANTS
  Transfers = {t1, t2}
  Conns = {k1, k2}
  Owners = {o1}
  None = None
  MaxScripts = 2
  MaxRedirects = 1
  MaxTries = 2
  Features = {"sync", "synthetic"}
  SelfEnd = {}
CHECK_DEADLOCK FALSE
PROPERTIES
  SyncReturns
