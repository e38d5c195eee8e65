SPECIFICATION Spec
CONSTANTS
  Transfers = {t1, t2}
  Conns = {k1}
  Owners = {o1}
  None = None
  MaxScripts = 2
  MaxRedirects = 1
  MaxTries = 2
  Features = {"ws", "sync", "intercept", "fails", "reconfigure", "stray"}
  SelfEnd = {}
CHECK_DEADLOCK FALSE
SYMMETRY Symmetry
INVARIANTS
  DeadOwnerIsSilent
