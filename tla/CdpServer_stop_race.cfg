SPECIFICATION FairSpec
CONSTANTS
  Conns = {c1}
  NoConn = NoConn
  MaxConnections = 1
  MaxFrames = 0
  Kinds = {"cmd"}
  MaxHangs = 0
  MaxFlush = 0
CHECK_DEADLOCK FALSE
PROPERTIES
  StopEnds
