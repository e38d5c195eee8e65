SPECIFICATION FairSpec
CONSTANTS
  Conns = {c1}
  NoConn = NoConn
  MaxConnections = 1
  MaxFrames = 1
  Kinds = {"cmd", "badframe"}
  MaxHangs = 1
  MaxFlush = 1
CHECK_DEADLOCK FALSE
PROPERTIES
  GoneWorkerEnds
  StopEndsOrStrands
