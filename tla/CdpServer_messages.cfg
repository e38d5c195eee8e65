SPECIFICATION FairSpec
CONSTANTS
  Conns = {c1}
  NoConn = NoConn
  MaxConnections = 1
  MaxFrames = 3
  Kinds = {"cmd", "fetch", "ping", "pong", "close", "badjson", "badframe"}
  MaxHangs = 0
  MaxFlush = 1
CHECK_DEADLOCK FALSE
INVARIANTS
  TerminalIsLast
PROPERTIES
  GoneWorkerEnds
  CloseEndsWorker
