SPECIFICATION Spec
CONSTANTS
  Conns = {c1, c2}
  NoConn = NoConn
  MaxConnections = 2
  MaxFrames = 1
  Kinds = {"cmd", "close"}
  MaxHangs = 0
  MaxFlush = 0
SYMMETRY Symmetry
CHECK_DEADLOCK FALSE
INVARIANTS
  NetworkTouchesLive
  PolledFdsOpen
  TrackedIsUsable
  SlotsAccounted
  DropIsAnnounced
  FreedLast
PROPERTIES
  ImplementsReadSide
