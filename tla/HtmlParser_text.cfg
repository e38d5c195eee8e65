SPECIFICATION Spec
CONSTANTS
  Root = r
  Nodes = {r, n1, n2, n3, n4}
  None = None
  MaxChunks = 3
  MaxOps = 1
SYMMETRY Symmetry
CHECK_DEADLOCK FALSE
INVARIANTS
  OnePlace
  ScriptSeesWhole
  ChunksKept
PROPERTIES
  ImplementsParsedText
