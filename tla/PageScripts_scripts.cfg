SPECIFICATION Spec
CONSTANTS
  Nodes = {n1, n2, n3}
  None = None
  MaxDepth = 6
  Single = {{"plain", "custom", "module"}, {"plain", "custom", "async"},
            {"inline", "module"}, {"src", "async"}}
  MaxMoves = 1
INVARIANTS
  RunsOnce
  DeferredInOrder
  OneDrain
  InsertionPointIsOwn
  WritesInOrder
  ParserMatchesHandles
  NoMarkupInConstructor
PROPERTIES
  LoadedMeansDrained
CHECK_DEADLOCK FALSE
