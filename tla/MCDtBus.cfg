SPECIFICATION Spec
CHECK_DEADLOCK FALSE
CONSTANTS
  Trees <- MCTrees
  OtherMax = 1
INVARIANTS
  FailedInitLeaves
  LinesAreAccountedFor
  LastEventTellsLine
