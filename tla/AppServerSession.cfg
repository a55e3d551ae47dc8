SPECIFICATION Spec
CONSTANTS
  child = child
  other = other
  Threads = {root, child, other}
  Root = root
  None = none
  MaxTurns = 4
  MaxTokens = 3
  MaxLosses = 2
  Faults = {"lost", "repeated", "exits", "requests"}
SYMMETRY Symmetry
INVARIANTS AcceptedIsReconciled OneCoordinator CalibratedIsTheTree
PROPERTY AcceptedIsQuiet
CHECK_DEADLOCK FALSE
