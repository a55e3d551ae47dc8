SPECIFICATION Spec
CONSTANTS
  child = child
  other = other
  Threads = {root, child, other}
  Root = root
  None = none
  MaxTurns = 4
  MaxTokens = 3
  MaxLosses = 0
  Faults = {}
SYMMETRY Symmetry
INVARIANTS DeadlineInterruptsWork
CHECK_DEADLOCK FALSE
