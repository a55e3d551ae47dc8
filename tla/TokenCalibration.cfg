SPECIFICATION Spec
CONSTANTS
  Agents = {root, child}
  Root = root
  None = none
  MaxTokens = 3
  MaxSequence = 3
INVARIANTS TypeOK CountedAtMostOnce AdmittedIsExact
CHECK_DEADLOCK FALSE
