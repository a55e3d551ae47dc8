CONSTANTS
  Worktrees <- RepeatedTrees
  SignalsOf <- RepeatedSignals
  Reports <- OneFinding
  ProtectedPaths <- Protected
  SensitivePaths <- Secret
  SensitiveDiffs = {}
  MaxActorCalls = 2
  MaxReviewCalls = 6
  MaxConcurrentReviewers = 2
  MaxRuns = 2
  EditsDuringRun = FALSE
  EditsBetweenRuns = TRUE
  None = None
SPECIFICATION Spec
CHECK_DEADLOCK FALSE
INVARIANTS
  RepeatedNeedsRepair
