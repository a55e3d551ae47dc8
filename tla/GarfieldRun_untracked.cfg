CONSTANTS
  Worktrees <- ShadowTrees
  SignalsOf <- ShadowSignals
  Reports <- OneFinding
  ProtectedPaths <- Protected
  SensitivePaths <- Secret
  SensitiveDiffs = {}
  MaxActorCalls = 2
  MaxReviewCalls = 6
  MaxConcurrentReviewers = 2
  MaxRuns = 1
  EditsDuringRun = FALSE
  EditsBetweenRuns = TRUE
  None = None
SPECIFICATION Spec
CHECK_DEADLOCK FALSE
INVARIANTS
  PassedTreeIsCurrent
