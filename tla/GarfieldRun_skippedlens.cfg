CONSTANTS
  Worktrees <- CodeTrees
  SignalsOf <- CodeSignals
  Reports <- OneFinding
  ProtectedPaths <- Protected
  SensitivePaths <- Secret
  SensitiveDiffs = {}
  MaxActorCalls = 2
  MaxReviewCalls = 20
  MaxConcurrentReviewers = 2
  MaxRuns = 1
  EditsDuringRun = FALSE
  EditsBetweenRuns = TRUE
  None = None
SPECIFICATION Spec
CHECK_DEADLOCK FALSE
INVARIANTS
  EveryApplicableLensReviewed
