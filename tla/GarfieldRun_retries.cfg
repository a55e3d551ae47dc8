CONSTANTS
  Worktrees <- RetryTrees
  SignalsOf <- RetrySignals
  Reports <- OneFinding
  ProtectedPaths <- Protected
  SensitivePaths <- Secret
  SensitiveDiffs = {}
  MaxActorCalls = 2
  MaxReviewCalls = 4
  MaxConcurrentReviewers = 2
  MaxRuns = 2
  EditsDuringRun = FALSE
  EditsBetweenRuns = TRUE
  None = None
SPECIFICATION FairSpec
CHECK_DEADLOCK FALSE
INVARIANTS
  TypeOK
  PassedIsEvidenced
  WithinBudget
  FinishHasEvidence
  RepairIsWriteAhead
  SecretsAreNotShown
  NeverOvercounts
PROPERTIES
  CheckpointKeepsAccounting
  NoRunOnCrashedRepair
  KeepsOneAccount
  LoopDescends
  Termination
