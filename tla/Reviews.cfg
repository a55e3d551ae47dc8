SPECIFICATION ReviewsSpec
CONSTANTS
  Changes <- ThreeChanges
  Candidates <- NearlyPlain
  Repairs <- FewRepairs
  MaxConcurrentReviewers = 2
  MaxSlips = 2
  Change <- EveryLensAtMediumRisk
  ChangedPaths <- OnePath
  Pool <- FewFindings
  MaxReport = 3
INVARIANTS
  LensesPartitioned
  LaterCyclesCoverTheRepair
  VerifiedPlansAreSplit
  TwoCyclesFitDefaultBudget
  EveryLensIsAnswered
  DuplicatesAreOnesOwn
  OneOfEachConcernIsJudged
PROPERTY LaterReportsChangeNothing
CHECK_DEADLOCK FALSE
