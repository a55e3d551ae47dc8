SPECIFICATION FairReviewSpec
CONSTANTS
  Procs <- Reviewers
  MaxConcurrentReviewers = 2
  Descendants = TRUE
INVARIANTS
  StoppedIsNeverClean
  NothingOutlivesTheCall
  AbortReachesAll
  EveryChildIsTimed
  KilledIsNotBlamed
  NoReviewerIsLeftBehind
PROPERTIES
  ReturnsTheReview
  ReviewEnds
CHECK_DEADLOCK FALSE
