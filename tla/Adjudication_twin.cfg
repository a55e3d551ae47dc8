SPECIFICATION ReportSpec
CONSTANTS
  Change <- EveryLensAtMediumRisk
  ChangedPaths <- OnePath
  Pool <- FewFindings
  MaxReport = 3
CHECK_DEADLOCK FALSE
INVARIANT SupportedIsAccepted
