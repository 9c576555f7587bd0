SPECIFICATION AuditSpec
CONSTANTS
  Years = {1896, 1899, 1901, 2012}
  Scores = {1, 2}
  Window = 3
  Limit = 2
  Profiles <- MCProfiles
  Neighborhoods = {0, 2}
  MaxRankings = 2
INVARIANTS Separated CoveredByABetter NothingBetterHidden BestIsRepresentative
INVARIANTS ArtifactsInOrder UnfoundedIsVisible OneLevelOff
CHECK_DEADLOCK FALSE
