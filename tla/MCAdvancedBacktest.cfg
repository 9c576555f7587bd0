SPECIFICATION FairSpec
CONSTANTS
  Years = {1, 2, 3, 4, 5, 6}
  Inputs <- MCInputs
  Optional <- MCOptional
  TrainWindow = 2
  Horizon = 2
  MinLength = 4
  ForecastLimit = {3}
INVARIANTS BaselinesMatchPlainStudy OptionalRowsAreAPrefix ValidStudyIsUsable
PROPERTIES StudyEnds
CHECK_DEADLOCK FALSE
