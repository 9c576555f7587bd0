SPECIFICATION Spec
CONSTANTS
  Years = {1, 2, 3, 4, 5, 6}
  Inputs <- MCInputs
  Optional <- MCOptional
  TrainWindow = 2
  Horizon = 2
  MinLength = 4
  ForecastLimit = {3}
INVARIANTS BrokenAdapterContained
CHECK_DEADLOCK FALSE
