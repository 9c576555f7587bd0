SPECIFICATION Spec
CONSTANTS
  MaxAttempts = 3
  BackoffFactor = 1
  MinInterval = 3
  MaxGets = 1
  MaxTime = 5
INVARIANT RatePolicy
