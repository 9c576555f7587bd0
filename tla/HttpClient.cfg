SPECIFICATION Spec
CONSTANTS
  MaxAttempts = 3
  BackoffFactor = 1
  MinInterval = 3
  MaxGets = 2
  MaxTime = 9
INVARIANTS GetsArePaced RetriesBackOff FailsOnlyExhausted
