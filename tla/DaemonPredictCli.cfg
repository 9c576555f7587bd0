SPECIFICATION CliFairSpec
CONSTANTS
  Workers = {w1}
  Worker = w1
  MaxCalls = 2
  MaxProcs = 2
  PoolSize = 1
  MaxLog = 2
  Loggers = {1, 2}
INVARIANTS ForwardedOnce
PROPERTY CommandEnds
