SPECIFICATION FairSpec
CONSTANTS
  Workers = {w1, w2}
  MaxCalls = 2
  MaxProcs = 2
  PoolSize = 1
  MaxLog = 1
  Loggers = {1}
INVARIANTS AnswersMatch ReadsAreAwaited OnlyTheDeadHoldThePool NoStrandedDaemon
PROPERTIES ImplementsService PredictEnds CloseEnds
