SPECIFICATION CommandFairSpec
CONSTANTS
  Workers = {w1}
  Worker = w1
  MaxCalls = 3
  MaxProcs = 3
  PoolSize = 1
  MaxLog = 0
  Loggers = {}
  ROLLING_STATISTICS_WINDOW = 10
  SeriesFiles <- MCSeriesFiles
  BatchFiles <- MCBatchFiles
  TypedSeries <- MCTypedSeries
  Horizons = {0, 1}
  Modes = {"one-shot", "daemon", "warm"}
  Forecasts <- MCForecasts
  WorkerMessages <- MCWorkerMessages
INVARIANTS ItemsMatch LossEndsTheBatch
INVARIANTS RequestsAreValid ExitTellsAnswer WindowsAreWhole
PROPERTY CommandsEnd
