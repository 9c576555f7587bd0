SPECIFICATION Spec
CONSTANTS
  Sources <- MCSources
  Directories <- MCDirectories
  Series <- MCSeries
  MaxPages = 2
  MaxRuns = 3
  MaxFaults = 1
INVARIANTS SummariesTellTheDisk NothingDroppedSilently StagesOnNewestStudy FilesBelongTogether
CHECK_DEADLOCK FALSE
