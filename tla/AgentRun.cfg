SPECIFICATION FairSpec
CONSTANTS
  AgentCount = 3
  MaxRuns = 2
INVARIANTS TypeOK SynthesisReadsTheOthers RecordedReportIsFiled CompletedRunIsWhole JsonFollowsDatabase
PROPERTIES VerdictIsFinal RunEnds
