SPECIFICATION QoderSpec
CONSTANTS
  Subagents = {s1, s2}
  NoId = NoId
  FirstWindow = 6
  NextWindow = 6
  MaxPending = 1
  MaxRecords = 5
  MaxRuns = 1
CHECK_DEADLOCK FALSE
INVARIANT
  SubagentsAreIgnored
