SPECIFICATION FairSpec
CONSTANTS
  MaxVersion = 2
  MaxFaults = 3
  Patience = 2
  NoVersion = NoVersion
  NoSnapshot = NoSnapshot
INVARIANTS
  HealthyServersAreShown
PROPERTIES
  AttemptsAreSpaced
  PushesConverge
  StoppedServersLeave
