SPECIFICATION FairSpec
CONSTANTS
  Poll = 1
  Request = 2
  Stale = 4
  SocketMax = 2
  MaxDelay = 1
  MaxChanges = 1
  MaxRestarts = 1
  MaxFaults = 1
  MaxClock = 1
  NoView = NoView
  Nothing = Nothing
INVARIANTS
  StaleRowsLeave
  OneBackend
  LabelsAreHonest
PROPERTIES
  NothingComesBack
  ViewConverges
