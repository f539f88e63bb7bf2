SPECIFICATION ReadersSpec
CONSTANTS
  TailWindow = 5
  ReadWindow = 3
  PrefixWindow = 3
  BackWindow = 5
  MaxEvents = 3
  MaxLength = 12
  MaxInodes = 2
  MaxErrors = 1
  NoEntry = NoEntry
  Subagents = {s1}
  NoId = NoId
  FirstWindow = 4
  NextWindow = 3
  MaxPending = 2
  MaxRecords = 5
  MaxRuns = 2
  Chats = {h1, h2}
  MaxCommits = 4
  NoCache = NoCache
  MaxProcesses = 3
  MaxConversations = 3
  Grace = 1
  MaxClock = 6
  MaxMarkers = 2
  NoOne = NoOne
CHECK_DEADLOCK FALSE
INVARIANTS
  RecordsAreReadOnce
  QoderTellsTheTruth
  CacheIsTrue
  OpenTurnsAreBound
  WaitingIsOwn
PROPERTIES
  FactsSurviveGaps
  ReadersCatchUp
