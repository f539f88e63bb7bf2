SPECIFICATION Spec
CONSTANTS
  Sessions = {s1,s2}
  Pids = {1, 2}
  Tools = {a,b}
  Settings <- AllSettings
  Grace = 1
  NoTool = NoTool
  NoEvent = NoEvent
  NoRoot = NoRoot
PROPERTIES
  NoPhantomTurn
  NoHiddenTurn
  QuietRoundsTellTheTruth
  QuestionsStayShown
  ToolEventsReleaseWaiting
