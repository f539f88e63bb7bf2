SPECIFICATION FairSpec
CONSTANTS
  Sessions = {s1}
  Pids = {1}
  Tools = {a}
  Settings <- PlainOnly
  Grace = 1
  NoTool = NoTool
  NoEvent = NoEvent
  NoRoot = NoRoot
PROPERTIES
  DisplayCatchesUp
