SPECIFICATION FairSpec
CONSTANTS
  Hooks = {h1,h2,h3}
  Readers = {}
  Locks = {NoHook}
  MaxLen = 2
  FileLimit = 4
  ReadLimit = 4
  MaxHooks = 8
  MaxFailures = 1
  Stalling = {h1}
  NoFile = NoFile
  NoHook = NoHook
  NoLock = NoLock
CHECK_DEADLOCK FALSE
INVARIANTS
  SizeBounded
  RetainsRecent
PROPERTIES
  ImplementsBoundedLog
  HooksFinish
