SPECIFICATION Spec
CONSTANTS
  Hooks = {h1,h2}
  Readers = {}
  Locks = {NoLock}
  MaxLen = 2
  FileLimit = 4
  ReadLimit = 4
  MaxHooks = 8
  MaxFailures = 0
  Stalling = {}
  NoFile = NoFile
  NoHook = NoHook
  NoLock = NoLock
CHECK_DEADLOCK FALSE
INVARIANTS
  RetainsRecent
