SPECIFICATION FairSpec
CONSTANTS
  Hooks = {h1,h2}
  Readers = {r1}
  Locks = {NoHook,NoLock}
  MaxLen = 1
  FileLimit = 2
  ReadLimit = 2
  MaxHooks = 3
  MaxFailures = 0
  Stalling = {}
  NoFile = NoFile
  NoHook = NoHook
  NoLock = NoLock
INVARIANTS
  CacheHonest
PROPERTIES
  LoadsCatchUp
