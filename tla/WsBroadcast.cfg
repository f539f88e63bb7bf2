SPECIFICATION FairSpec
CONSTANTS
  Clients = {c1}
  Tokened = TRUE
  MaxLocal = 3
  MaxRemote = 1
  BadLocals = {1}
  Hash <- MCHash
  Encodable <- MCEncodable
  NoFrame = NoFrame
  NoHash = NoHash
  NoVersion = NoVersion
INVARIANTS
  RegistryInv
PROPERTIES
  InitialFrameFirst
  BroadcastsNeverGoBack
  WatchersConverge
  LostPeersAreReleased
  ImplementsStatusBoard
