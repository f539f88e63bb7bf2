------------------------- MODULE WsBroadcast_proofs -------------------------
(* Type correctness of WsBroadcast and the two registry invariants, for    *)
(* every set of connections, every bound and every hash function.          *)
EXTENDS WsBroadcast, SequenceTheorems, TLAPS

-----------------------------------------------------------------------------
(* Facts about the helpers the actions are built from                      *)

LEMMA FrameFacts ==
  /\ BlankFrame \in Frame
  /\ NoFrame \notin Frame
  /\ \A f \in Frame : HashOf(f) \in Hashes /\ HashOf(f) # NoHash
BY ConstantsAssumption DEF BlankFrame, Frame, HashOf, Hashes

\* Every element of a send queue is an item.
LEMMA ItemFacts ==
  /\ AuthItem \in Item
  /\ Nil \in Item
  /\ \A f \in Frame : StateItem(f) \in Item
  /\ \A i \in Item : i.kind = "state" => i.frame \in Frame
<1>1. AuthItem \in Item /\ Nil \in Item /\ \A f \in Frame : StateItem(f) \in Item
  BY DEF Item
<1>2. ASSUME NEW i \in Item, i.kind = "state" PROVE i.frame \in Frame
  <2>1. i # AuthItem /\ i # Nil
    BY <1>2 DEF AuthItem, Nil
  <2>2. PICK f \in Frame : i = StateItem(f)
    BY <2>1 DEF Item
  <2>3. QED
    BY <2>2 DEF StateItem
<1>3. QED
  BY <1>1, <1>2

\* What the provider answers is a version the world has had.
LEMMA ObservedFacts ==
  ASSUME WorldTypes, CacheTypes
  PROVE  /\ Observed \in 0 .. MaxLocal
         /\ cache' = Refreshed => CacheTypes'
<1>1. Observed \in 0 .. MaxLocal
  BY DEF WorldTypes, CacheTypes, Observed
<1>2. Observed # NoVersion
  BY <1>1, ConstantsAssumption
<1>3. ASSUME cache' = Refreshed PROVE CacheTypes'
  <2>1. cache' = [version |-> Observed, fresh |-> TRUE]
    BY <1>3 DEF Refreshed
  <2>2. cache'.version = Observed /\ cache'.fresh = TRUE
    BY <2>1
  <2>3. cache' \in [version : 0 .. MaxLocal \union {NoVersion}, fresh : BOOLEAN]
    BY <2>1, <1>1
  <2>4. QED
    BY <1>2, <2>2, <2>3 DEF CacheTypes
<1>4. QED
  BY <1>1, <1>3

\* Queueing an item, or closing, keeps the sockets well typed.
LEMMA SendItemTypes ==
  ASSUME SocketTypes, NEW c \in Clients, NEW i \in Item, SendItem(c, i)
  PROVE  queue' \in [Clients -> Seq(Item)]
BY DEF SendItem, SocketTypes

LEMMA CloseClientTypes ==
  ASSUME SocketTypes, NEW c \in Clients, CloseClient(c)
  PROVE  /\ closed' \in [Clients -> BOOLEAN]
         /\ queue' \in [Clients -> Seq(Item)]
BY ItemFacts DEF CloseClient, SocketTypes

-----------------------------------------------------------------------------
(* Type correctness, one lemma per thread                                  *)

LEMMA EnvironmentTypes ==
  ASSUME TypeOK,
         \/ LocalChange \/ RemoteChange \/ CacheExpires
         \/ \E c \in Clients : Connect(c) \/ PeerLeaves(c)
  PROVE  TypeOK'
<1> USE ConstantsAssumption
    DEF TypeOK, world, registry, broadcaster, handlers, sockets, frames
<1>1. CASE LocalChange
  BY <1>1 DEF LocalChange, WorldTypes, CacheTypes, RegistryTypes,
     BroadcasterTypes, HandlerTypes, SocketTypes, FrameTypes
<1>2. CASE RemoteChange
  BY <1>2 DEF RemoteChange, WorldTypes, CacheTypes, RegistryTypes,
     BroadcasterTypes, HandlerTypes, SocketTypes, FrameTypes
<1>3. CASE CacheExpires
  <2>1. CacheTypes'
    BY <1>3 DEF CacheExpires, CacheTypes
  <2>2. QED
    BY <1>3, <2>1 DEF CacheExpires, WorldTypes, RegistryTypes,
       BroadcasterTypes, HandlerTypes, SocketTypes, FrameTypes
<1>4. ASSUME NEW c \in Clients, Connect(c) PROVE TypeOK'
  <2>1. HandlerTypes'
    BY <1>4 DEF Connect, Goto, HandlerTypes, HandlerPc
  <2>2. SocketTypes'
    BY <1>4 DEF Connect, SocketTypes
  <2>3. QED
    BY <1>4, <2>1, <2>2 DEF Connect, WorldTypes, CacheTypes, RegistryTypes,
       BroadcasterTypes, FrameTypes
<1>5. ASSUME NEW c \in Clients, PeerLeaves(c) PROVE TypeOK'
  <2>1. SocketTypes'
    BY <1>5 DEF PeerLeaves, SocketTypes
  <2>2. QED
    BY <1>5, <2>1 DEF PeerLeaves, WorldTypes, CacheTypes, RegistryTypes,
       BroadcasterTypes, HandlerTypes, FrameTypes
<1>6. QED
  BY <1>1, <1>2, <1>3, <1>4, <1>5

LEMMA SenderTypes ==
  ASSUME TypeOK, NEW c \in Clients, Sender(c)
  PROVE  TypeOK'
<1> USE DEF TypeOK, world, registry, broadcaster, handlers, sockets, frames
<1>1. CASE SenderDelivers(c)
  <2>1. queue[c] \in Seq(Item) /\ queue[c] # <<>>
    BY <1>1 DEF SenderDelivers, SocketTypes
  <2>2. Head(queue[c]) \in Item /\ Tail(queue[c]) \in Seq(Item)
    BY <2>1
  <2>3. SocketTypes'
    BY <1>1, <2>2 DEF SenderDelivers, SocketTypes
  <2>4. FrameTypes'
    BY <1>1, <2>2, ItemFacts DEF SenderDelivers, FrameTypes
  <2>5. QED
    BY <1>1, <2>3, <2>4 DEF SenderDelivers, WorldTypes, CacheTypes,
       RegistryTypes, BroadcasterTypes, HandlerTypes
<1>2. ASSUME SenderFails(c) \/ SenderStops(c) PROVE TypeOK'
  <2>1. SocketTypes'
    BY <1>2, CloseClientTypes DEF SenderFails, SenderStops, SocketTypes
  <2>2. QED
    BY <1>2, <2>1 DEF SenderFails, SenderStops, WorldTypes, CacheTypes,
       RegistryTypes, BroadcasterTypes, HandlerTypes, FrameTypes
<1>3. QED
  BY <1>1, <1>2 DEF Sender

LEMMA HandlerActionTypes ==
  ASSUME TypeOK, NEW c \in Clients, Handler(c)
  PROVE  TypeOK'
<1> USE ConstantsAssumption
    DEF TypeOK, world, registry, broadcaster, handlers, sockets, frames, Goto
<1>1. ASSUME AuthAccepted(c) \/ AuthRejected(c) PROVE TypeOK'
  <2>1. SocketTypes'
    BY <1>1, SendItemTypes, ItemFacts DEF AuthAccepted, AuthRejected, SocketTypes
  <2>2. HandlerTypes'
    BY <1>1 DEF AuthAccepted, AuthRejected, HandlerTypes, HandlerPc
  <2>3. QED
    BY <1>1, <2>1, <2>2 DEF AuthAccepted, AuthRejected, WorldTypes, CacheTypes,
       RegistryTypes, BroadcasterTypes, FrameTypes
<1>2. ASSUME RejectClose(c) \/ RecvEnds(c) \/ HandlerClose(c) PROVE TypeOK'
  <2>1. SocketTypes'
    BY <1>2, CloseClientTypes DEF RejectClose, RecvEnds, HandlerClose, SocketTypes
  <2>2. HandlerTypes'
    BY <1>2 DEF RejectClose, RecvEnds, HandlerClose, HandlerTypes, HandlerPc
  <2>3. QED
    BY <1>2, <2>1, <2>2 DEF RejectClose, RecvEnds, HandlerClose, WorldTypes,
       CacheTypes, RegistryTypes, BroadcasterTypes, FrameTypes
<1>3. CASE AuthNoFrame(c)
  <2>1. HandlerTypes'
    BY <1>3 DEF AuthNoFrame, HandlerTypes, HandlerPc
  <2>2. QED
    BY <1>3, <2>1 DEF AuthNoFrame, WorldTypes, CacheTypes, RegistryTypes,
       BroadcasterTypes, SocketTypes, FrameTypes
<1>4. CASE HandlerReadLocal(c)
  <2>1. [local |-> Observed, remote |-> 0, src |-> "initial"] \in Frame
    BY ObservedFacts DEF Frame
  <2>2. HandlerTypes'
    BY <1>4, <2>1 DEF HandlerReadLocal, HandlerTypes, HandlerPc
  <2>3. CacheTypes'
    BY <1>4, ObservedFacts DEF HandlerReadLocal
  <2>4. QED
    BY <1>4, <2>2, <2>3 DEF HandlerReadLocal, WorldTypes, RegistryTypes,
       BroadcasterTypes, SocketTypes, FrameTypes
<1>5. CASE HandlerReadRemote(c)
  <2>1. [hFrame[c] EXCEPT !.remote = remote] \in Frame
    BY DEF HandlerTypes, WorldTypes, Frame
  <2>2. HandlerTypes'
    BY <1>5, <2>1 DEF HandlerReadRemote, HandlerTypes, HandlerPc
  <2>3. QED
    BY <1>5, <2>2 DEF HandlerReadRemote, WorldTypes, CacheTypes, RegistryTypes,
       BroadcasterTypes, SocketTypes, FrameTypes
<1>6. CASE Register(c)
  <2>1. hFrame[c] \in Frame
    BY DEF HandlerTypes
  <2>2. SocketTypes'
    BY <1>6, <2>1, SendItemTypes, ItemFacts DEF Register, SocketTypes
  <2>3. FrameTypes'
    BY <1>6, <2>1 DEF Register, FrameTypes
  <2>4. HandlerTypes'
    BY <1>6 DEF Register, HandlerTypes, HandlerPc
  <2>5. RegistryTypes'
    BY <1>6 DEF Register, RegistryTypes
  <2>6. QED
    BY <1>6, <2>2, <2>3, <2>4, <2>5 DEF Register, WorldTypes, CacheTypes,
       BroadcasterTypes
<1>7. CASE Unregister(c)
  <2>1. HandlerTypes' /\ RegistryTypes'
    BY <1>7 DEF Unregister, HandlerTypes, HandlerPc, RegistryTypes
  <2>2. QED
    BY <1>7, <2>1 DEF Unregister, WorldTypes, CacheTypes, BroadcasterTypes,
       SocketTypes, FrameTypes
<1>8. QED
  BY <1>1, <1>2, <1>3, <1>4, <1>5, <1>6, <1>7 DEF Handler

LEMMA BroadcasterActionTypes ==
  ASSUME TypeOK, Broadcaster
  PROVE  TypeOK'
<1> USE ConstantsAssumption
    DEF TypeOK, world, registry, broadcaster, handlers, sockets, frames
<1>1. CASE BroadcastReadLocal
  <2>1. [bFrame EXCEPT !.local = Observed] \in Frame
    BY ObservedFacts DEF BroadcasterTypes, Frame
  <2>2. BroadcasterTypes'
    BY <1>1, <2>1 DEF BroadcastReadLocal, BroadcasterTypes
  <2>3. CacheTypes'
    BY <1>1, ObservedFacts DEF BroadcastReadLocal
  <2>4. QED
    BY <1>1, <2>2, <2>3 DEF BroadcastReadLocal, WorldTypes, RegistryTypes,
       HandlerTypes, SocketTypes, FrameTypes
<1>2. CASE BroadcastReadRemote
  <2>1. [bFrame EXCEPT !.remote = remote] \in Frame
    BY DEF BroadcasterTypes, WorldTypes, Frame
  <2>2. BroadcasterTypes'
    BY <1>2, <2>1 DEF BroadcastReadRemote, BroadcasterTypes
  <2>3. QED
    BY <1>2, <2>2 DEF BroadcastReadRemote, WorldTypes, CacheTypes, RegistryTypes,
       HandlerTypes, SocketTypes, FrameTypes
<1>3. CASE BroadcastLock
  <2>1. RegistryTypes'
    BY <1>3, FrameFacts DEF BroadcastLock, RegistryTypes, BroadcasterTypes
  <2>2. BroadcasterTypes'
    BY <1>3 DEF BroadcastLock, Targets, BroadcasterTypes, RegistryTypes
  <2>3. QED
    BY <1>3, <2>1, <2>2 DEF BroadcastLock, WorldTypes, CacheTypes, HandlerTypes,
       SocketTypes, FrameTypes
<1>4. ASSUME NEW c \in Clients, BroadcastSend(c) PROVE TypeOK'
  <2>1. BroadcasterTypes'
    BY <1>4 DEF BroadcastSend, BroadcasterTypes
  <2>2. SocketTypes'
    BY <1>4, SendItemTypes, ItemFacts DEF BroadcastSend, BroadcasterTypes, SocketTypes
  <2>3. FrameTypes'
    BY <1>4 DEF BroadcastSend, BroadcasterTypes, FrameTypes
  <2>4. QED
    BY <1>4, <2>1, <2>2, <2>3 DEF BroadcastSend, WorldTypes, CacheTypes,
       RegistryTypes, HandlerTypes
<1>5. CASE BroadcastEnd
  <2>1. BroadcasterTypes' /\ RegistryTypes'
    BY <1>5 DEF BroadcastEnd, BroadcasterTypes, RegistryTypes
  <2>2. QED
    BY <1>5, <2>1 DEF BroadcastEnd, WorldTypes, CacheTypes, HandlerTypes,
       SocketTypes, FrameTypes
<1>6. QED
  BY <1>1, <1>2, <1>3, <1>4, <1>5 DEF Broadcaster

LEMMA TypeStep ==
  ASSUME TypeOK, [Next]_vars
  PROVE  TypeOK'
<1>1. CASE UNCHANGED vars
  BY <1>1 DEF vars, world, registry, broadcaster, handlers, sockets, frames,
     TypeOK, WorldTypes, CacheTypes, RegistryTypes, BroadcasterTypes,
     HandlerTypes, SocketTypes, FrameTypes
<1>2. QED
  BY <1>1, EnvironmentTypes, SenderTypes, HandlerActionTypes,
     BroadcasterActionTypes DEF Next

\* Type correctness: queues hold items, program counters stay in range, every
\* frame, offered or shown, was built from versions the world has had.
THEOREM TypeCorrect == Spec => []TypeOK
<1>1. Init => TypeOK
  BY FrameFacts, ConstantsAssumption DEF Init, TypeOK, WorldTypes, CacheTypes,
     RegistryTypes, BroadcasterTypes, HandlerTypes, SocketTypes, FrameTypes,
     HandlerPc
<1>2. QED
  BY <1>1, TypeStep, PTL DEF Spec

-----------------------------------------------------------------------------
(* The registry invariants                                                 *)

LEMMA EnvironmentRegistry ==
  ASSUME TypeOK, RegistryInv,
         \/ LocalChange \/ RemoteChange \/ CacheExpires
         \/ \E c \in Clients : Connect(c) \/ PeerLeaves(c)
  PROVE  RegistryInv'
<1> USE DEF RegistryInv, NoDeadRegistration, RoundConsistent,
        SettledClientsMatchHash, registry, broadcaster, handlers, sockets, frames
<1>1. CASE LocalChange \/ RemoteChange \/ CacheExpires
  BY <1>1 DEF LocalChange, RemoteChange, CacheExpires
<1>2. ASSUME NEW c \in Clients, Connect(c) PROVE RegistryInv'
  BY <1>2 DEF Connect, Goto, TypeOK, HandlerTypes, RegistryTypes, BroadcasterTypes
<1>3. ASSUME NEW c \in Clients, PeerLeaves(c) PROVE RegistryInv'
  BY <1>3 DEF PeerLeaves
<1>4. QED
  BY <1>1, <1>2, <1>3

LEMMA SenderRegistry ==
  ASSUME TypeOK, RegistryInv, NEW c \in Clients, Sender(c)
  PROVE  RegistryInv'
<1>1. UNCHANGED <<registry, broadcaster, hpc, offered>>
  BY DEF Sender, SenderDelivers, SenderFails, SenderStops, handlers, frames
<1>2. \A d \in Clients : closed[d] => closed'[d]
  BY DEF Sender, SenderDelivers, SenderFails, SenderStops, CloseClient, TypeOK, SocketTypes
<1>3. QED
  BY <1>1, <1>2 DEF RegistryInv, NoDeadRegistration, RoundConsistent,
     SettledClientsMatchHash, registry, broadcaster, TypeOK, RegistryTypes

LEMMA HandlerRegistry ==
  ASSUME TypeOK, RegistryInv, NEW c \in Clients, Handler(c)
  PROVE  RegistryInv'
<1> USE DEF RegistryInv, NoDeadRegistration, RoundConsistent,
        SettledClientsMatchHash, registry, broadcaster, handlers, sockets, frames,
        TypeOK, HandlerTypes, RegistryTypes, BroadcasterTypes, Goto
<1>1. CASE AuthAccepted(c) \/ AuthRejected(c) \/ AuthNoFrame(c)
  BY <1>1 DEF AuthAccepted, AuthRejected, AuthNoFrame
<1>2. CASE HandlerReadLocal(c) \/ HandlerReadRemote(c)
  BY <1>2 DEF HandlerReadLocal, HandlerReadRemote
<1>3. ASSUME RejectClose(c) \/ RecvEnds(c) \/ HandlerClose(c) PROVE RegistryInv'
  <2>1. \A d \in Clients : closed[d] => closed'[d]
    BY <1>3 DEF RejectClose, RecvEnds, HandlerClose, CloseClient, SocketTypes
  <2>2. UNCHANGED <<registry, broadcaster, offered>>
    BY <1>3 DEF RejectClose, RecvEnds, HandlerClose
  <2>3. hpc[c] \in {"reject", "recv", "closing"} /\ hpc' = [hpc EXCEPT ![c] =
          IF hpc[c] = "closing" THEN "done" ELSE "exit"]
    BY <1>3 DEF RejectClose, RecvEnds, HandlerClose
  <2>4. QED
    BY <2>1, <2>2, <2>3
<1>4. CASE Register(c)
  <2>1. c \notin clients /\ c \notin bTodo \union bDead
    BY <1>4 DEF Register
  <2>2. NoDeadRegistration'
    BY <1>4, <2>1 DEF Register
  <2>3. RoundConsistent'
    BY <1>4, <2>1 DEF Register
  <2>4. \A d \in Clients \ {c} :
          /\ hpc'[d] = hpc[d] /\ offered'[d] = offered[d]
          /\ d \in clients' \ pendingSync' => d \in clients \ pendingSync
    BY <1>4 DEF Register, FrameTypes
  <2>5. hpc'[c] # "recv" \/ c \in pendingSync'
    BY <1>4 DEF Register
  <2>6. SettledClientsMatchHash'
    BY <1>4, <2>4, <2>5, <2>2 DEF Register
  <2>7. QED
    BY <2>2, <2>3, <2>6
<1>5. CASE Unregister(c)
  BY <1>5 DEF Unregister
<1>6. QED
  BY <1>1, <1>2, <1>3, <1>4, <1>5 DEF Handler

LEMMA BroadcasterRegistry ==
  ASSUME TypeOK, RegistryInv, Broadcaster
  PROVE  RegistryInv'
<1> USE DEF RegistryInv, NoDeadRegistration, RoundConsistent,
        SettledClientsMatchHash, registry, broadcaster, handlers, sockets, frames,
        TypeOK, RegistryTypes, BroadcasterTypes
<1>1. CASE BroadcastReadLocal \/ BroadcastReadRemote
  BY <1>1 DEF BroadcastReadLocal, BroadcastReadRemote
<1>2. CASE BroadcastLock
  <2>1. NoDeadRegistration'
    BY <1>2 DEF BroadcastLock
  <2>2. bTodo = {} /\ bDead = {}
    BY <1>2 DEF BroadcastLock
  <2>3. bTodo' \subseteq clients /\ bDead' = {} /\ pendingSync' = {}
    BY <1>2 DEF BroadcastLock, Targets
  <2>4. bpc' # "send" => bTodo' = {}
    BY <1>2 DEF BroadcastLock, Targets
  <2>5. RoundConsistent'
    BY <1>2, <2>1, <2>3, <2>4 DEF BroadcastLock, HashOf
  <2>6. ASSUME NEW c \in clients, hpc[c] = "recv", ~closed[c], c \notin bTodo'
        PROVE  offered[c] # NoFrame /\ lastHash' = HashOf(offered[c])
    <3>1. HashOf(bFrame) = lastHash /\ c \notin pendingSync
      BY <1>2, <2>6 DEF BroadcastLock, Targets
    <3>2. QED
      BY <1>2, <2>6, <3>1, <2>2 DEF BroadcastLock
  <2>7. bTodo' # {} => bpc' = "send"
    BY <2>4, <1>2 DEF BroadcastLock
  <2>8. SettledClientsMatchHash'
    BY <1>2, <2>6, <2>7 DEF BroadcastLock, HashOf
  <2>9. QED
    BY <2>1, <2>5, <2>8
<1>3. ASSUME NEW c \in Clients, BroadcastSend(c) PROVE RegistryInv'
  <2>1. NoDeadRegistration'
    BY <1>3 DEF BroadcastSend
  <2>2. bTodo' \union bDead' \subseteq bTodo \union bDead
    BY <1>3 DEF BroadcastSend
  <2>3. RoundConsistent'
    BY <1>3, <2>2 DEF BroadcastSend, HashOf
  <2>4. \A d \in Clients \ {c} : offered'[d] = offered[d]
    BY <1>3 DEF BroadcastSend, FrameTypes
  <2>5. \/ closed[c]
        \/ offered'[c] = bFrame /\ bFrame # NoFrame
        \/ c \in bDead'
    BY <1>3, FrameFacts DEF BroadcastSend, FrameTypes
  <2>6. \A d \in Clients \ {c} : d \in bTodo \union bDead => d \in bTodo' \union bDead'
    BY <1>3 DEF BroadcastSend
  <2>7. SettledClientsMatchHash'
    BY <1>3, <2>4, <2>5, <2>6 DEF BroadcastSend, HashOf
  <2>8. QED
    BY <2>1, <2>3, <2>7
<1>4. CASE BroadcastEnd
  BY <1>4 DEF BroadcastEnd
<1>5. QED
  BY <1>1, <1>2, <1>3, <1>4 DEF Broadcaster

\* The strengthened invariant is inductive.
THEOREM RegistryInvariant == Spec => []RegistryInv
<1>1. Init => RegistryInv
  BY DEF Init, RegistryInv, NoDeadRegistration, RoundConsistent,
     SettledClientsMatchHash
<1>2. TypeOK /\ RegistryInv /\ [Next]_vars => RegistryInv'
  <2> SUFFICES ASSUME TypeOK, RegistryInv, [Next]_vars PROVE RegistryInv'
    OBVIOUS
  <2>1. CASE UNCHANGED vars
    BY <2>1 DEF vars, registry, broadcaster, handlers, sockets, frames,
       RegistryInv, NoDeadRegistration, RoundConsistent,
       SettledClientsMatchHash, HashOf
  <2>2. QED
    BY <2>1, EnvironmentRegistry, SenderRegistry, HandlerRegistry,
       BroadcasterRegistry DEF Next
<1>3. QED
  BY <1>1, <1>2, TypeCorrect, PTL DEF Spec

\* No client is left with a frame that differs from the state the broadcaster
\* believes everyone has: the pending set closes the race between a handler's
\* initial snapshot and its registration.
THEOREM SettledClientsAreCurrent == Spec => []SettledClientsMatchHash
<1>1. RegistryInv => SettledClientsMatchHash
  BY DEF RegistryInv
<1>2. QED
  BY <1>1, RegistryInvariant, PTL

\* An ended connection is never left in the registry nor put back into it.
THEOREM RegistryHoldsLiveConnections == Spec => []NoDeadRegistration
<1>1. RegistryInv => NoDeadRegistration
  BY DEF RegistryInv
<1>2. QED
  BY <1>1, RegistryInvariant, PTL

-----------------------------------------------------------------------------
(* The order of the frames                                                 *)

\* Only the world's own actions change the world, and the cache is only
\* aged or refreshed.
LEMMA WorldStep ==
  ASSUME [Next]_vars
  PROVE  \/ LocalChange \/ RemoteChange \/ CacheExpires
         \/ UNCHANGED world /\ cache' \in {cache, Refreshed}
<1>1. CASE Broadcaster
  BY <1>1 DEF Broadcaster, BroadcastReadLocal, BroadcastReadRemote,
     BroadcastLock, BroadcastSend, BroadcastEnd, world
<1>2. ASSUME NEW c \in Clients, Connect(c) \/ Sender(c) \/ PeerLeaves(c)
      PROVE  UNCHANGED world /\ cache' = cache
  BY <1>2 DEF Connect, Sender, SenderDelivers, SenderFails, SenderStops,
     PeerLeaves, world
<1>3. ASSUME NEW c \in Clients, Handler(c)
      PROVE  UNCHANGED world /\ cache' \in {cache, Refreshed}
  BY <1>3 DEF Handler, AuthAccepted, AuthRejected, RejectClose, AuthNoFrame,
     HandlerReadLocal, HandlerReadRemote, Register, RecvEnds, Unregister,
     HandlerClose, world
<1>4. QED
  BY <1>1, <1>2, <1>3 DEF Next, vars, world

\* What the provider would answer never gets older.
LEMMA ObservedMonotone ==
  ASSUME TypeOK, cache.fresh => cache.version <= local, [Next]_vars
  PROVE  /\ Observed' >= Observed
         /\ remote' >= remote
         /\ (cache.fresh => cache.version <= local)'
<1> USE DEF Observed, world
<1>1. /\ Observed \in Nat /\ local \in Nat /\ remote \in Nat
      /\ Observed <= local
  BY ObservedFacts, ConstantsAssumption DEF TypeOK, WorldTypes, CacheTypes
<1>2. CASE LocalChange \/ RemoteChange \/ CacheExpires
  <2>1. cache' = cache \/ cache' = [cache EXCEPT !.fresh = FALSE]
    BY <1>2 DEF LocalChange, RemoteChange, CacheExpires
  <2>2. cache'.fresh => cache' = cache
    BY <2>1 DEF TypeOK, CacheTypes
  <2>3. local' >= local /\ remote' >= remote
    BY <1>1, <1>2 DEF LocalChange, RemoteChange, CacheExpires
  <2>4. local' \in Nat
    BY <1>1, <1>2 DEF LocalChange, RemoteChange, CacheExpires
  <2>5. QED
    BY <1>1, <2>2, <2>3, <2>4
<1>3. CASE UNCHANGED world /\ cache' = cache
  BY <1>1, <1>3
<1>4. CASE UNCHANGED world /\ cache' = Refreshed
  <2>1. cache'.fresh = TRUE /\ cache'.version = Observed
    BY <1>4 DEF Refreshed
  <2>2. QED
    BY <1>1, <1>4, <2>1
<1>5. QED
  BY <1>2, <1>3, <1>4, WorldStep

\* Who may offer a frame, and which.
LEMMA OfferStep ==
  ASSUME TypeOK, [Next]_vars, NEW c \in Clients, offered'[c] # offered[c]
  PROVE  \/ /\ hpc[c] = "register" /\ offered'[c] = hFrame[c]
            /\ UNCHANGED bFrame
         \/ /\ BroadcastSend(c) /\ offered'[c] = bFrame
            /\ ~closed[c] /\ UNCHANGED bFrame
<1> USE DEF TypeOK, FrameTypes, frames
<1>1. CASE LocalChange \/ RemoteChange \/ CacheExpires \/ UNCHANGED vars
  BY <1>1 DEF LocalChange, RemoteChange, CacheExpires, vars
<1>2. CASE Broadcaster
  BY <1>2 DEF Broadcaster, BroadcastReadLocal, BroadcastReadRemote,
     BroadcastLock, BroadcastSend, BroadcastEnd
<1>3. ASSUME NEW d \in Clients, Connect(d) \/ Sender(d) \/ PeerLeaves(d)
      PROVE  offered' = offered
  BY <1>3 DEF Connect, Sender, SenderDelivers, SenderFails, SenderStops, PeerLeaves
<1>4. ASSUME NEW d \in Clients, Handler(d), ~Register(d)
      PROVE  offered' = offered
  BY <1>4 DEF Handler, AuthAccepted, AuthRejected, RejectClose, AuthNoFrame,
     HandlerReadLocal, HandlerReadRemote, RecvEnds, Unregister, HandlerClose
<1>5. ASSUME NEW d \in Clients, Register(d)
      PROVE  hpc[c] = "register" /\ offered'[c] = hFrame[c] /\ UNCHANGED bFrame
  BY <1>5 DEF Register, broadcaster
<1>6. QED
  BY <1>1, <1>2, <1>3, <1>4, <1>5 DEF Next

\* The frame of the running round and the frames of the handlers, step by step.
LEMMA FrameStep ==
  ASSUME TypeOK, [Next]_vars
  PROVE  /\ \/ bFrame' = bFrame
            \/ bFrame' = [bFrame EXCEPT !.local = Observed] /\ cache' = Refreshed
            \/ bFrame' = [bFrame EXCEPT !.remote = remote]
         /\ \A c \in Clients :
              \/ hpc'[c] \notin {"remote", "register"}
              \/ hpc[c] \in {"remote", "register"} /\ hFrame'[c] = hFrame[c]
              \/ hpc[c] = "remote" /\ hFrame'[c] = [hFrame[c] EXCEPT !.remote = remote]
              \/ hFrame'[c] = [local |-> Observed, remote |-> 0, src |-> "initial"]
<1> USE DEF TypeOK, HandlerTypes, broadcaster, handlers, Goto
<1>1. CASE LocalChange \/ RemoteChange \/ CacheExpires \/ UNCHANGED vars
  BY <1>1 DEF LocalChange, RemoteChange, CacheExpires, vars
<1>2. CASE Broadcaster
  BY <1>2 DEF Broadcaster, BroadcastReadLocal, BroadcastReadRemote,
     BroadcastLock, BroadcastSend, BroadcastEnd
<1>3. ASSUME NEW d \in Clients, Connect(d) \/ Sender(d) \/ PeerLeaves(d)
      PROVE  /\ bFrame' = bFrame /\ hFrame' = hFrame
             /\ \A c \in Clients : hpc'[c] \in {"remote", "register"} => hpc'[c] = hpc[c]
  BY <1>3 DEF Connect, Sender, SenderDelivers, SenderFails, SenderStops, PeerLeaves
<1>4. ASSUME NEW d \in Clients, AuthAccepted(d) \/ AuthRejected(d) \/ RejectClose(d)
               \/ AuthNoFrame(d) \/ Register(d) \/ RecvEnds(d) \/ Unregister(d)
               \/ HandlerClose(d)
      PROVE  /\ bFrame' = bFrame /\ hFrame' = hFrame
             /\ \A c \in Clients : hpc'[c] \in {"remote", "register"} => hpc'[c] = hpc[c]
  BY <1>4 DEF AuthAccepted, AuthRejected, RejectClose, AuthNoFrame, Register,
     RecvEnds, Unregister, HandlerClose
<1>5. ASSUME NEW d \in Clients, HandlerReadLocal(d) \/ HandlerReadRemote(d)
      PROVE  /\ bFrame' = bFrame
             /\ \A c \in Clients \ {d} : hpc'[c] = hpc[c] /\ hFrame'[c] = hFrame[c]
             /\ \/ hFrame'[d] = [local |-> Observed, remote |-> 0, src |-> "initial"]
                \/ hpc[d] = "remote" /\ hFrame'[d] = [hFrame[d] EXCEPT !.remote = remote]
  BY <1>5 DEF HandlerReadLocal, HandlerReadRemote
<1>6. QED
  BY <1>1, <1>2, <1>3, <1>4, <1>5 DEF Next, Handler

\* Nothing anyone holds is newer than what the broadcast thread reads next.
THEOREM ViewsAreInOrder == Spec => []ViewsInOrder
<1>1. Init => ViewsInOrder
  BY ConstantsAssumption DEF Init, ViewsInOrder, BlankFrame, Observed
<1>2. TypeOK /\ ViewsInOrder /\ [Next]_vars => ViewsInOrder'
  <2> SUFFICES ASSUME TypeOK, ViewsInOrder, [Next]_vars PROVE ViewsInOrder'
    OBVIOUS
  <2>1. /\ Observed' >= Observed /\ remote' >= remote
        /\ (cache.fresh => cache.version <= local)'
    BY ObservedMonotone DEF ViewsInOrder
  <2>2. /\ Observed \in Nat /\ remote \in Nat
        /\ bFrame \in Frame /\ bFrame.local \in Nat /\ bFrame.remote \in Nat
    BY ObservedFacts, ConstantsAssumption DEF TypeOK, WorldTypes, BroadcasterTypes, Frame
  <2>3. TypeOK'
    BY TypeStep
  <2>4. Observed' \in Nat /\ remote' \in Nat
    <3>1. (WorldTypes /\ CacheTypes)'
      BY <2>3 DEF TypeOK
    <3>2. QED
      BY <3>1, ConstantsAssumption DEF WorldTypes, CacheTypes, Observed
  <2>5. /\ bFrame'.src = "broadcast"
        /\ bFrame'.local \in Nat /\ bFrame'.remote \in Nat
        /\ bFrame'.local <= Observed /\ bFrame'.remote <= remote
        /\ bFrame'.local >= bFrame.local /\ bFrame'.remote >= bFrame.remote
    BY <2>2, FrameStep DEF ViewsInOrder, Frame
  <2>6. ASSUME NEW c \in Clients, hpc'[c] \in {"remote", "register"}
        PROVE  hFrame'[c].src = "initial"
    <3>1. hFrame[c] \in Frame
      BY DEF TypeOK, HandlerTypes
    <3>2. [hFrame[c] EXCEPT !.remote = remote].src = hFrame[c].src
      BY <3>1 DEF Frame
    <3>3. \/ hpc[c] \in {"remote", "register"} /\ hFrame'[c] = hFrame[c]
          \/ hpc[c] = "remote" /\ hFrame'[c] = [hFrame[c] EXCEPT !.remote = remote]
          \/ hFrame'[c] = [local |-> Observed, remote |-> 0, src |-> "initial"]
      BY <2>6, FrameStep
    <3>4. CASE hpc[c] \in {"remote", "register"} /\ hFrame'[c] = hFrame[c]
      BY <3>4 DEF ViewsInOrder
    <3>5. CASE hpc[c] = "remote" /\ hFrame'[c] = [hFrame[c] EXCEPT !.remote = remote]
      BY <3>2, <3>5 DEF ViewsInOrder
    <3>6. CASE hFrame'[c] = [local |-> Observed, remote |-> 0, src |-> "initial"]
      BY <3>6
    <3>7. QED
      BY <3>3, <3>4, <3>5, <3>6
  <2>7. ASSUME NEW c \in Clients, offered'[c] # NoFrame, offered'[c].src # "initial"
        PROVE  /\ offered'[c].local <= bFrame'.local
               /\ offered'[c].remote <= bFrame'.remote
    <3>1. CASE offered'[c] = offered[c]
      <4>1. offered[c] \in Frame /\ offered[c].local \in Nat /\ offered[c].remote \in Nat
        BY <2>7, <3>1, ConstantsAssumption DEF TypeOK, FrameTypes, Frame
      <4>2. QED
        BY <2>2, <2>5, <2>7, <3>1, <4>1 DEF ViewsInOrder
    <3>2. CASE offered'[c] # offered[c]
      BY <2>2, <2>7, <3>2, OfferStep DEF ViewsInOrder
    <3>3. QED
      BY <3>1, <3>2
  <2>8. QED
    BY <2>1, <2>2, <2>4, <2>5, <2>6, <2>7 DEF ViewsInOrder
<1>3. QED
  BY <1>1, <1>2, TypeCorrect, PTL DEF Spec

\* Closing and offering are never undone, and only a handler's own
\* registration makes a client reachable for a round.
LEMMA ReachStep ==
  ASSUME TypeOK, RegistryInv, ReachedAfterInitial, [Next]_vars
  PROVE  ReachedAfterInitial'
<1> USE DEF ReachedAfterInitial, broadcaster, handlers, sockets, frames,
        registry, Goto
<1>1. CASE LocalChange \/ RemoteChange \/ CacheExpires \/ UNCHANGED vars
  BY <1>1 DEF LocalChange, RemoteChange, CacheExpires, vars
<1>2. ASSUME NEW c \in Clients, Connect(c) \/ Sender(c) \/ PeerLeaves(c)
      PROVE  ReachedAfterInitial'
  <2>1. \A d \in Clients : closed[d] => closed'[d]
    BY <1>2 DEF Connect, Sender, SenderDelivers, SenderFails, SenderStops,
       PeerLeaves, CloseClient, TypeOK, SocketTypes
  <2>2. UNCHANGED <<registry, bTodo, hFrame, offered>>
    BY <1>2 DEF Connect, Sender, SenderDelivers, SenderFails, SenderStops, PeerLeaves
  <2>3. \A d \in Clients :
          \/ hpc'[d] = hpc[d]
          \/ hpc[d] = "new" /\ hpc'[d] \in {"auth", "local"}
    BY <1>2 DEF Connect, Sender, SenderDelivers, SenderFails, SenderStops,
       PeerLeaves, TypeOK, HandlerTypes
  <2>4. QED
    BY <2>1, <2>2, <2>3 DEF TypeOK, RegistryTypes, BroadcasterTypes
<1>3. ASSUME NEW c \in Clients, Handler(c), ~Register(c)
      PROVE  ReachedAfterInitial'
  <2>1. \A d \in Clients : closed[d] => closed'[d]
    BY <1>3 DEF Handler, AuthAccepted, AuthRejected, RejectClose, AuthNoFrame,
       HandlerReadLocal, HandlerReadRemote, RecvEnds, Unregister, HandlerClose,
       CloseClient, TypeOK, SocketTypes
  <2>2. clients' \subseteq clients /\ bTodo' = bTodo /\ offered' = offered
    BY <1>3 DEF Handler, AuthAccepted, AuthRejected, RejectClose, AuthNoFrame,
       HandlerReadLocal, HandlerReadRemote, RecvEnds, Unregister, HandlerClose
  <2>3. \A d \in Clients \ {c} : hpc'[d] = hpc[d] /\ hFrame'[d] = hFrame[d]
    BY <1>3 DEF Handler, AuthAccepted, AuthRejected, RejectClose, AuthNoFrame,
       HandlerReadLocal, HandlerReadRemote, RecvEnds, Unregister, HandlerClose,
       TypeOK, HandlerTypes
  <2>4. CASE hpc[c] \in {"auth", "reject", "local", "remote"}
    <3>1. c \notin clients \union bTodo
      BY <2>4 DEF RegistryInv, NoDeadRegistration, RoundConsistent
    <3>2. hpc'[c] \in {"reject", "local", "remote", "register", "exit"}
      BY <1>3, <2>4 DEF Handler, AuthAccepted, AuthRejected, RejectClose,
         AuthNoFrame, HandlerReadLocal, HandlerReadRemote, RecvEnds,
         Unregister, HandlerClose, TypeOK, HandlerTypes
    <3>3. hpc[c] = "reject" => hpc'[c] = "exit"
      BY <1>3 DEF Handler, AuthAccepted, AuthRejected, RejectClose,
         AuthNoFrame, HandlerReadLocal, HandlerReadRemote, RecvEnds,
         Unregister, HandlerClose, TypeOK, HandlerTypes
    <3>4. QED
      BY <2>1, <2>2, <2>3, <2>4, <3>1, <3>2, <3>3
         DEF TypeOK, RegistryTypes, BroadcasterTypes
  <2>5. CASE hpc[c] \in {"recv", "exit", "closing"}
    <3>1. /\ hpc'[c] \in {"exit", "closing", "done"} /\ hFrame'[c] = hFrame[c]
          /\ hpc[c] = "recv" => closed'[c]
          /\ hpc'[c] = "done" => closed'[c]
      BY <1>3, <2>5 DEF Handler, AuthAccepted, AuthRejected, RejectClose,
         AuthNoFrame, HandlerReadLocal, HandlerReadRemote, RecvEnds,
         Unregister, HandlerClose, CloseClient, TypeOK, HandlerTypes, SocketTypes
    <3>2. QED
      BY <2>1, <2>2, <2>3, <2>5, <3>1 DEF TypeOK, RegistryTypes, BroadcasterTypes
  <2>6. QED
    BY <1>3, <2>4, <2>5 DEF Handler, AuthAccepted, AuthRejected, RejectClose,
       AuthNoFrame, HandlerReadLocal, HandlerReadRemote, Register, RecvEnds,
       Unregister, HandlerClose
<1>4. ASSUME NEW c \in Clients, Register(c) PROVE ReachedAfterInitial'
  <2>1. hFrame[c] # NoFrame
    BY FrameFacts DEF TypeOK, HandlerTypes
  <2>2. /\ hpc'[c] \in {"recv", "exit"}
        /\ \/ closed[c]
           \/ offered'[c] # NoFrame
           \/ hpc'[c] = "exit" /\ ~Encodable(hFrame[c].local)
    BY <1>4, <2>1 DEF Register, TypeOK, HandlerTypes, FrameTypes
  <2>3. \A d \in Clients \ {c} : hpc'[d] = hpc[d] /\ offered'[d] = offered[d]
    BY <1>4 DEF Register, TypeOK, HandlerTypes, FrameTypes
  <2>4. UNCHANGED <<closed, hFrame, bTodo>> /\ clients' = clients \union {c}
    BY <1>4 DEF Register
  <2>5. QED
    BY <2>2, <2>3, <2>4 DEF TypeOK, RegistryTypes, BroadcasterTypes
<1>5. ASSUME NEW c \in Clients, BroadcastSend(c) PROVE ReachedAfterInitial'
  <2>1. hpc[c] \in {"recv", "exit", "closing", "done"}
    BY <1>5 DEF BroadcastSend, RegistryInv, RoundConsistent
  <2>2. offered'[c] = offered[c] \/ offered'[c] # NoFrame
    BY <1>5, FrameFacts DEF BroadcastSend, TypeOK, BroadcasterTypes, FrameTypes
  <2>3. \A d \in Clients \ {c} : offered'[d] = offered[d]
    BY <1>5 DEF BroadcastSend, TypeOK, FrameTypes
  <2>4. UNCHANGED <<closed, hpc, hFrame, clients>> /\ bTodo' \subseteq bTodo
    BY <1>5 DEF BroadcastSend
  <2>5. QED
    BY <2>1, <2>2, <2>3, <2>4 DEF TypeOK, RegistryTypes, BroadcasterTypes
<1>6. CASE BroadcastReadLocal \/ BroadcastReadRemote \/ BroadcastLock \/ BroadcastEnd
  BY <1>6 DEF BroadcastReadLocal, BroadcastReadRemote, BroadcastLock, Targets,
     BroadcastEnd
<1>7. QED
  BY <1>1, <1>2, <1>3, <1>4, <1>5, <1>6 DEF Next, Broadcaster

\* A connection is reached by a broadcast only after its initial frame was queued.
THEOREM ReachedAreInitialised == Spec => []ReachedAfterInitial
<1>1. Init => ReachedAfterInitial
  BY DEF Init, ReachedAfterInitial
<1>2. QED
  BY <1>1, ReachStep, TypeCorrect, RegistryInvariant, PTL DEF Spec

\* No broadcast overtakes a connection's initial frame, and none reaches a
\* connection that has not passed authentication.
THEOREM InitialFrameComesFirst == Spec => InitialFrameFirst
<1> DEFINE Step ==
      \A c \in Clients :
        offered[c] = NoFrame /\ offered'[c] # NoFrame
          => \/ hpc[c] = "register" /\ offered'[c].src = "initial"
             \/ hpc[c] \in {"exit", "closing"} /\ ~Encodable(hFrame[c].local)
<1>1. ASSUME TypeOK, RegistryInv, ReachedAfterInitial, ViewsInOrder, [Next]_vars
      PROVE  [Step]_vars
  <2> SUFFICES ASSUME NEW c \in Clients, offered[c] = NoFrame, offered'[c] # NoFrame
               PROVE  \/ hpc[c] = "register" /\ offered'[c].src = "initial"
                      \/ hpc[c] \in {"exit", "closing"} /\ ~Encodable(hFrame[c].local)
    OBVIOUS
  <2>1. CASE hpc[c] = "register" /\ offered'[c] = hFrame[c]
    BY <1>1, <2>1 DEF ViewsInOrder
  <2>2. CASE BroadcastSend(c) /\ ~closed[c]
    <3>1. c \in bTodo
      BY <2>2 DEF BroadcastSend
    <3>2. QED
      BY <1>1, <2>2, <3>1 DEF ReachedAfterInitial
  <2>3. QED
    BY <1>1, <2>1, <2>2, OfferStep
<1>2. QED
  BY <1>1, TypeCorrect, RegistryInvariant, ReachedAreInitialised,
     ViewsAreInOrder, PTL DEF Spec, InitialFrameFirst

\* From the first broadcast on a client is never offered an older view: one
\* broadcast thread, reading a cache that never goes back, keeps the order.
THEOREM NoClientGoesBack == Spec => BroadcastsNeverGoBack
<1> DEFINE Step ==
      \A c \in Clients :
        offered[c] # NoFrame /\ offered'[c] # offered[c]
          => \/ offered[c].src = "initial"
             \/ /\ offered'[c].local >= offered[c].local
                /\ offered'[c].remote >= offered[c].remote
<1>1. ASSUME TypeOK, ViewsInOrder, ReachedAfterInitial, [Next]_vars
      PROVE  [Step]_vars
  <2> SUFFICES ASSUME NEW c \in Clients, offered[c] # NoFrame,
                      offered'[c] # offered[c], offered[c].src # "initial"
               PROVE  /\ offered'[c].local >= offered[c].local
                      /\ offered'[c].remote >= offered[c].remote
    OBVIOUS
  <2>1. offered[c].local <= bFrame.local /\ offered[c].remote <= bFrame.remote
    BY <1>1 DEF ViewsInOrder
  <2>2. /\ offered[c].local \in Nat /\ offered[c].remote \in Nat
        /\ bFrame.local \in Nat /\ bFrame.remote \in Nat
    BY <1>1, ConstantsAssumption DEF TypeOK, FrameTypes, BroadcasterTypes, Frame
  <2>3. CASE offered'[c] = bFrame
    BY <2>1, <2>2, <2>3
  <2>4. CASE hpc[c] = "register"
    BY <1>1, <2>4 DEF ReachedAfterInitial
  <2>5. QED
    BY <1>1, <2>3, <2>4, OfferStep
<1>2. QED
  BY <1>1, TypeCorrect, ViewsAreInOrder, ReachedAreInitialised, PTL
     DEF Spec, BroadcastsNeverGoBack

-----------------------------------------------------------------------------
(* Every step is one of StatusBoard                                        *)

\* A frame that shows what the world has been.
Past(f) == f.local <= local /\ f.remote <= remote

QueuePast(c) ==
  \A i \in 1 .. Len(queue[c]) : queue[c][i].kind = "state" => Past(queue[c][i].frame)

\* Whatever is read, on its way or shown is of the past, not of the future.
FramesArePast ==
  /\ cache.fresh => cache.version <= local
  /\ Past(bFrame)
  /\ \A c \in Clients : Past(hFrame[c]) /\ QueuePast(c)

\* Where the items of a queue come from.
LEMMA QueueStep ==
  ASSUME TypeOK, [Next]_vars, NEW c \in Clients, NEW i \in 1 .. Len(queue'[c]),
         queue'[c][i].kind = "state"
  PROVE  \/ \E j \in 1 .. Len(queue[c]) : queue'[c][i] = queue[c][j]
         \/ queue'[c][i] \in {StateItem(hFrame[c]), StateItem(bFrame)}
<1> DEFINE Kept == \/ queue'[c] = queue[c]
                   \/ queue[c] # <<>> /\ queue'[c] = Tail(queue[c])
           Added(item) == queue'[c] = Append(queue[c], item)
<1>0. queue[c] \in Seq(Item) /\ queue \in [Clients -> Seq(Item)]
  BY DEF TypeOK, SocketTypes
<1>1. \/ Kept
      \/ \E item \in {AuthItem, Nil, StateItem(hFrame[c]), StateItem(bFrame)} : Added(item)
  <2> USE DEF sockets, CloseClient, SendItem
  <2>1. CASE LocalChange \/ RemoteChange \/ CacheExpires \/ UNCHANGED vars
    BY <2>1 DEF LocalChange, RemoteChange, CacheExpires, vars
  <2>2. CASE Broadcaster
    BY <1>0, <2>2 DEF Broadcaster, BroadcastReadLocal, BroadcastReadRemote,
       BroadcastLock, BroadcastSend, BroadcastEnd
  <2>3. ASSUME NEW d \in Clients, Connect(d) \/ PeerLeaves(d) \/ Sender(d)
        PROVE  Kept \/ Added(Nil)
    BY <1>0, <2>3 DEF Connect, PeerLeaves, Sender, SenderDelivers, SenderFails, SenderStops
  <2>4. ASSUME NEW d \in Clients, Handler(d), ~Register(d)
        PROVE  Kept \/ Added(Nil) \/ Added(AuthItem)
    BY <1>0, <2>4 DEF Handler, AuthAccepted, AuthRejected, RejectClose, AuthNoFrame,
       HandlerReadLocal, HandlerReadRemote, RecvEnds, Unregister, HandlerClose
  <2>5. ASSUME NEW d \in Clients, Register(d)
        PROVE  Kept \/ Added(StateItem(hFrame[c]))
    BY <1>0, <2>5 DEF Register
  <2>6. QED
    BY <2>1, <2>2, <2>3, <2>4, <2>5 DEF Next
<1>2. CASE Kept
  <2>1. CASE queue'[c] = queue[c]
    BY <2>1
  <2>2. CASE queue[c] # <<>> /\ queue'[c] = Tail(queue[c])
    <3>1. i + 1 \in 1 .. Len(queue[c]) /\ queue'[c][i] = queue[c][i + 1]
      BY <1>0, <2>2, HeadTailProperties
    <3>2. QED
      BY <3>1
  <2>3. QED
    BY <1>2, <2>1, <2>2
<1>3. ASSUME NEW item \in {AuthItem, Nil, StateItem(hFrame[c]), StateItem(bFrame)}, Added(item)
      PROVE  \/ \E j \in 1 .. Len(queue[c]) : queue'[c][i] = queue[c][j]
             \/ queue'[c][i] = item
  <2>1. item \in Item
    BY ItemFacts DEF TypeOK, HandlerTypes, BroadcasterTypes
  <2>2. QED
    BY <1>0, <1>3, <2>1, AppendProperties
<1>4. QED
  BY <1>1, <1>2, <1>3 DEF AuthItem, Nil

\* The world only grows, and frames of the past stay frames of the past.
LEMMA PastStep ==
  ASSUME TypeOK, [Next]_vars, NEW f, f.local \in Nat, f.remote \in Nat
  PROVE  /\ local' >= local /\ remote' >= remote
         /\ Past(f) => f.local <= local' /\ f.remote <= remote'
<1>1. local \in Nat /\ remote \in Nat
  BY ConstantsAssumption DEF TypeOK, WorldTypes
<1>2. /\ local' \in {local, local + 1} /\ remote' \in {remote, remote + 1}
  BY WorldStep DEF LocalChange, RemoteChange, CacheExpires, world
<1>3. QED
  BY <1>1, <1>2 DEF Past

\* The handlers' frames of all connections, as FrameStep tells it of those
\* that are about to register.
LEMMA HandlerFrameStep ==
  ASSUME TypeOK, [Next]_vars, NEW c \in Clients
  PROVE  \/ hFrame'[c] = hFrame[c]
         \/ hFrame'[c] = [hFrame[c] EXCEPT !.remote = remote]
         \/ hFrame'[c] = [local |-> Observed, remote |-> 0, src |-> "initial"]
<1> USE DEF TypeOK, HandlerTypes, handlers
<1>1. CASE LocalChange \/ RemoteChange \/ CacheExpires \/ UNCHANGED vars
  BY <1>1 DEF LocalChange, RemoteChange, CacheExpires, vars
<1>2. CASE Broadcaster
  BY <1>2 DEF Broadcaster, BroadcastReadLocal, BroadcastReadRemote,
     BroadcastLock, BroadcastSend, BroadcastEnd
<1>3. ASSUME NEW d \in Clients, Connect(d) \/ Sender(d) \/ PeerLeaves(d)
      PROVE  hFrame' = hFrame
  BY <1>3 DEF Connect, Sender, SenderDelivers, SenderFails, SenderStops, PeerLeaves
<1>4. ASSUME NEW d \in Clients, Handler(d)
      PROVE  \/ hFrame' = hFrame
             \/ hFrame' = [hFrame EXCEPT ![d].remote = remote]
             \/ hFrame' = [hFrame EXCEPT ![d] =
                             [local |-> Observed, remote |-> 0, src |-> "initial"]]
  BY <1>4 DEF Handler, AuthAccepted, AuthRejected, RejectClose, AuthNoFrame,
     HandlerReadLocal, HandlerReadRemote, Register, RecvEnds, Unregister, HandlerClose
<1>5. QED
  BY <1>1, <1>2, <1>3, <1>4 DEF Next

LEMMA PastInvariant == Spec => []FramesArePast
<1>1. Init => FramesArePast
  BY DEF Init, FramesArePast, QueuePast, Past, BlankFrame
<1>2. TypeOK /\ FramesArePast /\ [Next]_vars => FramesArePast'
  <2> SUFFICES ASSUME TypeOK, FramesArePast, [Next]_vars PROVE FramesArePast'
    OBVIOUS
  <2>1. /\ local \in Nat /\ remote \in Nat /\ Observed \in Nat /\ Observed <= local
        /\ bFrame \in Frame /\ \A c \in Clients : hFrame[c] \in Frame
    BY ObservedFacts, ConstantsAssumption
       DEF TypeOK, WorldTypes, CacheTypes, BroadcasterTypes, HandlerTypes, FramesArePast, Observed
  <2>2. ASSUME NEW f \in Frame PROVE f.local \in Nat /\ f.remote \in Nat
    BY <2>2, ConstantsAssumption DEF Frame
  <2>3. ASSUME NEW f \in Frame, Past(f)
        PROVE  f.local <= local' /\ f.remote <= remote'
    BY <2>2, <2>3, PastStep
  <2>4. (cache.fresh => cache.version <= local)'
    BY ObservedMonotone DEF FramesArePast
  <2>5. LET read == [local |-> Observed, remote |-> 0, src |-> "initial"]
        IN  read \in Frame /\ Past(read)
    BY <2>1, ObservedFacts, ConstantsAssumption DEF TypeOK, Frame, Past
  <2>6. ASSUME NEW f \in Frame, Past(f)
        PROVE  /\ [f EXCEPT !.local = Observed] \in Frame /\ Past([f EXCEPT !.local = Observed])
               /\ [f EXCEPT !.remote = remote] \in Frame /\ Past([f EXCEPT !.remote = remote])
    BY <2>1, <2>6, ObservedFacts DEF TypeOK, WorldTypes, Frame, Past
  <2>7. bFrame'.local <= local' /\ bFrame'.remote <= remote'
    <3>1. \/ bFrame' = bFrame
          \/ bFrame' = [bFrame EXCEPT !.local = Observed]
          \/ bFrame' = [bFrame EXCEPT !.remote = remote]
      BY FrameStep
    <3>2. Past(bFrame)
      BY DEF FramesArePast
    <3>3. QED
      BY <2>1, <2>3, <2>6, <3>1, <3>2
  <2>8. ASSUME NEW c \in Clients PROVE hFrame'[c].local <= local' /\ hFrame'[c].remote <= remote'
    <3>1. hFrame[c] \in Frame /\ Past(hFrame[c])
      BY <2>1 DEF FramesArePast
    <3>2. QED
      BY <2>3, <2>5, <2>6, <3>1, HandlerFrameStep
  <2>9. ASSUME NEW c \in Clients, NEW i \in 1 .. Len(queue'[c]), queue'[c][i].kind = "state"
        PROVE  /\ queue'[c][i].frame.local <= local'
               /\ queue'[c][i].frame.remote <= remote'
    <3>1. CASE \E j \in 1 .. Len(queue[c]) : queue'[c][i] = queue[c][j]
      <4>1. PICK j \in 1 .. Len(queue[c]) : queue'[c][i] = queue[c][j]
        BY <3>1
      <4>2. queue[c][j] \in Item /\ queue[c][j].kind = "state"
        BY <2>9, <4>1 DEF TypeOK, SocketTypes
      <4>3. queue[c][j].frame \in Frame /\ Past(queue[c][j].frame)
        BY <4>1, <4>2, ItemFacts DEF FramesArePast, QueuePast
      <4>4. QED
        BY <2>3, <4>1, <4>3
    <3>2. CASE queue'[c][i] \in {StateItem(hFrame[c]), StateItem(bFrame)}
      <4>1. queue'[c][i].frame \in Frame /\ Past(queue'[c][i].frame)
        BY <2>1, <3>2 DEF StateItem, FramesArePast
      <4>2. QED
        BY <2>3, <4>1
    <3>3. QED
      BY <2>9, <3>1, <3>2, QueueStep
  <2>10. QED
    BY <2>4, <2>7, <2>8, <2>9 DEF FramesArePast, QueuePast, Past
<1>3. QED
  BY <1>1, <1>2, TypeCorrect, PTL DEF Spec

\* Only a handler that registers, a peer that leaves and the end of a round
\* change who is watching.
LEMMA AudienceStep ==
  ASSUME TypeOK, [Next]_vars
  PROVE  \/ \A c \in Clients : Watching(c)' = Watching(c)
         \/ \E c \in Clients :
              \/ Register(c)
              \/ PeerLeaves(c)
         \/ BroadcastEnd
<1> USE DEF TypeOK, HandlerTypes, SocketTypes, Watching, handlers, sockets, registry, Goto
<1>1. CASE LocalChange \/ RemoteChange \/ CacheExpires \/ UNCHANGED vars
  BY <1>1 DEF LocalChange, RemoteChange, CacheExpires, vars
<1>2. CASE Broadcaster /\ ~BroadcastEnd
  BY <1>2 DEF Broadcaster, BroadcastReadLocal, BroadcastReadRemote,
     BroadcastLock, BroadcastSend
<1>3. ASSUME NEW d \in Clients, Connect(d) \/ Sender(d)
      PROVE  \A c \in Clients : Watching(c)' = Watching(c)
  BY <1>3 DEF Connect, Sender, SenderDelivers, SenderFails, SenderStops
<1>4. ASSUME NEW d \in Clients, Handler(d), ~Register(d)
      PROVE  \A c \in Clients : Watching(c)' = Watching(c)
  BY <1>4 DEF Handler, AuthAccepted, AuthRejected, RejectClose, AuthNoFrame,
     HandlerReadLocal, HandlerReadRemote, RecvEnds, Unregister, HandlerClose
<1>5. QED
  BY <1>1, <1>2, <1>3, <1>4 DEF Next

\* Only a send thread that delivers a state frame changes what is seen.
LEMMA SeenStep ==
  ASSUME [Next]_vars
  PROVE  \/ seen' = seen
         \/ \E c \in Clients :
              /\ SenderDelivers(c)
              /\ Head(queue[c]).kind = "state"
              /\ seen' = [seen EXCEPT ![c] = Head(queue[c]).frame]
<1> USE DEF frames
<1>1. CASE LocalChange \/ RemoteChange \/ CacheExpires \/ UNCHANGED vars
  BY <1>1 DEF LocalChange, RemoteChange, CacheExpires, vars
<1>2. CASE Broadcaster
  BY <1>2 DEF Broadcaster, BroadcastReadLocal, BroadcastReadRemote,
     BroadcastLock, BroadcastSend, BroadcastEnd
<1>3. ASSUME NEW d \in Clients, Connect(d) \/ PeerLeaves(d) \/ Handler(d)
             \/ SenderFails(d) \/ SenderStops(d)
      PROVE  seen' = seen
  BY <1>3 DEF Connect, PeerLeaves, Handler, AuthAccepted, AuthRejected, RejectClose,
     AuthNoFrame, HandlerReadLocal, HandlerReadRemote, Register, RecvEnds,
     Unregister, HandlerClose, SenderFails, SenderStops
<1>4. ASSUME NEW d \in Clients, SenderDelivers(d)
      PROVE  \/ seen' = seen
             \/ /\ Head(queue[d]).kind = "state"
                /\ seen' = [seen EXCEPT ![d] = Head(queue[d]).frame]
  BY <1>4 DEF SenderDelivers
<1>5. QED
  BY <1>1, <1>2, <1>3, <1>4 DEF Next, Sender

\* A step of the threads is a step of the board, or none.
LEMMA BoardStep ==
  ASSUME TypeOK, FramesArePast, [Next]_vars
  PROVE  [Board!Next]_(Board!vars)
<1> DEFINE audience == {c \in Clients : Watching(c)}
           views == [c \in Clients |-> View(seen[c])]
           boardWatching == UNCHANGED audience
           boardView == UNCHANGED views
<1>1. CASE LocalChange \/ RemoteChange
  <2>1. Board!Change
    BY <1>1 DEF LocalChange, RemoteChange, handlers, sockets, registry, frames,
       Board!Change, Watching
  <2>2. QED
    BY <2>1 DEF Board!Next
<1>2. CASE \E c \in Clients : SenderDelivers(c) /\ seen' # seen
  <2>1. PICK c \in Clients : SenderDelivers(c) /\ seen' # seen
    BY <1>2
  <2> DEFINE f == Head(queue[c]).frame
  <2>2. /\ Head(queue[c]).kind = "state"
        /\ seen' = [seen EXCEPT ![c] = f]
        /\ queue[c] # <<>>
    BY <2>1 DEF SenderDelivers
  <2>3. Head(queue[c]) = queue[c][1] /\ 1 \in 1 .. Len(queue[c]) /\ queue[c][1] \in Item
    BY <2>2, EmptySeq, LenProperties DEF TypeOK, SocketTypes
  <2>4. f \in Frame /\ Past(f)
    BY <2>2, <2>3, ItemFacts DEF FramesArePast, QueuePast
  <2>5. f.local \in 0 .. MaxLocal /\ f.remote \in 0 .. MaxRemote /\ View(f) = <<f.local, f.remote>>
    BY <2>4, FrameFacts DEF Frame, View
  <2>6. UNCHANGED <<local, remote>> /\ UNCHANGED audience
    BY <2>1 DEF SenderDelivers, world, registry, handlers, Watching
  <2>7. views' = [views EXCEPT ![c] = <<f.local, f.remote>>]
    BY <2>2, <2>5 DEF TypeOK, FrameTypes
  <2>8. Board!Show(c, f.local, f.remote)
    BY <2>4, <2>6, <2>7 DEF Board!Show, Past
  <2>9. QED
    BY <2>5, <2>8 DEF Board!Next
<1>3. CASE UNCHANGED <<local, remote, seen>>
  <2>1. UNCHANGED <<local, remote, views>>
    BY <1>3
  <2>2. CASE \E c \in Clients : Register(c)
    <3>1. PICK c \in Clients : Register(c)
      BY <2>2
    <3>2. /\ ~Watching(c)
          /\ \A d \in Clients \ {c} : Watching(d)' = Watching(d)
      BY <3>1 DEF Register, Watching, Goto, TypeOK, HandlerTypes, RegistryTypes
    <3>3. audience' \in {audience, audience \union {c}} /\ c \notin audience
      BY <3>2
    <3>4. Board!Join(c) \/ UNCHANGED Board!vars
      BY <2>1, <3>3 DEF Board!Join, Board!vars
    <3>5. QED
      BY <3>4 DEF Board!Next
  <2>3. CASE BroadcastEnd \/ \E c \in Clients : PeerLeaves(c)
    <3>1. audience' \subseteq audience
      <4>1. CASE BroadcastEnd
        BY <4>1 DEF BroadcastEnd, Watching, handlers, sockets
      <4>2. ASSUME NEW c \in Clients, PeerLeaves(c) PROVE audience' \subseteq audience
        BY <4>2 DEF PeerLeaves, Watching, handlers, registry, TypeOK, SocketTypes
      <4>3. QED
        BY <2>3, <4>1, <4>2
    <3> DEFINE gone == audience \ audience'
    <3>2. audience' = audience \ gone /\ gone \subseteq audience /\ gone \in SUBSET Clients
      BY <3>1
    <3>3. CASE gone = {}
      BY <2>1, <3>2, <3>3 DEF Board!vars
    <3>4. CASE gone # {}
      <4>1. Board!Leave(gone)
        BY <2>1, <3>2, <3>4 DEF Board!Leave
      <4>2. QED
        BY <3>2, <4>1 DEF Board!Next
    <3>5. QED
      BY <3>3, <3>4
  <2>4. CASE \A c \in Clients : Watching(c)' = Watching(c)
    <3>1. UNCHANGED audience
      BY <2>4
    <3>2. QED
      BY <2>1, <3>1 DEF Board!vars
  <2>5. QED
    BY <2>2, <2>3, <2>4, AudienceStep
<1>4. QED
  BY <1>1, <1>2, <1>3, WorldStep, SeenStep DEF CacheExpires, world

\* The safety half of ImplementsStatusBoard: whatever the threads do and
\* however they interleave, no connection is shown anything but what the
\* world has been.  That the board is brought up to date is liveness.
THEOREM StepsFollowStatusBoard ==
  Spec => Board!Init /\ [][Board!Next]_(Board!vars)
<1>1. Init => Board!Init
  BY DEF Init, Board!Init, Watching, View
<1>2. TypeOK /\ FramesArePast /\ [Next]_vars => [Board!Next]_(Board!vars)
  BY BoardStep
<1>3. QED
  BY <1>1, <1>2, TypeCorrect, PastInvariant, PTL DEF Spec

=============================================================================
