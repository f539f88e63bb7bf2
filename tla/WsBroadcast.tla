---------------------------- MODULE WsBroadcast ----------------------------
(***************************************************************************)
(* The WebSocket push path of the monitor API: the LocalSessionProvider    *)
(* cache shared by all threads, one handler thread and one send thread per *)
(* connection, and the single broadcast thread.  Threads interleave at     *)
(* every access to shared state: the provider lock, the broadcaster lock   *)
(* and the per-client send queue.                                          *)
(*                                                                         *)
(* The observed world is two version counters: `local`, what               *)
(* discover_sessions() would return, and `remote`, what                    *)
(* RemoteSnapshotStore.active() would return.  A state frame records the   *)
(* versions it was built from.  Hash abstracts the fields that             *)
(* _compute_state_hash() compares, so two versions may look alike (a       *)
(* status that changes and changes back).  Ping, pong and close frames     *)
(* carry no session state and are left out.                                *)
(*                                                                         *)
(* Definitions named Bug... are wrong variants of the definition after     *)
(* them, used only as mutants.                                             *)
(***************************************************************************)
EXTENDS Naturals, Sequences

CONSTANTS
  Clients,       \* WebSocket connections that may be opened, each once
  Tokened,       \* TRUE when the server has an api_token
  MaxLocal,      \* bound on the number of local session changes
  MaxRemote,     \* bound on the number of remote snapshot changes
  Hash(_, _),    \* what _compute_state_hash sees of a pair of versions
  Encodable(_),  \* FALSE when a local version holds a cwd that is not UTF-8
  NoFrame,       \* "no state frame yet"
  NoHash,        \* last_state_hash is None
  NoVersion      \* the provider has not discovered anything yet

Frame == [local : 0 .. MaxLocal, remote : 0 .. MaxRemote,
          src : {"initial", "broadcast"}]

HashOf(f) == Hash(f.local, f.remote)

ASSUME ConstantsAssumption ==
  /\ MaxLocal \in Nat
  /\ MaxRemote \in Nat
  /\ Tokened \in BOOLEAN
  /\ NoFrame \notin Frame
  /\ NoVersion \notin Nat
  /\ \A l \in 0 .. MaxLocal : Encodable(l) \in BOOLEAN
  /\ \A l \in 0 .. MaxLocal, r \in 0 .. MaxRemote : Hash(l, r) # NoHash

VARIABLES
  local, remote,     \* the world
  cache,             \* LocalSessionProvider: version held, still fresh?
  clients,           \* WebSocketBroadcaster.clients
  pendingSync,       \* WebSocketBroadcaster._pending_sync
  lastHash,          \* WebSocketBroadcaster.last_state_hash
  bpc, bFrame,       \* broadcast thread: program counter, versions it read
  bTodo, bDead,      \* clients the running round still has to send to; dead
  hpc, hFrame,       \* handler threads: program counter, versions read
  closed, queue,     \* SyncWebSocketClient.closed and .send_queue
  spc,               \* send threads: "off", "run" or "done"
  peer,              \* the other end: "none", "open" or "gone"
  offered,           \* history: last state frame queued for a client
  seen               \* last state frame the peer received

world       == <<local, remote>>
registry    == <<clients, pendingSync, lastHash>>
broadcaster == <<bpc, bFrame, bTodo, bDead>>
handlers    == <<hpc, hFrame>>
sockets     == <<closed, queue, spc, peer>>
frames      == <<offered, seen>>

vars == <<world, cache, registry, broadcaster, handlers, sockets, frames>>

-----------------------------------------------------------------------------
(* Items of a send queue.  Nil is the None that stops the send thread.     *)

StateItem(f) == [kind |-> "state", frame |-> f]
AuthItem     == [kind |-> "auth", frame |-> NoFrame]
Nil          == [kind |-> "nil", frame |-> NoFrame]

Item == {AuthItem, Nil} \union {StateItem(f) : f \in Frame}

BlankFrame == [local |-> 0, remote |-> 0, src |-> "broadcast"]

Init ==
  /\ local = 0 /\ remote = 0
  /\ cache = [version |-> NoVersion, fresh |-> FALSE]
  /\ clients = {} /\ pendingSync = {} /\ lastHash = NoHash
  /\ bpc = "idle" /\ bFrame = BlankFrame /\ bTodo = {} /\ bDead = {}
  /\ hpc = [c \in Clients |-> "new"]
  /\ hFrame = [c \in Clients |-> BlankFrame]
  /\ closed = [c \in Clients |-> FALSE]
  /\ queue = [c \in Clients |-> <<>>]
  /\ spc = [c \in Clients |-> "off"]
  /\ peer = [c \in Clients |-> "none"]
  /\ offered = [c \in Clients |-> NoFrame]
  /\ seen = [c \in Clients |-> NoFrame]

-----------------------------------------------------------------------------
(* The world and the provider                                              *)

\* A session starts, ends or changes status on this host.
LocalChange ==
  /\ local < MaxLocal
  /\ local' = local + 1
  /\ UNCHANGED <<remote, cache, registry, broadcaster, handlers, sockets, frames>>

\* A collector's snapshot is ingested or its TTL runs out.
RemoteChange ==
  /\ remote < MaxRemote
  /\ remote' = remote + 1
  /\ UNCHANGED <<local, cache, registry, broadcaster, handlers, sockets, frames>>

\* local_cache_seconds pass since the last refresh.
CacheExpires ==
  /\ cache.fresh
  /\ cache' = [cache EXCEPT !.fresh = FALSE]
  /\ UNCHANGED <<world, registry, broadcaster, handlers, sockets, frames>>

\* LocalSessionProvider.get: one critical section that answers from the
\* cache while it is fresh and otherwise discovers and stores.
Observed == IF cache.fresh THEN cache.version ELSE local
Refreshed == [version |-> Observed, fresh |-> TRUE]

-----------------------------------------------------------------------------
(* The handler thread of a connection: _handle_websocket_upgrade           *)

BugCloseClientQuietly(c) ==
  /\ closed' = [closed EXCEPT ![c] = TRUE]
  /\ UNCHANGED queue

\* SyncWebSocketClient.close: idempotent, wakes the send thread with Nil.
CloseClient(c) ==
  /\ closed' = [closed EXCEPT ![c] = TRUE]
  /\ queue' = IF closed[c] THEN queue
              ELSE [queue EXCEPT ![c] = Append(@, Nil)]

\* send_text: silently ignored once the client is closed.
SendItem(c, item) ==
  queue' = IF closed[c] THEN queue ELSE [queue EXCEPT ![c] = Append(@, item)]

Goto(c, at) == hpc' = [hpc EXCEPT ![c] = at]

\* 101 is sent, the descriptor duplicated and the send thread started.
Connect(c) ==
  /\ hpc[c] = "new"
  /\ Goto(c, IF Tokened THEN "auth" ELSE "local")
  /\ spc' = [spc EXCEPT ![c] = "run"]
  /\ peer' = [peer EXCEPT ![c] = "open"]
  /\ UNCHANGED <<world, cache, registry, broadcaster, hFrame, closed, queue, frames>>

AuthAccepted(c) ==
  /\ hpc[c] = "auth"
  /\ peer[c] = "open"
  /\ SendItem(c, AuthItem)
  /\ Goto(c, "local")
  /\ UNCHANGED <<world, cache, registry, broadcaster, hFrame, closed, spc, peer, frames>>

\* Wrong token or malformed frame: an error frame, a pause, then close.
AuthRejected(c) ==
  /\ hpc[c] = "auth"
  /\ peer[c] = "open"
  /\ SendItem(c, AuthItem)
  /\ Goto(c, "reject")
  /\ UNCHANGED <<world, cache, registry, broadcaster, hFrame, closed, spc, peer, frames>>

RejectClose(c) ==
  /\ hpc[c] = "reject"
  /\ CloseClient(c)
  /\ Goto(c, "exit")
  /\ UNCHANGED <<world, cache, registry, broadcaster, hFrame, spc, peer, frames>>

\* No frame within five seconds, or the peer went away.
AuthNoFrame(c) ==
  /\ hpc[c] = "auth"
  /\ Goto(c, "exit")
  /\ UNCHANGED <<world, cache, registry, broadcaster, hFrame, sockets, frames>>

HandlerReadLocal(c) ==
  /\ hpc[c] = "local"
  /\ hFrame' = [hFrame EXCEPT ![c] = [local |-> Observed, remote |-> 0, src |-> "initial"]]
  /\ cache' = Refreshed
  /\ Goto(c, "remote")
  /\ UNCHANGED <<world, registry, broadcaster, sockets, frames>>

HandlerReadRemote(c) ==
  /\ hpc[c] = "remote"
  /\ hFrame' = [hFrame EXCEPT ![c].remote = remote]
  /\ Goto(c, "register")
  /\ UNCHANGED <<world, cache, registry, broadcaster, sockets, frames>>

BugRegisterThenQueue(c) ==
  /\ hpc[c] = "register"
  /\ clients' = clients \union {c}
  /\ pendingSync' = pendingSync \union {c}
  /\ Goto(c, "recv")
  /\ UNCHANGED <<world, cache, lastHash, broadcaster, hFrame, sockets, frames>>

BugRegisterSettled(c) ==
  /\ hpc[c] = "register"
  /\ clients' = clients \union {c}
  /\ SendItem(c, StateItem(hFrame[c]))
  /\ offered' = [offered EXCEPT ![c] = hFrame[c]]
  /\ Goto(c, "recv")
  /\ UNCHANGED <<world, cache, pendingSync, lastHash, broadcaster, hFrame,
                 closed, spc, peer, seen>>

\* WebSocketBroadcaster.register, under the broadcaster lock.  send_text
\* encodes before it queues: a frame that cannot be encoded raises out of
\* register after clients.add and before _pending_sync.add.
Register(c) ==
  /\ hpc[c] = "register"
  /\ clients' = clients \union {c}
  /\ \/ /\ closed[c]
        /\ pendingSync' = pendingSync \union {c}
        /\ Goto(c, "recv")
        /\ UNCHANGED <<queue, offered>>
     \/ /\ ~closed[c]
        /\ Encodable(hFrame[c].local)
        /\ SendItem(c, StateItem(hFrame[c]))
        /\ offered' = [offered EXCEPT ![c] = hFrame[c]]
        /\ pendingSync' = pendingSync \union {c}
        /\ Goto(c, "recv")
     \/ /\ ~closed[c]
        /\ ~Encodable(hFrame[c].local)
        /\ Goto(c, "exit")
        /\ UNCHANGED <<pendingSync, queue, offered>>
  /\ UNCHANGED <<world, cache, lastHash, broadcaster, hFrame, closed, spc, peer, seen>>

\* run_recv_loop returns once the peer is gone, and closes the client.
RecvEnds(c) ==
  /\ hpc[c] = "recv"
  /\ peer[c] = "gone"
  /\ CloseClient(c)
  /\ Goto(c, "exit")
  /\ UNCHANGED <<world, cache, registry, broadcaster, hFrame, spc, peer, frames>>

\* finally: unregister under the broadcaster lock ...
Unregister(c) ==
  /\ hpc[c] = "exit"
  /\ clients' = clients \ {c}
  /\ pendingSync' = pendingSync \ {c}
  /\ Goto(c, "closing")
  /\ UNCHANGED <<world, cache, lastHash, broadcaster, hFrame, sockets, frames>>

\* ... then close the client and the duplicated socket.
HandlerClose(c) ==
  /\ hpc[c] = "closing"
  /\ CloseClient(c)
  /\ Goto(c, "done")
  /\ UNCHANGED <<world, cache, registry, broadcaster, hFrame, spc, peer, frames>>

Handler(c) ==
  \/ AuthAccepted(c) \/ AuthRejected(c) \/ RejectClose(c) \/ AuthNoFrame(c)
  \/ HandlerReadLocal(c) \/ HandlerReadRemote(c) \/ Register(c)
  \/ RecvEnds(c) \/ Unregister(c) \/ HandlerClose(c)

-----------------------------------------------------------------------------
(* The send thread of a connection and its peer                            *)

\* sendall succeeds: the peer receives the frame.
SenderDelivers(c) ==
  /\ spc[c] = "run"
  /\ queue[c] # <<>> /\ Head(queue[c]) # Nil
  /\ peer[c] = "open" /\ ~closed[c]
  /\ queue' = [queue EXCEPT ![c] = Tail(@)]
  /\ seen' = IF Head(queue[c]).kind = "state"
             THEN [seen EXCEPT ![c] = Head(queue[c]).frame]
             ELSE seen
  /\ UNCHANGED <<world, cache, registry, broadcaster, handlers, closed, spc, peer, offered>>

\* sendall raises on a dead peer or a closed socket: leave the loop and close.
SenderFails(c) ==
  /\ spc[c] = "run"
  /\ queue[c] # <<>> /\ Head(queue[c]) # Nil
  /\ peer[c] = "gone" \/ closed[c]
  /\ spc' = [spc EXCEPT ![c] = "done"]
  /\ CloseClient(c)
  /\ UNCHANGED <<world, cache, registry, broadcaster, handlers, peer, frames>>

SenderStops(c) ==
  /\ spc[c] = "run"
  /\ queue[c] # <<>> /\ Head(queue[c]) = Nil
  /\ spc' = [spc EXCEPT ![c] = "done"]
  /\ CloseClient(c)
  /\ UNCHANGED <<world, cache, registry, broadcaster, handlers, peer, frames>>

Sender(c) == SenderDelivers(c) \/ SenderFails(c) \/ SenderStops(c)

PeerLeaves(c) ==
  /\ peer[c] = "open"
  /\ peer' = [peer EXCEPT ![c] = "gone"]
  /\ UNCHANGED <<world, cache, registry, broadcaster, handlers, closed, queue, spc, frames>>

-----------------------------------------------------------------------------
(* The broadcast thread: broadcast_loop and WebSocketBroadcaster.broadcast *)

BugBroadcastReadLocalOrNothing ==
  /\ bpc = "idle"
  /\ \E v \in {0, Observed} : bFrame' = [bFrame EXCEPT !.local = v]
  /\ cache' = Refreshed
  /\ bpc' = "remote"
  /\ UNCHANGED <<world, registry, bTodo, bDead, handlers, sockets, frames>>

BroadcastReadLocal ==
  /\ bpc = "idle"
  /\ bFrame' = [bFrame EXCEPT !.local = Observed]
  /\ cache' = Refreshed
  /\ bpc' = "remote"
  /\ UNCHANGED <<world, registry, bTodo, bDead, handlers, sockets, frames>>

BroadcastReadRemote ==
  /\ bpc = "remote"
  /\ bFrame' = [bFrame EXCEPT !.remote = remote]
  /\ bpc' = "lock"
  /\ UNCHANGED <<world, cache, registry, bTodo, bDead, handlers, sockets, frames>>

\* Whom a round sends to: every client when the state changed, else the
\* clients that registered since the last round.
BugTargetsOnChangeOnly == IF HashOf(bFrame) # lastHash THEN clients ELSE {}
Targets == IF HashOf(bFrame) # lastHash THEN clients ELSE clients \intersect pendingSync

\* Under the broadcaster lock: compare and swap the hash, take and clear the
\* pending set, snapshot the clients.
BroadcastLock ==
  /\ bpc = "lock"
  /\ lastHash' = HashOf(bFrame)
  /\ bTodo' = Targets
  /\ bpc' = IF HashOf(bFrame) = lastHash /\ pendingSync = {} THEN "idle" ELSE "send"
  /\ pendingSync' = {}
  /\ bDead' = {}
  /\ UNCHANGED <<world, cache, clients, bFrame, handlers, sockets, frames>>

\* One client of the round.  The tests of closed and the put are one step:
\* a frame that lands behind the closing None is never sent.
BroadcastSend(c) ==
  /\ bpc = "send"
  /\ c \in bTodo
  /\ bTodo' = bTodo \ {c}
  /\ \/ /\ closed[c]
        /\ UNCHANGED <<bDead, queue, offered>>
     \/ /\ ~closed[c]
        /\ Encodable(bFrame.local)
        /\ SendItem(c, StateItem(bFrame))
        /\ offered' = [offered EXCEPT ![c] = bFrame]
        /\ UNCHANGED bDead
     \/ /\ ~closed[c]
        /\ ~Encodable(bFrame.local)
        /\ bDead' = bDead \union {c}
        /\ UNCHANGED <<queue, offered>>
  /\ UNCHANGED <<world, cache, registry, bpc, bFrame, handlers, closed, spc, peer, seen>>

\* The round is over; clients whose send raised leave the registry.
BroadcastEnd ==
  /\ bpc = "send"
  /\ bTodo = {}
  /\ clients' = clients \ bDead
  /\ bDead' = {}
  /\ bpc' = "idle"
  /\ UNCHANGED <<world, cache, pendingSync, lastHash, bFrame, bTodo, handlers, sockets, frames>>

Broadcaster ==
  \/ BroadcastReadLocal \/ BroadcastReadRemote \/ BroadcastLock
  \/ \E c \in Clients : BroadcastSend(c)
  \/ BroadcastEnd

-----------------------------------------------------------------------------
Next ==
  \/ LocalChange \/ RemoteChange \/ CacheExpires
  \/ Broadcaster
  \/ \E c \in Clients : Connect(c) \/ Handler(c) \/ Sender(c) \/ PeerLeaves(c)

Spec == Init /\ [][Next]_vars

\* Every thread of the server keeps running and the cache ages; nobody has
\* to connect, leave or change state.
Fairness ==
  /\ WF_vars(CacheExpires)
  /\ WF_vars(Broadcaster)
  /\ \A c \in Clients : WF_vars(Handler(c)) /\ WF_vars(Sender(c))

FairSpec == Spec /\ Fairness

-----------------------------------------------------------------------------
HandlerPc ==
  {"new", "auth", "reject", "local", "remote", "register", "recv", "exit",
   "closing", "done"}

Hashes == {Hash(l, r) : l \in 0 .. MaxLocal, r \in 0 .. MaxRemote}

WorldTypes ==
  /\ local \in 0 .. MaxLocal
  /\ remote \in 0 .. MaxRemote

CacheTypes ==
  /\ cache \in [version : 0 .. MaxLocal \union {NoVersion}, fresh : BOOLEAN]
  /\ cache.fresh => cache.version # NoVersion

RegistryTypes ==
  /\ clients \subseteq Clients
  /\ pendingSync \subseteq Clients
  /\ lastHash \in Hashes \union {NoHash}

BroadcasterTypes ==
  /\ bpc \in {"idle", "remote", "lock", "send"}
  /\ bFrame \in Frame
  /\ bTodo \subseteq Clients
  /\ bDead \subseteq Clients

HandlerTypes ==
  /\ hpc \in [Clients -> HandlerPc]
  /\ hFrame \in [Clients -> Frame]

SocketTypes ==
  /\ closed \in [Clients -> BOOLEAN]
  /\ queue \in [Clients -> Seq(Item)]
  /\ spc \in [Clients -> {"off", "run", "done"}]
  /\ peer \in [Clients -> {"none", "open", "gone"}]

FrameTypes ==
  /\ offered \in [Clients -> Frame \union {NoFrame}]
  /\ seen \in [Clients -> Frame \union {NoFrame}]

TypeOK ==
  /\ WorldTypes /\ CacheTypes /\ RegistryTypes /\ BroadcasterTypes
  /\ HandlerTypes /\ SocketTypes /\ FrameTypes

-----------------------------------------------------------------------------
(* Safety                                                                  *)

\* A registered client that owes nothing to the next round (not in
\* pendingSync) nor to the running one (not in bTodo, not about to be
\* dropped) has last been offered a frame that looks like the state the
\* broadcaster remembers.  This is what makes "nothing changed, send
\* nothing" in broadcast() harmless to a client that registered between the
\* computation of its initial frame and the comparison of the hashes.
SettledClientsMatchHash ==
  \A c \in clients \ pendingSync :
    \/ hpc[c] # "recv"
    \/ closed[c]
    \/ bpc = "send" /\ c \in bTodo \union bDead
    \/ /\ offered[c] # NoFrame
       /\ lastHash = HashOf(offered[c])

\* A connection leaves no trace in the registry once its handler thread has
\* unregistered it, whatever round was running at that moment.
NoDeadRegistration ==
  /\ pendingSync \subseteq clients
  /\ \A c \in clients : hpc[c] \in {"recv", "exit"}

\* What a round in flight knows: outside a round nothing is owed, the hash
\* remembered is that of the frame being sent, and every client it still owes
\* or is about to drop had registered before the round began.
RoundConsistent ==
  /\ bpc # "send" => bTodo = {} /\ bDead = {}
  /\ bpc = "send" => lastHash = HashOf(bFrame)
  /\ \A c \in bTodo \union bDead :
       /\ hpc[c] \in {"recv", "exit", "closing", "done"}
       /\ c \notin pendingSync

\* SettledClientsMatchHash and NoDeadRegistration are not inductive without
\* what the round in flight knows.
RegistryInv == NoDeadRegistration /\ RoundConsistent /\ SettledClientsMatchHash

\* The first state frame of a connection is the snapshot its own handler
\* computed: no broadcast overtakes it, and none reaches a connection that
\* has not passed authentication.  The one exception is a connection whose
\* register call raised on a frame it could not encode: it sits in `clients`
\* until its handler unregisters it, and a round that saw it there may still
\* send to it until it is closed.
InitialFrameFirst ==
  [][\A c \in Clients :
       offered[c] = NoFrame /\ offered'[c] # NoFrame
         => \/ hpc[c] = "register" /\ offered'[c].src = "initial"
            \/ hpc[c] \in {"exit", "closing"} /\ ~Encodable(hFrame[c].local)]_vars

\* The initial frame and the first broadcast come from different threads and
\* may go back in time; from the first broadcast on, a client is never
\* offered an older view of either half of the world.
BroadcastsNeverGoBack ==
  [][\A c \in Clients :
       offered[c] # NoFrame /\ offered'[c] # offered[c]
         => \/ offered[c].src = "initial"
            \/ /\ offered'[c].local >= offered[c].local
               /\ offered'[c].remote >= offered[c].remote]_vars

\* Why time never runs backwards for the broadcast thread: what it read last
\* is no newer than what the provider would answer now, and what it queued is
\* no newer than what it read last.
ViewsInOrder ==
  /\ cache.fresh => cache.version <= local
  /\ bFrame.src = "broadcast"
  /\ bFrame.local <= Observed /\ bFrame.remote <= remote
  /\ \A c \in Clients :
       /\ hpc[c] \in {"remote", "register"} => hFrame[c].src = "initial"
       /\ offered[c] # NoFrame =>
            \/ offered[c].src = "initial"
            \/ offered[c].local <= bFrame.local /\ offered[c].remote <= bFrame.remote

\* Why no broadcast precedes the initial frame: a client a round can reach has
\* been offered one, is closed, or failed to encode it, and one that has not
\* registered has been offered nothing.
ReachedAfterInitial ==
  /\ \A c \in clients \union bTodo :
       \/ closed[c]
       \/ offered[c] # NoFrame
       \/ hpc[c] \in {"exit", "closing"} /\ ~Encodable(hFrame[c].local)
  /\ \A c \in Clients :
       /\ hpc[c] = "done" => closed[c]
       /\ hpc[c] \in {"new", "auth", "local", "remote", "register"}
            => offered[c] = NoFrame

-----------------------------------------------------------------------------
(* Liveness                                                                *)

\* An open connection that a round reaches.  One to which an unencodable frame
\* was due is dropped from `clients` and is reached by none.
Watching(c) == hpc[c] = "recv" /\ peer[c] = "open" /\ c \in clients

\* Once the world stops changing in a state that can be sent, every
\* connection that stays open comes to show it and keeps showing it, whenever
\* it registered: no client remains on a stale initial frame.
WatchersConverge ==
  \A c \in Clients :
    <>[](Watching(c) /\ Encodable(local) =>
           seen[c] # NoFrame /\ HashOf(seen[c]) = Hash(local, remote))

\* A connection whose peer is gone is cleaned up entirely: both of its
\* threads end and the registry forgets it.
LostPeersAreReleased ==
  \A c \in Clients :
    peer[c] = "gone" ~>
      hpc[c] = "done" /\ spc[c] = "done" /\ c \notin clients \union pendingSync

-----------------------------------------------------------------------------
(* The abstract promise: every open connection is a watcher of StatusBoard *)

View(f) == IF f = NoFrame THEN NoFrame ELSE <<f.local, f.remote>>

Board == INSTANCE StatusBoard WITH
  Watchers <- Clients,
  Looks    <- Hash,
  NoView   <- NoFrame,
  watching <- {c \in Clients : Watching(c)},
  view     <- [c \in Clients |-> View(seen[c])]

\* A connection only ever shows what the world has been, and an open one is
\* eventually brought up to date, as StatusBoard promises.
ImplementsStatusBoard == Board!Spec

=============================================================================
