---------------------------- MODULE SnapshotPush ----------------------------
(***************************************************************************)
(* A collector server pushes snapshots of its sessions to the aggregator.  *)
(* The pusher thread of the collector posts when inotify tells it that the *)
(* hook log changed, at most once per debounce window, and otherwise once  *)
(* per interval; when the watch breaks it falls back to polling.  On the   *)
(* aggregator, each POST has a handler thread that stores the snapshot     *)
(* under the collector's server id; a snapshot is shown for a time to live *)
(* after it was received.  Snapshots of different servers share nothing,   *)
(* so one collector is modelled.                                           *)
(*                                                                         *)
(* `truth` numbers what discover_sessions() would return on the collector. *)
(* Time since the last attempt is kept in the classes the pusher tests:    *)
(* "recent" (below the debounce window), "settled" and "due" (beyond the   *)
(* interval).  A handler is never held up for a whole time to live between *)
(* its timestamp and its store.  Definitions named Bug... are wrong        *)
(* variants of the definition after them, used only as mutants.            *)
(***************************************************************************)
EXTENDS Naturals

CONSTANTS
  MaxVersion, \* bound on the changes of the collector's sessions
  MaxFaults,  \* bound on refused, timed out and lost requests and on restarts
  Patience,   \* attempts that certainly end within the time to live
  NoVersion,  \* the provider has not discovered anything yet
  NoSnapshot  \* the store holds nothing from this server

ASSUME BoundsAssumption ==
  /\ MaxVersion \in Nat
  /\ MaxFaults \in Nat
  /\ Patience \in Nat \ {0}

ASSUME ValuesAssumption ==
  /\ NoVersion \notin Nat
  /\ NoSnapshot \notin [version : Nat, fresh : BOOLEAN]

VARIABLES
  truth,    \* the sessions of the collector server
  noticed,  \* inotify events of the hook log wait to be read
  provider, \* LocalSessionProvider: version held, still fresh?
  ppc,      \* pusher: program counter, "off" when the process does not run
  cause,    \* pusher: why it posts
  since,    \* pusher: class of now - last_push_time
  payload,  \* pusher: version in the request
  healthy,  \* CollectorPusher.status_snapshot()["healthy"]
  request,  \* stage of the running request
  late,     \* abandoned requests the aggregator may still handle
  store,    \* RemoteSnapshotStore: entry of this server
  missed,   \* attempts that ended since the entry was stored
  faults,   \* number of faults so far
  rested,   \* history: class of the time since the last attempt ended
  emptied   \* history: the aggregator restarted since the entry was stored

collector  == <<noticed, provider, ppc, cause, since, payload, healthy>>
aggregator == <<store, missed>>
history    == <<rested, emptied>>
vars == <<truth, collector, request, late, aggregator, faults, history>>

Init ==
  /\ truth = 0
  /\ noticed = FALSE
  /\ provider = [version |-> NoVersion, fresh |-> FALSE]
  /\ ppc = "off" /\ cause = "initial" /\ since = "due" /\ payload = 0
  /\ healthy = FALSE
  /\ request = "none" /\ late = {}
  /\ store = NoSnapshot /\ missed = 0
  /\ faults = 0
  /\ rested = "due" /\ emptied = FALSE

Fault == faults < MaxFaults /\ faults' = faults + 1

-----------------------------------------------------------------------------
(* The sessions and the provider of the collector                          *)

Watched == ppc # "off" /\ cause # "poll"

\* A change that a hook logs, or one that leaves the hook log alone.
Change ==
  /\ truth < MaxVersion
  /\ truth' = truth + 1
  /\ UNCHANGED noticed \/ (Watched /\ noticed' = TRUE)
  /\ UNCHANGED <<provider, ppc, cause, since, payload, healthy, request, late,
                 aggregator, faults, history>>

\* A hook logs an event that changes no session.
LogTouched ==
  /\ Watched
  /\ noticed' = TRUE
  /\ UNCHANGED <<truth, provider, ppc, cause, since, payload, healthy, request,
                 late, aggregator, faults, history>>

Observed == IF provider.fresh THEN provider.version ELSE truth

\* Another thread of the collector asks the provider.
OtherRead ==
  /\ ppc # "off"
  /\ provider' = [version |-> Observed, fresh |-> TRUE]
  /\ UNCHANGED <<truth, noticed, ppc, cause, since, payload, healthy, request,
                 late, aggregator, faults, history>>

CacheExpires ==
  /\ provider.fresh
  /\ provider' = [version |-> provider.version, fresh |-> FALSE]
  /\ UNCHANGED <<truth, noticed, ppc, cause, since, payload, healthy, request,
                 late, aggregator, faults, history>>

-----------------------------------------------------------------------------
(* The pusher: post_once                                                   *)

TakeSnapshot ==
  /\ ppc = "post"
  /\ payload' = Observed
  /\ provider' = [version |-> Observed, fresh |-> TRUE]
  /\ ppc' = "send"
  /\ UNCHANGED <<truth, noticed, cause, since, healthy, request, late,
                 aggregator, faults, history>>

Send ==
  /\ ppc = "send"
  /\ request' = "sent"
  /\ ppc' = "await"
  /\ UNCHANGED <<truth, noticed, provider, cause, since, payload, healthy, late,
                 aggregator, faults, history>>

\* Where each use of post_once goes on, whether it succeeded or raised.
Continue ==
  \/ cause = "event" /\ ppc' = "tick"
  \/ cause = "poll" /\ ppc' = "sleep"
  \/ cause \notin {"event", "poll"} /\ ppc' = "wait"

BugAttemptEnds(ok) ==
  /\ since' = IF ok THEN "recent" ELSE since
  /\ healthy' = ok
  /\ rested' = "recent"
  /\ request' = "none"
  /\ Continue

\* last_push_time is set in a finally clause: a failed attempt counts.
AttemptEnds(ok) ==
  /\ since' = "recent"
  /\ healthy' = ok
  /\ rested' = "recent"
  /\ request' = "none"
  /\ Continue

Missed == missed' = IF missed < Patience THEN missed + 1 ELSE missed

\* The snapshot could not be built, the connection was refused or the answer
\* is an error: nothing was stored.
Refused ==
  /\ ppc = "send"
  /\ Fault
  /\ AttemptEnds(FALSE)
  /\ Missed
  /\ UNCHANGED <<truth, noticed, provider, cause, payload, late, store, emptied>>

Accepted ==
  /\ ppc = "await" /\ request = "answered"
  /\ AttemptEnds(TRUE)
  /\ UNCHANGED <<truth, noticed, provider, cause, payload, late, aggregator,
                 faults, emptied>>

\* What the end of the client leaves behind on the aggregator.
Abandoned ==
  IF request = "sent" THEN late \union {[version |-> payload, fault |-> faults]} ELSE late

TimesOut ==
  /\ ppc = "await" /\ request # "lost"
  /\ Fault
  /\ late' = Abandoned
  /\ AttemptEnds(FALSE)
  /\ Missed
  /\ UNCHANGED <<truth, noticed, provider, cause, payload, store, emptied>>

\* The aggregator restarted under the request.
ConnectionReset ==
  /\ ppc = "await" /\ request = "lost"
  /\ AttemptEnds(FALSE)
  /\ Missed
  /\ UNCHANGED <<truth, noticed, provider, cause, payload, late, store, faults, emptied>>

-----------------------------------------------------------------------------
(* The pusher: _run_event_driven and _run_polling                          *)

\* The process starts, with inotify or without.
Start ==
  /\ ppc = "off"
  /\ ppc' = "post"
  /\ cause' \in {"initial", "poll"}
  /\ noticed' = FALSE
  /\ UNCHANGED <<truth, provider, since, payload, healthy, request, late,
                 aggregator, faults, history>>

\* watcher.wait reads the events; within the debounce window they are dropped.
EventsRead ==
  /\ ppc = "wait" /\ noticed
  /\ noticed' = FALSE
  /\ IF since # "recent"
     THEN ppc' = "post" /\ cause' = "event"
     ELSE ppc' = "tick" /\ UNCHANGED cause
  /\ UNCHANGED <<truth, provider, since, payload, healthy, request, late,
                 aggregator, faults, history>>

NoEvents ==
  /\ ppc = "wait" /\ ~noticed
  /\ ppc' = "tick"
  /\ UNCHANGED <<truth, noticed, provider, cause, since, payload, healthy, request,
                 late, aggregator, faults, history>>

BugPeriodicCheck ==
  /\ ppc = "tick"
  /\ ppc' = "wait"
  /\ UNCHANGED <<truth, noticed, provider, cause, since, payload, healthy, request,
                 late, aggregator, faults, history>>

\* The periodic fallback.
PeriodicCheck ==
  /\ ppc = "tick"
  /\ IF since = "due"
     THEN ppc' = "post" /\ cause' = "periodic"
     ELSE ppc' = "wait" /\ UNCHANGED cause
  /\ UNCHANGED <<truth, noticed, provider, since, payload, healthy, request, late,
                 aggregator, faults, history>>

\* The inotify descriptor breaks: polling from now on.
WatchBreaks ==
  /\ ppc = "wait"
  /\ Fault
  /\ ppc' = "post" /\ cause' = "poll" /\ noticed' = FALSE
  /\ UNCHANGED <<truth, provider, since, payload, healthy, request, late,
                 aggregator, history>>

PollAgain ==
  /\ ppc = "sleep"
  /\ ppc' = "post"
  /\ UNCHANGED <<truth, noticed, provider, cause, since, payload, healthy, request,
                 late, aggregator, faults, history>>

Pusher ==
  \/ TakeSnapshot \/ Send \/ Accepted \/ ConnectionReset
  \/ EventsRead \/ NoEvents \/ PeriodicCheck \/ PollAgain

Older(class) == IF class = "recent" THEN "settled" ELSE "due"

\* Time passes for the pusher's loop.
TimePasses ==
  /\ ppc \in {"wait", "tick"}
  /\ since # "due" \/ rested # "due"
  /\ since' = Older(since) /\ rested' = Older(rested)
  /\ UNCHANGED <<truth, noticed, provider, ppc, cause, payload, healthy, request,
                 late, aggregator, faults, emptied>>

\* The collector process ends, whatever it was doing.
Stop ==
  /\ ppc # "off"
  /\ Fault
  /\ ppc' = "off"
  /\ late' = Abandoned
  /\ request' = "none"
  /\ noticed' = FALSE /\ healthy' = FALSE
  /\ provider' = [version |-> NoVersion, fresh |-> FALSE]
  /\ since' = "due" /\ rested' = "due"
  /\ UNCHANGED <<truth, cause, payload, aggregator, emptied>>

-----------------------------------------------------------------------------
(* The aggregator: _handle_snapshot and RemoteSnapshotStore                *)

Ingest(version) ==
  /\ store' = [version |-> version, fresh |-> TRUE]
  /\ missed' = 0
  /\ emptied' = FALSE

StoreCurrent ==
  /\ request = "sent"
  /\ Ingest(payload)
  /\ request' = "stored"
  /\ UNCHANGED <<truth, collector, late, faults, rested>>

BugAnswer ==
  /\ request \in {"sent", "stored"}
  /\ request' = "answered"
  /\ UNCHANGED <<truth, collector, late, aggregator, faults, history>>

\* The answer is sent once the snapshot is stored.
Answer ==
  /\ request = "stored"
  /\ request' = "answered"
  /\ UNCHANGED <<truth, collector, late, aggregator, faults, history>>

\* The handler of an abandoned request had it all, or never got its end.
StoreLate(r) ==
  /\ r \in late
  /\ late' = late \ {r}
  /\ Ingest(r.version)
  /\ UNCHANGED <<truth, collector, request, faults, rested>>

DropLate(r) ==
  /\ r \in late
  /\ late' = late \ {r}
  /\ UNCHANGED <<truth, collector, request, aggregator, faults, history>>

BugShown == store # NoSnapshot
\* RemoteSnapshotStore.active
Shown == store # NoSnapshot /\ store.fresh

\* The time to live runs out: not while attempts still succeed.
Expire ==
  /\ store # NoSnapshot /\ store.fresh
  /\ ppc = "off" \/ missed = Patience
  /\ store' = [version |-> store.version, fresh |-> FALSE]
  /\ UNCHANGED <<truth, collector, request, late, missed, faults, history>>

\* The snapshots live in memory only.
AggregatorRestarts ==
  /\ Fault
  /\ store' = NoSnapshot
  /\ late' = {}
  /\ request' = IF request = "none" THEN "none" ELSE "lost"
  /\ emptied' = TRUE
  /\ UNCHANGED <<truth, collector, missed, rested>>

-----------------------------------------------------------------------------
Next ==
  \/ Change \/ LogTouched \/ OtherRead \/ CacheExpires
  \/ Start \/ Stop \/ Pusher \/ TimePasses
  \/ Refused \/ TimesOut \/ WatchBreaks
  \/ StoreCurrent \/ Answer \/ Expire \/ AggregatorRestarts
  \/ \E r \in late : StoreLate(r) \/ DropLate(r)

Spec == Init /\ [][Next]_vars

\* The threads of both processes run, time passes, and what is in flight
\* arrives or is lost.  Nobody has to start, stop or change anything.
Fairness ==
  /\ WF_vars(Pusher) /\ WF_vars(TimePasses) /\ WF_vars(CacheExpires)
  /\ WF_vars(StoreCurrent) /\ WF_vars(Answer) /\ WF_vars(Expire)
  /\ WF_vars(\E r \in late : StoreLate(r) \/ DropLate(r))

FairSpec == Spec /\ Fairness

-----------------------------------------------------------------------------
Versions == 0 .. MaxVersion
Classes  == {"recent", "settled", "due"}
Snapshot == [version : Versions, fresh : BOOLEAN]

ClockTypes == since \in Classes /\ rested \in Classes
WorldTypes == truth \in Versions /\ faults \in 0 .. MaxFaults
FlagTypes  == noticed \in BOOLEAN /\ healthy \in BOOLEAN /\ emptied \in BOOLEAN

ProviderTypes ==
  /\ provider \in [version : Versions \union {NoVersion}, fresh : BOOLEAN]
  /\ provider.fresh => provider.version # NoVersion

PusherTypes ==
  /\ ppc \in {"off", "post", "send", "await", "wait", "tick", "sleep"}
  /\ cause \in {"initial", "event", "periodic", "poll"}
  /\ payload \in Versions

RequestTypes ==
  /\ request \in {"none", "sent", "stored", "answered", "lost"}
  /\ late \subseteq [version : Versions, fault : 0 .. MaxFaults]

StoreTypes ==
  /\ store \in Snapshot \union {NoSnapshot}
  /\ missed \in 0 .. Patience

TypeOK ==
  /\ ClockTypes /\ WorldTypes /\ FlagTypes
  /\ ProviderTypes /\ PusherTypes /\ RequestTypes /\ StoreTypes

-----------------------------------------------------------------------------
(* Safety                                                                  *)

\* The event loop never spins on a broken aggregator: after an attempt, good
\* or bad, the next one waits for the interval, or for an event that comes
\* after the debounce window.
AttemptsAreSpaced ==
  [][ppc' = "post" /\ ppc \in {"wait", "tick"} /\ cause' # "poll"
       => rested = "due" \/ (rested = "settled" /\ noticed)]_vars

\* A collector that reports itself healthy is shown by the aggregator, until
\* that one restarts.
HealthyServersAreShown == healthy => Shown \/ emptied

\* Why: what was stored for the last attempt is still there, since only
\* attempts that fail use up the time to live.
StoredIsShown ==
  /\ request # "none" => ppc = "await"
  /\ healthy => ppc # "off"
  /\ healthy \/ request \in {"stored", "answered"}
       => missed = 0 /\ (Shown \/ emptied)

\* last_push_time is the end of the last attempt.
SinceIsRest == since = rested

-----------------------------------------------------------------------------
(* Liveness                                                                *)

\* When the sessions rest and the faults are over, the aggregator comes to
\* show the collector's last state, whichever of its changes inotify noticed,
\* the debounce dropped or an abandoned request overwrote.
PushesConverge == <>[](ppc # "off" => Shown /\ store.version = truth)

\* A collector that stays down leaves the view.
StoppedServersLeave == <>[](ppc = "off" => ~Shown)

=============================================================================
