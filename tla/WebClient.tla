----------------------------- MODULE WebClient -----------------------------
(***************************************************************************)
(* The Web panel: MonitorClient polls the aggregator over REST, which      *)
(* establishes the backend's identity and the age of what is displayed,    *)
(* and takes immediate changes from a WebSocket of the same backend.       *)
(*                                                                         *)
(* The page is single-threaded; its handlers (the tick of every second,    *)
(* an answer, a frame, the events of a socket and of the page) are steps,  *)
(* and the state they share is the record `panel`.  The server (whose push *)
(* path is WsBroadcast) is reduced to what the panel can notice: a thread  *)
(* reads the sessions first and stamps its frame with the wall clock       *)
(* later, requests and frames get lost, the server restarts, and its clock *)
(* may be set back.                                                        *)
(*                                                                         *)
(* A beat is the second between two ticks.  Definitions named Bug... are   *)
(* wrong variants of the definition after them, used only as mutants.      *)
(***************************************************************************)
EXTENDS Integers, Sequences

CONSTANTS
  Poll,        \* POLL_MS, in beats
  Request,     \* REQUEST_MS
  Stale,       \* STALE_MS
  SocketMax,   \* SOCKET_MAX_MS
  MaxDelay,    \* bound of the retry delay of the socket
  MaxChanges,  \* bound on the changes of the sessions
  MaxRestarts, \* bound on the restarts of the server
  MaxFaults,   \* bound on failed and lost requests and on clock steps
  MaxClock,    \* bound on the server's clock: later stamps are equal
  NoView, Nothing

\* The last two: a failed poll is known before the view is stale.
ASSUME PanelAssumption ==
  /\ Poll \in Nat \ {0} /\ Request \in Nat \ {0}
  /\ SocketMax \in Nat \ {0} /\ MaxDelay \in Nat \ {0}
  /\ MaxChanges \in Nat /\ MaxRestarts \in Nat /\ MaxFaults \in Nat /\ MaxClock \in Nat
  /\ Nothing \notin Nat
  /\ Stale \in Nat
  /\ Poll + Request < Stale

VARIABLES
  server,  \* instance, sessions (a version), clock
  pushed,  \* sessions read by the pushing thread (it may send what it sent
           \* before), instance the socket is connected to
  rest,    \* the request in flight: stage, age, frame
  wire,    \* frames on their way through the socket
  running, \* ~stopped
  panel,   \* the MonitorClient
  faults,
  resumed  \* history: the page was shown again and no answer filled it since

vars == <<server, pushed, rest, wire, running, panel, faults, resumed>>

Never == -1  \* -Infinity

NoFrame   == [inst |-> 0, sessions |-> 0, stamp |-> 0]
NoRequest == [stage |-> "none", age |-> 0, frame |-> NoFrame]
Asked     == [NoRequest EXCEPT !.stage = "asked"]

Init ==
  /\ server = [inst |-> 1, sessions |-> 0, clock |-> 0]
  /\ pushed = [read |-> Nothing, to |-> 1]
  /\ rest = NoRequest
  /\ wire = <<>>
  /\ running = FALSE
  /\ panel = [view |-> NoView, instance |-> 0, observed |-> Never, age |-> Stale,
              expired |-> TRUE, healthy |-> FALSE, pollIn |-> 0,
              socket |-> "none", ready |-> FALSE, socketAge |-> 0,
              retryIn |-> 0, delay |-> 1, label |-> "none"]
  /\ faults = 0
  /\ resumed = FALSE

Fault == faults < MaxFaults /\ faults' = faults + 1

-----------------------------------------------------------------------------
(* What the methods of MonitorClient do to it                              *)

Fresh(p) == p.age < Stale

Closed(p) == [p EXCEPT !.socket = "none", !.ready = FALSE]

BugExpired(p) ==
  IF ~Fresh(p) /\ ~p.expired /\ ~p.ready
  THEN [Closed(p) EXCEPT !.expired = TRUE, !.view = NoView, !.label = "stale"]
  ELSE p

Expired(p) ==
  IF ~Fresh(p) /\ ~p.expired
  THEN [Closed(p) EXCEPT !.expired = TRUE, !.view = NoView, !.label = "stale"]
  ELSE p

BugAccepted(p, frame) == [p EXCEPT !.observed = frame.stamp, !.view = frame]

Accepted(p, frame) ==
  IF frame.stamp < p.observed THEN p
  ELSE [p EXCEPT !.observed = frame.stamp, !.view = frame]

Connecting(p) == [p EXCEPT !.socket = "opening", !.ready = FALSE, !.socketAge = 0]

LesserOf(a, b) == IF a <= b THEN a ELSE b

RetryingSocket(p) ==
  [Closed(p) EXCEPT !.retryIn = p.delay,
                    !.delay = LesserOf(MaxDelay, 2 * p.delay),
                    !.label = IF p.healthy THEN "polling" ELSE p.label]

\* refresh, up to the request; Polls(p) says whether it sends one.
BugPolls(p) == rest.stage = "none" /\ p.pollIn = 0 /\ ~p.ready
Polls(p) == rest.stage = "none" /\ p.pollIn = 0
Refreshed(p) == [Expired(p) EXCEPT !.pollIn = Poll]

Worn(p) ==
  p.socket # "none" /\ (p.socketAge >= SocketMax \/ (~p.ready /\ p.socketAge >= Request))

Ticked(p) ==
  LET polled == IF Polls(p) THEN Refreshed(p) ELSE Expired(p)
      rotated == IF Worn(polled) THEN Closed(polled) ELSE polled
  IN  IF rotated.socket = "none" /\ Fresh(rotated) /\ rotated.retryIn = 0
      THEN Connecting(rotated)
      ELSE rotated

SameBackend(p, frame) ==
  IF frame.inst = p.instance THEN p
  ELSE [Closed(p) EXCEPT !.instance = frame.inst, !.observed = Never, !.retryIn = 0]

BugCalibrated(p, frame) ==
  LET same  == SameBackend(p, frame)
      shown == Accepted([same EXCEPT !.age = 0, !.healthy = TRUE, !.expired = FALSE], frame)
  IN  [shown EXCEPT !.label = IF shown.ready THEN "live" ELSE "polling"]

\* refresh, from a valid answer on.
Calibrated(p, frame) ==
  LET same       == SameBackend(p, frame)
      calibrated == [same EXCEPT !.age = 0, !.healthy = TRUE, !.expired = FALSE,
                                 !.observed = IF same.expired THEN Never ELSE same.observed]
      shown      == Accepted(calibrated, frame)
      labelled   == [shown EXCEPT !.label = IF shown.ready THEN "live" ELSE "polling"]
  IN  IF labelled.socket = "none" /\ labelled.retryIn = 0
      THEN Connecting(labelled)
      ELSE labelled

\* refresh, from an error on.
Failed(p) ==
  LET unhealthy == Expired([p EXCEPT !.healthy = FALSE])
  IN  [unhealthy EXCEPT !.label = IF unhealthy.expired THEN "stale" ELSE "reconnecting"]

Later(n) == IF n = 0 THEN 0 ELSE n - 1

Aged(p) ==
  [p EXCEPT !.age = LesserOf(Stale, p.age + 1), !.pollIn = Later(p.pollIn),
            !.retryIn = Later(p.retryIn),
            !.socketAge = IF p.socket = "none" THEN 0 ELSE LesserOf(SocketMax, p.socketAge + 1)]

\* What was on its way through a socket dies with it.
Socketed(p, frames) == panel' = p /\ wire' = IF p.socket = "open" THEN frames ELSE <<>>

-----------------------------------------------------------------------------
(* The page                                                                *)

\* start and then refresh, at the load of the page and when it is shown again.
PageShow ==
  /\ ~running
  /\ running' = TRUE
  /\ resumed' = TRUE
  /\ Socketed(Refreshed(Ticked([panel EXCEPT !.label = "connecting"])), wire)
  /\ rest' = Asked
  /\ UNCHANGED <<server, pushed, faults>>

\* stop and an empty page.
PageHide ==
  /\ running
  /\ running' = FALSE
  /\ Socketed([Closed(panel) EXCEPT !.view = NoView], <<>>)
  /\ rest' = NoRequest
  /\ UNCHANGED <<server, pushed, faults, resumed>>

\* The refresh button, or the network or the tab comes back.
Refresh ==
  /\ running /\ rest.stage = "none"
  /\ Socketed(Refreshed(panel), wire)
  /\ rest' = Asked
  /\ UNCHANGED <<server, pushed, running, faults, resumed>>

\* An answer that is not lost arrives within the time limit.
Beat ==
  /\ running
  /\ rest.stage # "none" => rest.age < (IF rest.stage = "lost" THEN Request ELSE Request - 1)
  /\ Socketed(Ticked(Aged(panel)), wire)
  /\ rest' = IF rest.stage # "none" THEN [rest EXCEPT !.age = rest.age + 1]
             ELSE IF Polls(Aged(panel)) THEN Asked ELSE rest
  /\ UNCHANGED <<server, pushed, running, faults, resumed>>

HiddenBeat ==
  /\ ~running
  /\ panel' = Aged(panel)
  /\ UNCHANGED <<server, pushed, rest, wire, running, faults, resumed>>

-----------------------------------------------------------------------------
(* The answers                                                             *)

AnswerArrives ==
  /\ rest.stage = "answered"
  /\ Socketed(Calibrated(panel, rest.frame), wire)
  /\ rest' = NoRequest
  /\ resumed' = (resumed /\ panel'.view = NoView)
  /\ UNCHANGED <<server, pushed, running, faults>>

RequestEnds ==
  /\ Socketed(Failed(panel), wire)
  /\ rest' = NoRequest
  /\ UNCHANGED <<server, pushed, running, resumed>>

\* An error status, an answer that is no valid snapshot, a reset connection.
RequestFails ==
  /\ rest.stage \notin {"none", "lost"} /\ Fault
  /\ RequestEnds

ConnectionReset == rest.stage = "reset" /\ RequestEnds /\ UNCHANGED faults

RequestTimesOut ==
  /\ rest.stage = "lost" /\ rest.age = Request
  /\ RequestEnds /\ UNCHANGED faults

\* The token is revoked.
Unauthorized ==
  /\ rest.stage = "asked"
  /\ Fault
  /\ running' = FALSE
  /\ Socketed([Closed(panel) EXCEPT !.view = NoView, !.label = "unauthorized"], <<>>)
  /\ rest' = NoRequest
  /\ UNCHANGED <<server, pushed, resumed>>

-----------------------------------------------------------------------------
(* The socket                                                              *)

SocketOpens ==
  /\ panel.socket = "opening"
  /\ panel' = [panel EXCEPT !.socket = "open"]
  /\ pushed' = [pushed EXCEPT !.to = server.inst]
  /\ UNCHANGED <<server, rest, wire, running, faults, resumed>>

\* onerror, onclose, a message that is no JSON, or no socket at all.
SocketFails ==
  /\ panel.socket # "none"
  /\ Socketed(RetryingSocket(panel), <<>>)
  /\ UNCHANGED <<server, pushed, rest, running, faults, resumed>>

BugFrameFits(p, frame) == TRUE
FrameFits(p, frame) == frame.inst = p.instance

\* The tick of the beat has closed the socket of a page that expired.
FrameArrives ==
  /\ panel.socket = "open" /\ Fresh(panel) /\ wire # <<>>
  /\ \/ /\ ~FrameFits(panel, Head(wire))
        /\ IF rest.stage = "none"
           THEN Socketed(Refreshed(RetryingSocket(panel)), <<>>) /\ rest' = Asked
           ELSE Socketed(RetryingSocket(panel), <<>>) /\ UNCHANGED rest
     \/ /\ FrameFits(panel, Head(wire))
        /\ Socketed([Accepted(panel, Head(wire)) EXCEPT
                       !.ready = TRUE, !.delay = 1,
                       !.label = IF panel.healthy THEN "live" ELSE "reconnecting"],
                    Tail(wire))
        /\ UNCHANGED rest
  /\ UNCHANGED <<server, pushed, running, faults, resumed>>

-----------------------------------------------------------------------------
(* The server                                                              *)

Change ==
  /\ server.sessions < MaxChanges
  /\ server' = [server EXCEPT !.sessions = server.sessions + 1]
  /\ UNCHANGED <<pushed, rest, wire, running, panel, faults, resumed>>

ClockTicks ==
  /\ server.clock < MaxClock
  /\ server' = [server EXCEPT !.clock = server.clock + 1]
  /\ UNCHANGED <<pushed, rest, wire, running, panel, faults, resumed>>

ClockSetBack ==
  /\ Fault
  /\ server.clock > 0
  /\ server' = [server EXCEPT !.clock = server.clock - 1]
  /\ UNCHANGED <<pushed, rest, wire, running, panel, resumed>>

\* What is on its way may still arrive.
Restart ==
  /\ server.inst <= MaxRestarts
  /\ server' = [server EXCEPT !.inst = server.inst + 1]
  /\ pushed' = [pushed EXCEPT !.read = Nothing]
  /\ rest' = IF rest.stage \in {"asked", "read"} THEN [rest EXCEPT !.stage = "reset"] ELSE rest
  /\ UNCHANGED <<wire, running, panel, faults, resumed>>

RestReads ==
  /\ rest.stage = "asked"
  /\ rest' = [rest EXCEPT !.stage = "read", !.frame =
                [inst |-> server.inst, sessions |-> server.sessions, stamp |-> 0]]
  /\ UNCHANGED <<server, pushed, wire, running, panel, faults, resumed>>

RestStamps ==
  /\ rest.stage = "read"
  /\ rest' = [rest EXCEPT !.stage = "answered", !.frame.stamp = server.clock]
  /\ UNCHANGED <<server, pushed, wire, running, panel, faults, resumed>>

RequestLost ==
  /\ rest.stage \in {"asked", "answered"}
  /\ Fault
  /\ rest' = [rest EXCEPT !.stage = "lost"]
  /\ UNCHANGED <<server, pushed, wire, running, panel, resumed>>

PushReads ==
  /\ pushed.read = Nothing
  /\ pushed' = [pushed EXCEPT !.read = server.sessions]
  /\ UNCHANGED <<server, rest, wire, running, panel, faults, resumed>>

PushSends ==
  /\ panel.socket = "open" /\ pushed.to = server.inst /\ wire = <<>>
  /\ pushed.read # Nothing
  /\ wire' = <<[inst |-> server.inst, sessions |-> pushed.read, stamp |-> server.clock]>>
  /\ pushed' = [pushed EXCEPT !.read = Nothing]
  /\ UNCHANGED <<server, rest, running, panel, faults, resumed>>

PushSkips ==
  /\ pushed.read # Nothing
  /\ pushed' = [pushed EXCEPT !.read = Nothing]
  /\ UNCHANGED <<server, rest, wire, running, panel, faults, resumed>>

-----------------------------------------------------------------------------
Next ==
  \/ PageShow \/ PageHide \/ Refresh \/ Beat \/ HiddenBeat
  \/ AnswerArrives \/ RequestFails \/ ConnectionReset \/ RequestTimesOut \/ Unauthorized
  \/ SocketOpens \/ SocketFails \/ FrameArrives
  \/ Change \/ ClockTicks \/ ClockSetBack \/ Restart
  \/ RestReads \/ RestStamps \/ RequestLost
  \/ PushReads \/ PushSends \/ PushSkips

Spec == Init /\ [][Next]_vars

\* Timers fire, the server answers and its clock goes on.  Nothing is asked of
\* the WebSocket: it may be blocked for ever.
Fairness ==
  /\ WF_vars(Beat)
  /\ WF_vars(RestReads) /\ WF_vars(RestStamps) /\ WF_vars(AnswerArrives)
  /\ WF_vars(RequestTimesOut) /\ WF_vars(ConnectionReset)
  /\ WF_vars(ClockTicks)

FairSpec == Spec /\ Fairness

-----------------------------------------------------------------------------
Frame == [inst : 0 .. MaxRestarts + 1, sessions : 0 .. MaxChanges, stamp : 0 .. MaxClock]

\* null is no frame.
ASSUME ViewAssumption == NoView \notin Frame

Panel ==
  [view : Frame \union {NoView}, instance : 0 .. MaxRestarts + 1,
   observed : Never .. MaxClock, age : 0 .. Stale, expired : BOOLEAN,
   healthy : BOOLEAN, pollIn : 0 .. Poll, socket : {"none", "opening", "open"},
   ready : BOOLEAN, socketAge : 0 .. SocketMax, retryIn : 0 .. MaxDelay,
   delay : 1 .. MaxDelay,
   label : {"none", "connecting", "live", "polling", "reconnecting", "stale", "unauthorized"}]

TypeOK ==
  /\ server \in [inst : 1 .. MaxRestarts + 1, sessions : 0 .. MaxChanges, clock : 0 .. MaxClock]
  /\ pushed \in [read : 0 .. MaxChanges \union {Nothing}, to : 1 .. MaxRestarts + 1]
  /\ rest \in [stage : {"none", "asked", "read", "answered", "lost", "reset"},
               age : 0 .. Request, frame : Frame]
  /\ wire \in Seq(Frame)
  /\ running \in BOOLEAN
  /\ panel \in Panel
  /\ faults \in 0 .. MaxFaults
  /\ resumed \in BOOLEAN

-----------------------------------------------------------------------------
(* Safety                                                                  *)

\* Rows are displayed only while REST has calibrated them recently, whatever
\* the socket brings.
StaleRowsLeave == panel.view # NoView => Fresh(panel) /\ running

\* What is displayed comes from the backend that REST established.
OneBackend == panel.view # NoView => panel.view.inst = panel.instance

\* A backend that was replaced never comes back to the page, and within a
\* backend no frame replaces one with a later stamp.
NothingComesBack ==
  [][/\ panel'.instance >= panel.instance
     /\ panel.view # NoView /\ panel'.view # NoView /\ panel'.instance = panel.instance
          => panel'.view.stamp >= panel.view.stamp]_panel

\* The page claims to be up to date only when it shows something: a failed
\* poll is noticed before the rows expire.  A page that was shown again claims
\* what it did before, until an answer fills it: after the server's clock was
\* set back the answers are ignored until it has caught up.
LabelsAreHonest ==
  running /\ panel.label \in {"live", "polling"} => panel.view # NoView \/ resumed

\* Why, inductively: rows are those of the last frame that was accepted, and
\* they leave when they expire; instances only grow, from the answers on their
\* way to the server itself.
RowsAreAccepted(p) ==
  p.view # NoView => /\ p.view.inst = p.instance
                     /\ p.view.stamp = p.observed
                     /\ ~p.expired

DisplaySound ==
  /\ RowsAreAccepted(panel)
  /\ running /\ ~panel.expired => Fresh(panel)
  /\ Fresh(panel) => ~panel.expired

HiddenPageRests ==
  ~running => panel.view = NoView /\ panel.socket = "none" /\ rest.stage = "none"

InstancesGrow ==
  /\ panel.instance <= server.inst
  /\ rest.stage \in {"read", "answered"} =>
       panel.instance <= rest.frame.inst /\ rest.frame.inst <= server.inst

-----------------------------------------------------------------------------
(* Liveness                                                                *)

\* A page that stays open comes to show what the server knows and stays with
\* it, even when sockets never work, frames and answers overtake each other
\* and the server's clock was set back.
ViewConverges ==
  <>[]running =>
    <>[](panel.view # NoView /\ panel.view.sessions = server.sessions
           /\ panel.instance = server.inst)

=============================================================================
