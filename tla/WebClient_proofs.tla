-------------------------- MODULE WebClient_proofs --------------------------
(* What the Web panel displays is typed, fresh, from one backend and never *)
(* goes back, for every choice of times and bounds.                        *)
EXTENDS WebClient, TLAPS

-----------------------------------------------------------------------------
(* The methods of MonitorClient keep its type                              *)

LEMMA LesserOfBound ==
  ASSUME NEW a \in Nat, NEW b \in Nat
  PROVE  LesserOf(a, b) \in 0 .. a
BY DEF LesserOf

LEMMA ClosedType ==
  ASSUME NEW p \in Panel
  PROVE  Closed(p) \in Panel
BY DEF Panel, Closed

LEMMA RelabelledType ==
  ASSUME NEW p \in Panel
  PROVE  /\ [p EXCEPT !.label = "connecting"] \in Panel
         /\ [p EXCEPT !.view = NoView] \in Panel
         /\ [p EXCEPT !.view = NoView, !.label = "unauthorized"] \in Panel
BY DEF Panel

LEMMA ExpiredType ==
  ASSUME NEW p \in Panel
  PROVE  Expired(p) \in Panel
<1>1. Closed(p) \in Panel
  BY ClosedType
<1>2. [Closed(p) EXCEPT !.expired = TRUE, !.view = NoView, !.label = "stale"] \in Panel
  BY <1>1 DEF Panel
<1>3. QED
  BY <1>2 DEF Expired

LEMMA AcceptedType ==
  ASSUME NEW p \in Panel, NEW frame \in Frame
  PROVE  Accepted(p, frame) \in Panel
<1>1. frame.stamp \in Never .. MaxClock
  BY PanelAssumption DEF Frame, Never
<1>2. [p EXCEPT !.observed = frame.stamp, !.view = frame] \in Panel
  BY <1>1 DEF Panel
<1>3. QED
  BY <1>2 DEF Accepted

LEMMA ConnectingType ==
  ASSUME NEW p \in Panel
  PROVE  Connecting(p) \in Panel
<1>1. 0 \in 0 .. SocketMax
  BY PanelAssumption
<1>2. QED
  BY <1>1 DEF Connecting, Panel

LEMMA RetryingSocketType ==
  ASSUME NEW p \in Panel
  PROVE  RetryingSocket(p) \in Panel
<1>1. p.delay \in 1 .. MaxDelay /\ LesserOf(MaxDelay, 2 * p.delay) \in 1 .. MaxDelay
  BY PanelAssumption DEF Panel, LesserOf
<1>2. p.delay \in 0 .. MaxDelay
  BY <1>1, PanelAssumption
<1>3. QED
  BY <1>1, <1>2 DEF RetryingSocket, Closed, Panel

LEMMA RefreshedType ==
  ASSUME NEW p \in Panel
  PROVE  Refreshed(p) \in Panel
<1>1. Expired(p) \in Panel
  BY ExpiredType
<1>2. QED
  BY <1>1, PanelAssumption DEF Refreshed, Panel

LEMMA TickedType ==
  ASSUME NEW p \in Panel
  PROVE  Ticked(p) \in Panel
<1> DEFINE polled  == IF Polls(p) THEN Refreshed(p) ELSE Expired(p)
           rotated == IF Worn(polled) THEN Closed(polled) ELSE polled
<1>1. polled \in Panel
  BY RefreshedType, ExpiredType
<1>2. rotated \in Panel
  BY <1>1, ClosedType
<1>3. Connecting(rotated) \in Panel
  BY <1>2, ConnectingType
<1>4. QED
  BY <1>2, <1>3 DEF Ticked

LEMMA SameBackendType ==
  ASSUME NEW p \in Panel, NEW frame \in Frame
  PROVE  SameBackend(p, frame) \in Panel
<1>1. Closed(p) \in Panel
  BY ClosedType
<1>2. frame.inst \in 0 .. MaxRestarts + 1 /\ Never \in Never .. MaxClock /\ 0 \in 0 .. MaxDelay
  BY PanelAssumption DEF Frame, Never
<1>3. [Closed(p) EXCEPT !.instance = frame.inst, !.observed = Never, !.retryIn = 0] \in Panel
  BY <1>1, <1>2 DEF Panel
<1>4. QED
  BY <1>3 DEF SameBackend

LEMMA CalibratedType ==
  ASSUME NEW p \in Panel, NEW frame \in Frame
  PROVE  Calibrated(p, frame) \in Panel
<1> DEFINE same       == SameBackend(p, frame)
           calibrated == [same EXCEPT !.age = 0, !.healthy = TRUE, !.expired = FALSE,
                                      !.observed = IF same.expired THEN Never ELSE same.observed]
           shown      == Accepted(calibrated, frame)
           labelled   == [shown EXCEPT !.label = IF shown.ready THEN "live" ELSE "polling"]
<1>1. same \in Panel
  BY SameBackendType
<1>2. calibrated \in Panel
  <2>1. 0 \in 0 .. Stale /\ Never \in Never .. MaxClock
    BY PanelAssumption DEF Never
  <2>2. (IF same.expired THEN Never ELSE same.observed) \in Never .. MaxClock
    BY <1>1, <2>1 DEF Panel
  <2>3. QED
    BY <1>1, <2>1, <2>2 DEF Panel
<1>3. shown \in Panel
  BY <1>2, AcceptedType
<1>4. labelled \in Panel
  BY <1>3 DEF Panel
<1>5. Connecting(labelled) \in Panel
  BY <1>4, ConnectingType
<1>6. QED
  BY <1>4, <1>5 DEF Calibrated

LEMMA FailedType ==
  ASSUME NEW p \in Panel
  PROVE  Failed(p) \in Panel
<1> DEFINE unhealthy == Expired([p EXCEPT !.healthy = FALSE])
<1>1. [p EXCEPT !.healthy = FALSE] \in Panel
  BY DEF Panel
<1>2. unhealthy \in Panel
  BY <1>1, ExpiredType
<1>3. QED
  BY <1>2 DEF Failed, Panel

LEMMA AgedType ==
  ASSUME NEW p \in Panel
  PROVE  Aged(p) \in Panel
<1>1. LesserOf(Stale, p.age + 1) \in 0 .. Stale
  BY PanelAssumption DEF Panel, LesserOf
<1>2. Later(p.pollIn) \in 0 .. Poll /\ Later(p.retryIn) \in 0 .. MaxDelay
  BY PanelAssumption DEF Panel, Later
<1>3. (IF p.socket = "none" THEN 0 ELSE LesserOf(SocketMax, p.socketAge + 1)) \in 0 .. SocketMax
  BY PanelAssumption DEF Panel, LesserOf
<1>4. QED
  BY <1>1, <1>2, <1>3 DEF Aged, Panel

-----------------------------------------------------------------------------
(* What they do to the display                                             *)

\* q is what p becomes when nothing is accepted: the rows stay or expire.
KeepsDisplay(p, q) ==
  /\ q.instance = p.instance /\ q.observed = p.observed /\ q.age = p.age
  /\ \/ q.view = p.view /\ q.expired = p.expired
     \/ q.view = NoView /\ q.expired /\ ~Fresh(p)

LEMMA KeepsDisplayTransitive ==
  ASSUME NEW p, NEW q, NEW r, KeepsDisplay(p, q), KeepsDisplay(q, r)
  PROVE  KeepsDisplay(p, r)
BY DEF KeepsDisplay, Fresh

LEMMA ClosedKeeps ==
  ASSUME NEW p \in Panel
  PROVE  KeepsDisplay(p, Closed(p))
BY DEF KeepsDisplay, Closed, Panel

LEMMA ConnectingKeeps ==
  ASSUME NEW p \in Panel
  PROVE  KeepsDisplay(p, Connecting(p))
BY DEF KeepsDisplay, Connecting, Panel

LEMMA RetryingSocketKeeps ==
  ASSUME NEW p \in Panel
  PROVE  KeepsDisplay(p, RetryingSocket(p))
BY DEF KeepsDisplay, RetryingSocket, Closed, Panel

\* What has not expired is fresh after each of the methods that test it.
LEMMA ExpiredKeeps ==
  ASSUME NEW p \in Panel
  PROVE  KeepsDisplay(p, Expired(p)) /\ (~Expired(p).expired => Fresh(Expired(p)))
BY DEF KeepsDisplay, Expired, Closed, Fresh, Panel

LEMMA RefreshedKeeps ==
  ASSUME NEW p \in Panel
  PROVE  KeepsDisplay(p, Refreshed(p)) /\ (~Refreshed(p).expired => Fresh(Refreshed(p)))
<1> DEFINE q == Expired(p)
<1>1. q \in Panel
  BY ExpiredType
<1>2. KeepsDisplay(p, q) /\ (~q.expired => Fresh(q))
  BY ExpiredKeeps
<1>3. KeepsDisplay(q, Refreshed(p)) /\ Refreshed(p).expired = q.expired
  BY <1>1 DEF KeepsDisplay, Refreshed, Panel
<1>4. Fresh(q) => Fresh(Refreshed(p))
  BY <1>3 DEF KeepsDisplay, Fresh
<1>5. QED
  BY <1>2, <1>3, <1>4, KeepsDisplayTransitive

LEMMA TickedKeeps ==
  ASSUME NEW p \in Panel
  PROVE  KeepsDisplay(p, Ticked(p)) /\ (~Ticked(p).expired => Fresh(Ticked(p)))
<1> DEFINE polled  == IF Polls(p) THEN Refreshed(p) ELSE Expired(p)
           rotated == IF Worn(polled) THEN Closed(polled) ELSE polled
<1>1. polled \in Panel /\ KeepsDisplay(p, polled) /\ (~polled.expired => Fresh(polled))
  BY RefreshedType, ExpiredType, RefreshedKeeps, ExpiredKeeps
<1> HIDE DEF polled
<1>2. /\ rotated \in Panel /\ KeepsDisplay(polled, rotated)
      /\ rotated.expired = polled.expired
  <2>1. /\ Closed(polled) \in Panel /\ KeepsDisplay(polled, Closed(polled))
        /\ Closed(polled).expired = polled.expired
    BY <1>1, ClosedType, ClosedKeeps DEF Closed, Panel
  <2>2. KeepsDisplay(polled, polled)
    BY DEF KeepsDisplay
  <2>3. QED
    BY <1>1, <2>1, <2>2
<1> HIDE DEF rotated
<1>3. KeepsDisplay(rotated, Ticked(p)) /\ Ticked(p).expired = rotated.expired
  <2>1. /\ KeepsDisplay(rotated, Connecting(rotated))
        /\ Connecting(rotated).expired = rotated.expired
    BY <1>2, ConnectingKeeps DEF Connecting, Panel
  <2>2. KeepsDisplay(rotated, rotated)
    BY DEF KeepsDisplay
  <2>3. Ticked(p) \in {rotated, Connecting(rotated)}
    BY DEF Ticked, polled, rotated
  <2>4. QED
    BY <2>1, <2>2, <2>3
<1>4. Fresh(polled) => Fresh(Ticked(p))
  BY <1>2, <1>3 DEF KeepsDisplay, Fresh
<1>5. QED
  BY <1>1, <1>2, <1>3, <1>4, KeepsDisplayTransitive

LEMMA FailedKeeps ==
  ASSUME NEW p \in Panel
  PROVE  KeepsDisplay(p, Failed(p)) /\ (~Failed(p).expired => Fresh(Failed(p)))
<1> DEFINE told      == [p EXCEPT !.healthy = FALSE]
           unhealthy == Expired(told)
<1>1. told \in Panel /\ KeepsDisplay(p, told)
  BY DEF Panel, KeepsDisplay
<1>2. unhealthy \in Panel /\ KeepsDisplay(told, unhealthy)
        /\ (~unhealthy.expired => Fresh(unhealthy))
  BY <1>1, ExpiredType, ExpiredKeeps
<1>3. KeepsDisplay(unhealthy, Failed(p)) /\ Failed(p).expired = unhealthy.expired
  BY <1>2 DEF Failed, KeepsDisplay, Panel
<1>4. Fresh(unhealthy) => Fresh(Failed(p))
  BY <1>3 DEF KeepsDisplay, Fresh
<1>5. QED
  BY <1>1, <1>2, <1>3, <1>4, KeepsDisplayTransitive

\* Rows that are kept are still those of the last frame that was accepted.
LEMMA KeptRowsAreAccepted ==
  ASSUME NEW p, NEW q, RowsAreAccepted(p), KeepsDisplay(p, q)
  PROVE  RowsAreAccepted(q)
BY DEF RowsAreAccepted, KeepsDisplay

\* A frame of the instance of the panel is shown, or has an older stamp.
LEMMA AcceptedShows ==
  ASSUME NEW p \in Panel, NEW frame \in Frame, RowsAreAccepted(p), ~p.expired,
         frame.inst = p.instance
  PROVE  LET q == Accepted(p, frame)
         IN  /\ RowsAreAccepted(q) /\ ~q.expired
             /\ q.instance = p.instance /\ q.age = p.age /\ q.observed >= p.observed
BY PanelAssumption DEF Accepted, RowsAreAccepted, Panel, Frame, Never

\* The answer of a backend is shown, whichever instance it is of, unless a frame
\* of that instance with a later stamp is.
LEMMA CalibratedShows ==
  ASSUME NEW p \in Panel, NEW frame \in Frame, RowsAreAccepted(p)
  PROVE  LET q == Calibrated(p, frame)
         IN  /\ RowsAreAccepted(q) /\ ~q.expired
             /\ q.instance = frame.inst /\ q.age = 0
             /\ p.view # NoView /\ q.instance = p.instance => q.observed >= p.observed
<1> DEFINE same       == SameBackend(p, frame)
           calibrated == [same EXCEPT !.age = 0, !.healthy = TRUE, !.expired = FALSE,
                                      !.observed = IF same.expired THEN Never ELSE same.observed]
           shown      == Accepted(calibrated, frame)
           labelled   == [shown EXCEPT !.label = IF shown.ready THEN "live" ELSE "polling"]
           q          == Calibrated(p, frame)
<1>1. same \in Panel
  BY SameBackendType
<1>2. calibrated \in Panel
  <2>1. 0 \in 0 .. Stale /\ Never \in Never .. MaxClock
    BY PanelAssumption DEF Never
  <2>2. (IF same.expired THEN Never ELSE same.observed) \in Never .. MaxClock
    BY <1>1, <2>1 DEF Panel
  <2>3. QED
    BY <1>1, <2>1, <2>2 DEF Panel
<1>3. calibrated.age = 0 /\ ~calibrated.expired /\ calibrated.instance = frame.inst
  BY <1>1 DEF SameBackend, Closed, Panel
<1>4. /\ RowsAreAccepted(shown) /\ ~shown.expired
      /\ shown.instance = frame.inst /\ shown.age = 0
      /\ p.view # NoView /\ frame.inst = p.instance => shown.observed >= p.observed
  <2>1. CASE frame.inst = p.instance
    <3>1. /\ calibrated.view = p.view
          /\ calibrated.observed = IF p.expired THEN Never ELSE p.observed
      BY <2>1, <1>1 DEF SameBackend, Panel
    <3>2. RowsAreAccepted(calibrated)
      BY <2>1, <3>1, <1>3 DEF RowsAreAccepted
    <3> HIDE DEF calibrated
    <3>3. /\ RowsAreAccepted(shown) /\ ~shown.expired
          /\ shown.instance = calibrated.instance /\ shown.age = calibrated.age
          /\ shown.observed >= calibrated.observed
      BY <3>2, <1>2, <1>3, AcceptedShows
    <3>4. QED
      BY <3>1, <3>3, <1>3 DEF RowsAreAccepted
  <2>2. CASE frame.inst # p.instance
    <3>1. calibrated.observed = Never
      BY <2>2, <1>1 DEF SameBackend, Panel
    <3>2. shown = [calibrated EXCEPT !.observed = frame.stamp, !.view = frame]
      BY <3>1, PanelAssumption DEF Accepted, Frame, Never
    <3> HIDE DEF shown, calibrated
    <3>3. /\ shown.view = frame /\ shown.observed = frame.stamp
          /\ shown.instance = calibrated.instance
          /\ shown.expired = calibrated.expired /\ shown.age = calibrated.age
      BY <3>2, <1>2 DEF Panel
    <3>4. QED
      BY <2>2, <3>3, <1>3 DEF RowsAreAccepted
  <2>3. QED
    BY <2>1, <2>2
<1>5. shown \in Panel
  BY <1>2, AcceptedType
<1> HIDE DEF shown
<1>6. /\ labelled \in Panel /\ KeepsDisplay(shown, labelled)
      /\ labelled.expired = shown.expired
  BY <1>5 DEF KeepsDisplay, Panel
<1> HIDE DEF labelled
<1>7. /\ KeepsDisplay(labelled, Connecting(labelled))
      /\ Connecting(labelled).expired = labelled.expired
  BY <1>6, ConnectingKeeps DEF Connecting, Panel
<1>8. q \in {labelled, Connecting(labelled)}
  BY DEF Calibrated, shown, labelled
<1>9. KeepsDisplay(shown, q) /\ q.expired = shown.expired
  BY <1>6, <1>7, <1>8 DEF KeepsDisplay, Fresh
<1>10. RowsAreAccepted(q)
  BY <1>4, <1>9, KeptRowsAreAccepted
<1> HIDE DEF q
<1>11. QED
  BY <1>4, <1>9, <1>10 DEF KeepsDisplay, q

-----------------------------------------------------------------------------
(* Type correctness                                                        *)

LEMMA NoFrameType ==
  NoFrame \in Frame
BY PanelAssumption DEF NoFrame, Frame

LEMMA SocketedTypes ==
  ASSUME NEW p \in Panel, NEW frames \in Seq(Frame), Socketed(p, frames)
  PROVE  panel' \in Panel /\ wire' \in Seq(Frame)
BY DEF Socketed

PanelTypes == panel \in Panel /\ wire \in Seq(Frame)

RestTypes ==
  rest \in [stage : {"none", "asked", "read", "answered", "lost", "reset"},
            age : 0 .. Request, frame : Frame]

ServerTypes ==
  /\ server \in [inst : 1 .. MaxRestarts + 1, sessions : 0 .. MaxChanges, clock : 0 .. MaxClock]
  /\ pushed \in [read : 0 .. MaxChanges \union {Nothing}, to : 1 .. MaxRestarts + 1]
  /\ running \in BOOLEAN
  /\ faults \in 0 .. MaxFaults
  /\ resumed \in BOOLEAN

LEMMA PanelTypesStep ==
  ASSUME TypeOK, Next
  PROVE  PanelTypes'
<1> DEFINE shown == [panel EXCEPT !.label = "connecting"]
           gone  == [Closed(panel) EXCEPT !.view = NoView]
<1>1. panel \in Panel /\ wire \in Seq(Frame) /\ <<>> \in Seq(Frame)
  BY DEF TypeOK
<1>2. CASE PageShow
  <2>1. shown \in Panel
    BY <1>1, RelabelledType
  <2> HIDE DEF shown
  <2>2. Refreshed(Ticked(shown)) \in Panel
    BY <2>1, TickedType, RefreshedType
  <2>3. QED
    BY <1>1, <1>2, <2>2, SocketedTypes DEF PageShow, PanelTypes, shown
<1>3. CASE PageHide
  <2>1. gone \in Panel
    BY <1>1, ClosedType, RelabelledType
  <2>2. QED
    BY <1>1, <1>3, <2>1, SocketedTypes DEF PageHide, PanelTypes
<1>4. CASE Unauthorized
  <2>1. [Closed(panel) EXCEPT !.view = NoView, !.label = "unauthorized"] \in Panel
    BY <1>1, ClosedType, RelabelledType
  <2>2. QED
    BY <1>1, <1>4, <2>1, SocketedTypes DEF Unauthorized, PanelTypes
<1>5. CASE Refresh
  BY <1>1, <1>5, RefreshedType, SocketedTypes DEF Refresh, PanelTypes
<1>6. CASE Beat \/ HiddenBeat
  BY <1>1, <1>6, AgedType, TickedType, SocketedTypes DEF Beat, HiddenBeat, PanelTypes
<1>7. CASE AnswerArrives
  BY <1>1, <1>7, CalibratedType, SocketedTypes DEF AnswerArrives, PanelTypes, TypeOK
<1>8. CASE RequestFails \/ ConnectionReset \/ RequestTimesOut
  BY <1>1, <1>8, FailedType, SocketedTypes
     DEF RequestFails, ConnectionReset, RequestTimesOut, RequestEnds, PanelTypes
<1>9. CASE SocketOpens
  <2>1. [panel EXCEPT !.socket = "open"] \in Panel
    BY <1>1 DEF Panel
  <2>2. QED
    BY <1>1, <1>9, <2>1 DEF SocketOpens, PanelTypes
<1>10. CASE SocketFails
  BY <1>1, <1>10, RetryingSocketType, SocketedTypes DEF SocketFails, PanelTypes
<1>11. CASE FrameArrives
  <2> DEFINE accepted == Accepted(panel, Head(wire))
  <2>1. Head(wire) \in Frame /\ Tail(wire) \in Seq(Frame)
    BY <1>1, <1>11 DEF FrameArrives
  <2>2. accepted \in Panel
    BY <1>1, <2>1, AcceptedType
  <2>3. [accepted EXCEPT !.ready = TRUE, !.delay = 1,
                         !.label = IF panel.healthy THEN "live" ELSE "reconnecting"] \in Panel
    <3> HIDE DEF accepted
    <3>1. 1 \in 1 .. MaxDelay
      BY PanelAssumption
    <3>2. QED
      BY <2>2, <3>1 DEF Panel
  <2>4. RetryingSocket(panel) \in Panel /\ Refreshed(RetryingSocket(panel)) \in Panel
    BY <1>1, RetryingSocketType, RefreshedType
  <2>5. QED
    BY <1>1, <1>11, <2>1, <2>3, <2>4, SocketedTypes DEF FrameArrives, PanelTypes
<1>12. CASE PushSends
  <2>1. [inst |-> server.inst, sessions |-> pushed.read, stamp |-> server.clock] \in Frame
    <3>1. /\ server.inst \in 1 .. MaxRestarts + 1 /\ server.clock \in 0 .. MaxClock
          /\ pushed.read \in 0 .. MaxChanges
      BY <1>12 DEF PushSends, TypeOK
    <3>2. 1 .. MaxRestarts + 1 \subseteq 0 .. MaxRestarts + 1
      OBVIOUS
    <3>3. QED
      BY <3>1, <3>2 DEF Frame
  <2>2. QED
    BY <1>1, <1>12, <2>1 DEF PushSends, PanelTypes
<1>13. CASE Change \/ ClockTicks \/ ClockSetBack \/ Restart \/ PushReads \/ PushSkips
  BY <1>1, <1>13 DEF Change, ClockTicks, ClockSetBack, Restart, PushReads, PushSkips, PanelTypes
<1>14. CASE RestReads \/ RestStamps \/ RequestLost
  BY <1>1, <1>14 DEF RestReads, RestStamps, RequestLost, PanelTypes
<1>15. QED
  BY <1>2, <1>3, <1>4, <1>5, <1>6, <1>7, <1>8, <1>9, <1>10, <1>11, <1>12, <1>13, <1>14 DEF Next

\* A request that may wait another tick is not past its deadline after it.
LEMMA NextAge ==
  ASSUME NEW age, NEW limit \in Nat \ {0}, NEW lost \in BOOLEAN,
         age \in 0 .. limit, age < (IF lost THEN limit ELSE limit - 1)
  PROVE  age + 1 \in 0 .. limit
<1>1. age \in Int /\ 0 <= age /\ age < limit
  OBVIOUS
<1>2. QED
  BY <1>1

LEMMA RestTypesStep ==
  ASSUME TypeOK, Next
  PROVE  RestTypes'
<1> USE DEF TypeOK, RestTypes
<1>1. NoRequest \in [stage : {"none", "asked", "read", "answered", "lost", "reset"},
                     age : 0 .. Request, frame : Frame]
  BY NoFrameType, PanelAssumption DEF NoRequest
<1>2. Asked \in [stage : {"none", "asked", "read", "answered", "lost", "reset"},
                 age : 0 .. Request, frame : Frame]
  BY <1>1 DEF Asked
<1>3. CASE PageShow \/ PageHide \/ Refresh
  BY <1>1, <1>2, <1>3 DEF PageShow, PageHide, Refresh
<1>4. CASE Beat
  <2>1. CASE rest.stage # "none"
    <3>1. rest.age \in 0 .. Request /\ rest.age < (IF rest.stage = "lost" THEN Request ELSE Request - 1)
      BY <1>4, <2>1 DEF Beat
    <3> HIDE DEF TypeOK, RestTypes
    <3>2. rest.age + 1 \in 0 .. Request
      BY <3>1, PanelAssumption, NextAge
    <3>3. QED
      BY <1>4, <2>1, <3>2 DEF Beat, TypeOK, RestTypes
  <2>2. CASE rest.stage = "none"
    BY <1>2, <1>4, <2>2 DEF Beat
  <2>3. QED
    BY <2>1, <2>2
<1>5. CASE AnswerArrives \/ RequestFails \/ ConnectionReset \/ RequestTimesOut \/ Unauthorized
  BY <1>1, <1>5
     DEF AnswerArrives, RequestFails, ConnectionReset, RequestTimesOut, RequestEnds, Unauthorized
<1>6. CASE HiddenBeat \/ SocketOpens \/ SocketFails \/ PushReads \/ PushSends \/ PushSkips
  BY <1>6 DEF HiddenBeat, SocketOpens, SocketFails, PushReads, PushSends, PushSkips
<1>7. CASE FrameArrives
  BY <1>2, <1>7 DEF FrameArrives
<1>8. CASE Change \/ ClockTicks \/ ClockSetBack
  BY <1>8 DEF Change, ClockTicks, ClockSetBack
<1>9. CASE Restart \/ RequestLost
  BY <1>9 DEF Restart, RequestLost
<1>10. CASE RestReads
  <2>1. [inst |-> server.inst, sessions |-> server.sessions, stamp |-> 0] \in Frame
    BY PanelAssumption DEF Frame
  <2>2. QED
    BY <1>10, <2>1 DEF RestReads
<1>11. CASE RestStamps
  <2>1. [rest.frame EXCEPT !.stamp = server.clock] \in Frame
    BY DEF Frame
  <2>2. rest' = [rest EXCEPT !.stage = "answered", !.frame = [rest.frame EXCEPT !.stamp = server.clock]]
    BY <1>11 DEF RestStamps
  <2>3. QED
    BY <2>1, <2>2
<1>12. QED
  BY <1>3, <1>4, <1>5, <1>6, <1>7, <1>8, <1>9, <1>10, <1>11 DEF Next

\* Counters below their bounds.
LEMMA NextNumber ==
  ASSUME NEW limit \in Nat, NEW n \in 0 .. limit, n < limit
  PROVE  n + 1 \in 0 .. limit
  OBVIOUS
LEMMA PreviousNumber ==
  ASSUME NEW limit \in Nat, NEW n \in 0 .. limit, n > 0
  PROVE  n - 1 \in 0 .. limit
  OBVIOUS
LEMMA NextInstance ==
  ASSUME NEW limit \in Nat, NEW n \in 1 .. limit + 1, n <= limit
  PROVE  n + 1 \in 1 .. limit + 1
  OBVIOUS

LEMMA ServerTypesStep ==
  ASSUME TypeOK, Next
  PROVE  ServerTypes'
<1> USE DEF TypeOK, ServerTypes
<1>1. Fault => faults' \in 0 .. MaxFaults
  BY PanelAssumption DEF Fault
<1>2. CASE PageShow \/ PageHide \/ Refresh \/ Beat \/ HiddenBeat
  BY <1>2 DEF PageShow, PageHide, Refresh, Beat, HiddenBeat
<1>3. CASE AnswerArrives \/ ConnectionReset \/ RequestTimesOut
  BY <1>3 DEF AnswerArrives, ConnectionReset, RequestTimesOut, RequestEnds
<1>4. CASE RequestFails \/ Unauthorized \/ RequestLost
  BY <1>1, <1>4 DEF RequestFails, RequestEnds, Unauthorized, RequestLost
<1>5. CASE SocketOpens \/ SocketFails \/ FrameArrives
  BY <1>5 DEF SocketOpens, SocketFails, FrameArrives
<1>6. CASE Change
  <2>1. server.sessions \in 0 .. MaxChanges /\ server.sessions < MaxChanges
    BY <1>6 DEF Change
  <2>2. server.sessions + 1 \in 0 .. MaxChanges
    BY <2>1, PanelAssumption, NextNumber
  <2>3. QED
    BY <1>6, <2>2 DEF Change
<1>7. CASE ClockTicks
  <2>1. server.clock \in 0 .. MaxClock /\ server.clock < MaxClock
    BY <1>7 DEF ClockTicks
  <2>2. server.clock + 1 \in 0 .. MaxClock
    BY <2>1, PanelAssumption, NextNumber
  <2>3. QED
    BY <1>7, <2>2 DEF ClockTicks
<1>8. CASE ClockSetBack
  <2>1. server.clock \in 0 .. MaxClock /\ server.clock > 0
    BY <1>8 DEF ClockSetBack
  <2>2. server.clock - 1 \in 0 .. MaxClock
    BY <2>1, PanelAssumption, PreviousNumber
  <2>3. QED
    BY <1>1, <1>8, <2>2 DEF ClockSetBack
<1>9. CASE Restart
  <2>1. server.inst \in 1 .. MaxRestarts + 1 /\ server.inst <= MaxRestarts
    BY <1>9 DEF Restart
  <2>2. server.inst + 1 \in 1 .. MaxRestarts + 1
    BY <2>1, PanelAssumption, NextInstance
  <2>3. QED
    BY <1>9, <2>2 DEF Restart
<1>10. CASE RestReads \/ RestStamps
  BY <1>10 DEF RestReads, RestStamps
<1>11. CASE PushReads \/ PushSends \/ PushSkips
  BY <1>11 DEF PushReads, PushSends, PushSkips
<1>12. QED
  BY <1>2, <1>3, <1>4, <1>5, <1>6, <1>7, <1>8, <1>9, <1>10, <1>11 DEF Next

LEMMA TypedInitially ==
  Init => TypeOK
<1> SUFFICES ASSUME Init PROVE TypeOK
  OBVIOUS
<1>1. PanelTypes
  <2>1. /\ 0 \in 0 .. MaxRestarts + 1 /\ Never \in Never .. MaxClock /\ Stale \in 0 .. Stale
        /\ 0 \in 0 .. Poll /\ 0 \in 0 .. SocketMax /\ 0 \in 0 .. MaxDelay
        /\ 1 \in 1 .. MaxDelay
    BY PanelAssumption DEF Never
  <2>2. QED
    BY <2>1 DEF Init, PanelTypes, Panel
<1>2. RestTypes
  BY NoFrameType, PanelAssumption DEF Init, RestTypes, NoRequest
<1>3. ServerTypes
  <2>1. /\ 1 \in 1 .. MaxRestarts + 1 /\ 0 \in 0 .. MaxChanges /\ 0 \in 0 .. MaxClock
        /\ 0 \in 0 .. MaxFaults
    BY PanelAssumption
  <2>2. QED
    BY <2>1 DEF Init, ServerTypes
<1>4. QED
  BY <1>1, <1>2, <1>3 DEF TypeOK, PanelTypes, RestTypes, ServerTypes

LEMMA TypedStep ==
  ASSUME TypeOK, [Next]_vars
  PROVE  TypeOK'
<1>1. CASE Next
  BY <1>1, PanelTypesStep, RestTypesStep, ServerTypesStep
     DEF TypeOK, PanelTypes, RestTypes, ServerTypes
<1>2. CASE UNCHANGED vars
  BY <1>2 DEF vars, TypeOK
<1>3. QED
  BY <1>1, <1>2

\* Type correctness: the panel, the request, what is on its way and the server
\* keep the shape the code gives them.
THEOREM TypeCorrect ==
  Spec => []TypeOK
BY TypedInitially, TypedStep, PTL DEF Spec

-----------------------------------------------------------------------------
(* The display                                                             *)

\* How the panel goes on from p to q without an answer, and in general.
Stays(p, q) ==
  /\ q.instance = p.instance
  /\ p.view # NoView => q.observed >= p.observed

Advances(p, q) ==
  /\ q.instance >= p.instance
  /\ p.view # NoView /\ q.instance = p.instance => q.observed >= p.observed

LEMMA KeptDisplayStays ==
  ASSUME NEW p \in Panel, NEW q, KeepsDisplay(p, q)
  PROVE  Stays(p, q)
BY PanelAssumption DEF KeepsDisplay, Stays, Panel, Never

\* What holds of the panel after a step that accepts no frame.
LEMMA KeptDisplayIsSound ==
  ASSUME TypeOK, DisplaySound, KeepsDisplay(panel, panel'),
         running' /\ ~panel'.expired => Fresh(panel')
  PROVE  DisplaySound' /\ Stays(panel, panel')
<1>1. RowsAreAccepted(panel)
  BY DEF DisplaySound
<1>2. RowsAreAccepted(panel')
  BY <1>1, KeptRowsAreAccepted
<1>3. RowsAreAccepted(panel)'
  BY <1>2 DEF RowsAreAccepted
<1>4. Fresh(panel)' <=> Fresh(panel')
  BY DEF Fresh
<1>5. Fresh(panel') => ~panel'.expired
  BY DEF DisplaySound, KeepsDisplay, Fresh
<1>6. QED
  BY <1>3, <1>4, <1>5, KeptDisplayStays DEF DisplaySound, TypeOK

\* Ageing alone does not change what is displayed.
LEMMA AgedDisplay ==
  ASSUME NEW p \in Panel
  PROVE  /\ Aged(p).view = p.view /\ Aged(p).instance = p.instance
         /\ Aged(p).observed = p.observed /\ Aged(p).expired = p.expired
         /\ Fresh(Aged(p)) => Fresh(p)
<1>1. p.age \in Nat
  BY PanelAssumption DEF Panel
<1>2. Aged(p).age = LesserOf(Stale, p.age + 1)
  BY DEF Aged, Panel
<1>3. Fresh(Aged(p)) => Fresh(p)
  BY <1>1, <1>2, PanelAssumption DEF Fresh, LesserOf
<1>4. QED
  BY <1>3 DEF Aged, Panel

\* A page that is hidden or refused has stopped everything.
LEMMA HiddenPageRestsStep ==
  ASSUME TypeOK, HiddenPageRests, Next
  PROVE  HiddenPageRests'
<1>1. panel \in Panel
  BY DEF TypeOK
<1>2. CASE PageHide \/ Unauthorized
  <2>1. panel'.view = NoView /\ panel'.socket = "none"
    BY <1>1, <1>2 DEF PageHide, Unauthorized, Socketed, Closed, Panel
  <2>2. rest'.stage = "none"
    BY <1>2 DEF PageHide, Unauthorized, NoRequest
  <2>3. QED
    BY <2>1, <2>2 DEF HiddenPageRests
<1>3. CASE HiddenBeat
  <2>1. Aged(panel).socket = panel.socket
    BY <1>1 DEF Aged, Panel
  <2>2. QED
    BY <1>1, <1>3, <2>1, AgedDisplay DEF HiddenBeat, HiddenPageRests
<1>4. CASE running /\ ~(PageHide \/ Unauthorized)
  BY <1>4
     DEF Next, PageShow, Refresh, Beat, HiddenBeat, AnswerArrives, RequestFails, ConnectionReset,
         RequestTimesOut, RequestEnds, SocketOpens, SocketFails, FrameArrives, Change, ClockTicks,
         ClockSetBack, Restart, RestReads, RestStamps, RequestLost, PushReads, PushSends,
         PushSkips, HiddenPageRests
<1>5. CASE ~running /\ ~HiddenBeat
  <2>1. ~(AnswerArrives \/ RequestFails \/ ConnectionReset \/ RequestTimesOut \/ Unauthorized)
    BY <1>5 DEF HiddenPageRests, AnswerArrives, RequestFails, ConnectionReset, RequestTimesOut,
                Unauthorized
  <2>2. ~(RestReads \/ RestStamps \/ RequestLost)
    BY <1>5 DEF HiddenPageRests, RestReads, RestStamps, RequestLost
  <2>3. ~(PageHide \/ Refresh \/ Beat \/ SocketOpens \/ SocketFails \/ FrameArrives \/ PushSends)
    BY <1>5 DEF HiddenPageRests, PageHide, Refresh, Beat, SocketOpens, SocketFails, FrameArrives,
                PushSends
  <2>4. CASE PageShow
    BY <2>4 DEF PageShow, HiddenPageRests
  <2>5. CASE Change \/ ClockTicks \/ ClockSetBack \/ Restart \/ PushReads \/ PushSkips
    BY <1>5, <2>5 DEF Change, ClockTicks, ClockSetBack, Restart, PushReads, PushSkips,
                      HiddenPageRests
  <2>6. QED
    BY <1>5, <2>1, <2>2, <2>3, <2>4, <2>5 DEF Next
<1>6. QED
  BY <1>2, <1>3, <1>4, <1>5

LEMMA PageStepIsSound ==
  ASSUME TypeOK, DisplaySound, PageShow \/ PageHide \/ Unauthorized \/ Refresh
  PROVE  DisplaySound' /\ Stays(panel, panel')
<1> DEFINE begun == [panel EXCEPT !.label = "connecting"]
<1>1. panel \in Panel
  BY DEF TypeOK
<1>2. CASE PageShow
  <2>1. begun \in Panel /\ KeepsDisplay(panel, begun)
    BY <1>1 DEF KeepsDisplay, Panel
  <2>2. Ticked(begun) \in Panel /\ KeepsDisplay(begun, Ticked(begun))
    BY <2>1, TickedType, TickedKeeps
  <2>3. panel' = Refreshed(Ticked(begun)) /\ running'
    BY <1>2 DEF PageShow, Socketed
  <2> HIDE DEF begun
  <2>4. /\ KeepsDisplay(Ticked(begun), panel')
        /\ ~panel'.expired => Fresh(panel')
    BY <2>2, <2>3, RefreshedKeeps
  <2>5. KeepsDisplay(panel, panel')
    BY <2>1, <2>2, <2>4, KeepsDisplayTransitive
  <2>6. QED
    BY <2>3, <2>4, <2>5, KeptDisplayIsSound
<1>3. CASE PageHide \/ Unauthorized
  <2>1. /\ panel'.view = NoView /\ panel'.instance = panel.instance
        /\ panel'.observed = panel.observed /\ ~running'
        /\ panel'.age = panel.age /\ panel'.expired = panel.expired
    BY <1>1, <1>3 DEF PageHide, Unauthorized, Socketed, Closed, Panel
  <2>2. Stays(panel, panel')
    BY <1>1, <2>1, PanelAssumption DEF Stays, Panel, Never
  <2>3. QED
    BY <2>1, <2>2 DEF DisplaySound, RowsAreAccepted, Fresh
<1>4. CASE Refresh
  <2>1. panel' = Refreshed(panel) /\ running' = running
    BY <1>4 DEF Refresh, Socketed
  <2>2. KeepsDisplay(panel, panel') /\ (~panel'.expired => Fresh(panel'))
    BY <1>1, <2>1, RefreshedKeeps
  <2>3. QED
    BY <2>2, KeptDisplayIsSound
<1>5. QED
  BY <1>2, <1>3, <1>4

LEMMA TimeStepIsSound ==
  ASSUME TypeOK, DisplaySound, HiddenPageRests, Beat \/ HiddenBeat
  PROVE  DisplaySound' /\ Stays(panel, panel')
<1>1. panel \in Panel
  BY DEF TypeOK
<1>2. CASE Beat
  <2> DEFINE aged == Aged(panel)
  <2>1. aged \in Panel /\ aged.view = panel.view /\ aged.instance = panel.instance
          /\ aged.observed = panel.observed /\ aged.expired = panel.expired
          /\ (Fresh(aged) => Fresh(panel))
    BY <1>1, AgedType, AgedDisplay
  <2>2. panel' = Ticked(aged) /\ running'
    BY <1>2 DEF Beat, Socketed
  <2> HIDE DEF aged
  <2>3. KeepsDisplay(aged, panel') /\ (~panel'.expired => Fresh(panel'))
    BY <2>1, <2>2, TickedKeeps
  <2>4. RowsAreAccepted(aged)
    BY <2>1 DEF DisplaySound, RowsAreAccepted
  <2>5. RowsAreAccepted(panel')
    BY <2>3, <2>4, KeptRowsAreAccepted
  <2>6. Stays(aged, panel')
    BY <2>1, <2>3, KeptDisplayStays
  <2>7. Fresh(panel') => ~panel'.expired
    BY <2>1, <2>3 DEF DisplaySound, KeepsDisplay, Fresh
  <2>8. QED
    BY <2>1, <2>2, <2>3, <2>5, <2>6, <2>7 DEF DisplaySound, RowsAreAccepted, Stays, Fresh
<1>3. CASE HiddenBeat
  <2>1. panel' = Aged(panel) /\ ~running /\ ~running'
    BY <1>3 DEF HiddenBeat
  <2>2. panel'.view = NoView
    BY <1>1, <2>1, AgedDisplay DEF HiddenPageRests
  <2>3. Stays(panel, panel')
    BY <1>1, <2>1, AgedDisplay, PanelAssumption DEF Stays, Panel, Never
  <2>4. Fresh(panel') => ~panel'.expired
    BY <1>1, <2>1, AgedDisplay DEF DisplaySound
  <2>5. QED
    BY <2>1, <2>2, <2>3, <2>4 DEF DisplaySound, RowsAreAccepted, Fresh
<1>4. QED
  BY <1>2, <1>3

LEMMA AnswerStepIsSound ==
  ASSUME TypeOK, DisplaySound, InstancesGrow, AnswerArrives
  PROVE  DisplaySound' /\ Advances(panel, panel') /\ panel'.instance = rest.frame.inst
<1>1. panel \in Panel /\ rest.frame \in Frame /\ RowsAreAccepted(panel)
  BY DEF TypeOK, DisplaySound
<1>2. panel' = Calibrated(panel, rest.frame) /\ running' = running /\ rest.stage = "answered"
  BY DEF AnswerArrives, Socketed
<1>3. /\ RowsAreAccepted(panel') /\ ~panel'.expired
      /\ panel'.instance = rest.frame.inst /\ panel'.age = 0
      /\ panel.view # NoView /\ panel'.instance = panel.instance
           => panel'.observed >= panel.observed
  BY <1>1, <1>2, CalibratedShows
<1>4. Fresh(panel')
  BY <1>3, PanelAssumption DEF Fresh
<1>5. Advances(panel, panel')
  BY <1>1, <1>2, <1>3 DEF InstancesGrow, Advances, Frame, Panel
<1>6. QED
  BY <1>2, <1>3, <1>4, <1>5 DEF DisplaySound, RowsAreAccepted, Fresh

LEMMA FailedStepIsSound ==
  ASSUME TypeOK, DisplaySound, RequestEnds
  PROVE  DisplaySound' /\ Stays(panel, panel')
<1>1. panel \in Panel /\ panel' = Failed(panel)
  BY DEF TypeOK, RequestEnds, Socketed
<1>2. KeepsDisplay(panel, panel') /\ (~panel'.expired => Fresh(panel'))
  BY <1>1, FailedKeeps
<1>3. QED
  BY <1>2, KeptDisplayIsSound

LEMMA SocketStepIsSound ==
  ASSUME TypeOK, DisplaySound, SocketOpens \/ SocketFails
  PROVE  DisplaySound' /\ Stays(panel, panel')
<1>1. panel \in Panel
  BY DEF TypeOK
<1>2. /\ KeepsDisplay(panel, panel') /\ panel'.expired = panel.expired
      /\ running' = running
  <2>1. CASE SocketOpens
    BY <1>1, <2>1 DEF SocketOpens, KeepsDisplay, Panel
  <2>2. CASE SocketFails
    BY <1>1, <2>2, RetryingSocketKeeps
       DEF SocketFails, Socketed, RetryingSocket, Closed, Panel
  <2>3. QED
    BY <2>1, <2>2
<1>3. running' /\ ~panel'.expired => Fresh(panel')
  BY <1>2 DEF DisplaySound, KeepsDisplay, Fresh
<1>4. QED
  BY <1>2, <1>3, KeptDisplayIsSound

LEMMA FrameStepIsSound ==
  ASSUME TypeOK, DisplaySound, HiddenPageRests, FrameArrives
  PROVE  DisplaySound' /\ Stays(panel, panel')
<1> DEFINE frame    == Head(wire)
           retried  == RetryingSocket(panel)
           accepted == Accepted(panel, frame)
<1>1. /\ panel \in Panel /\ Fresh(panel) /\ running /\ running'
      /\ RowsAreAccepted(panel) /\ ~panel.expired
  BY DEF TypeOK, FrameArrives, HiddenPageRests, DisplaySound
<1>2. frame \in Frame
  BY DEF TypeOK, FrameArrives
<1>3. CASE ~FrameFits(panel, frame)
  <2>1. panel' \in {retried, Refreshed(retried)}
    BY <1>3 DEF FrameArrives, Socketed
  <2>2. /\ retried \in Panel /\ KeepsDisplay(panel, retried)
        /\ Fresh(retried)
    BY <1>1, RetryingSocketType, RetryingSocketKeeps DEF KeepsDisplay, Fresh
  <2> HIDE DEF retried
  <2>3. KeepsDisplay(retried, Refreshed(retried))
    BY <2>2, RefreshedKeeps
  <2>4. KeepsDisplay(panel, panel')
    BY <2>1, <2>2, <2>3, KeepsDisplayTransitive
  <2>5. Fresh(panel')
    BY <1>1, <2>4 DEF KeepsDisplay, Fresh
  <2>6. QED
    BY <2>4, <2>5, KeptDisplayIsSound
<1>4. CASE FrameFits(panel, frame)
  <2>1. panel' = [accepted EXCEPT !.ready = TRUE, !.delay = 1,
                                  !.label = IF panel.healthy THEN "live" ELSE "reconnecting"]
    BY <1>4 DEF FrameArrives, Socketed
  <2>2. accepted \in Panel
    BY <1>1, <1>2, AcceptedType
  <2>3. accepted \in {panel, [panel EXCEPT !.observed = frame.stamp, !.view = frame]}
    BY DEF Accepted
  <2>4. /\ RowsAreAccepted(accepted) /\ accepted.observed >= panel.observed
        /\ accepted.instance = panel.instance /\ accepted.age = panel.age
        /\ ~accepted.expired
    BY <1>1, <1>2, <1>4, AcceptedShows DEF FrameFits
  <2> HIDE DEF accepted
  <2>5. KeepsDisplay(accepted, panel')
    BY <2>1, <2>2 DEF KeepsDisplay, Panel
  <2>6. RowsAreAccepted(panel')
    BY <2>4, <2>5, KeptRowsAreAccepted
  <2>7. panel'.observed >= panel.observed /\ panel'.instance = panel.instance /\ Fresh(panel')
    BY <1>1, <2>4, <2>5 DEF KeepsDisplay, Fresh
  <2>8. ~panel'.expired
    BY <2>1, <2>2, <2>4 DEF Panel
  <2>9. Stays(panel, panel')
    BY <1>1, <2>7, PanelAssumption DEF Stays, Panel
  <2>10. QED
    BY <1>1, <2>6, <2>7, <2>8, <2>9 DEF DisplaySound, RowsAreAccepted, Fresh
<1>5. QED
  BY <1>3, <1>4

LEMMA ServerStepIsSound ==
  ASSUME TypeOK, DisplaySound, UNCHANGED <<panel, running>>
  PROVE  DisplaySound' /\ Stays(panel, panel')
<1>1. KeepsDisplay(panel, panel')
  BY DEF KeepsDisplay
<1>2. running' /\ ~panel'.expired => Fresh(panel')
  BY DEF DisplaySound, Fresh
<1>3. QED
  BY <1>1, <1>2, KeptDisplayIsSound

LEMMA OtherStepIsSound ==
  ASSUME TypeOK, DisplaySound, HiddenPageRests, [Next]_vars, ~AnswerArrives
  PROVE  DisplaySound' /\ Stays(panel, panel')
<1>1. CASE PageShow \/ PageHide \/ Unauthorized \/ Refresh
  BY <1>1, PageStepIsSound
<1>2. CASE Beat \/ HiddenBeat
  BY <1>2, TimeStepIsSound
<1>4. CASE RequestFails \/ ConnectionReset \/ RequestTimesOut
  BY <1>4, FailedStepIsSound DEF RequestFails, ConnectionReset, RequestTimesOut
<1>5. CASE SocketOpens \/ SocketFails
  BY <1>5, SocketStepIsSound
<1>6. CASE FrameArrives
  BY <1>6, FrameStepIsSound
<1>7. CASE \/ Change \/ ClockTicks \/ ClockSetBack \/ Restart
           \/ RestReads \/ RestStamps \/ RequestLost \/ PushReads \/ PushSends \/ PushSkips
  BY <1>7, ServerStepIsSound
     DEF Change, ClockTicks, ClockSetBack, Restart, RestReads, RestStamps, RequestLost,
         PushReads, PushSends, PushSkips
<1>8. CASE UNCHANGED vars
  BY <1>8, ServerStepIsSound DEF vars
<1>9. QED
  BY <1>1, <1>2, <1>4, <1>5, <1>6, <1>7, <1>8 DEF Next

LEMMA DisplayStep ==
  ASSUME TypeOK, DisplaySound, HiddenPageRests, InstancesGrow, [Next]_vars
  PROVE  DisplaySound' /\ Advances(panel, panel')
<1>1. Stays(panel, panel') => Advances(panel, panel')
  BY PanelAssumption DEF Stays, Advances, TypeOK, Panel
<1>2. QED
  BY <1>1, AnswerStepIsSound, OtherStepIsSound

LEMMA InstancesGrowStep ==
  ASSUME TypeOK, DisplaySound, HiddenPageRests, InstancesGrow, [Next]_vars
  PROVE  InstancesGrow'
<1> USE DEF InstancesGrow
<1>1. CASE AnswerArrives
  <2>1. panel'.instance = rest.frame.inst /\ rest'.stage = "none" /\ server' = server
    BY <1>1, AnswerStepIsSound DEF AnswerArrives, NoRequest
  <2>2. QED
    BY <1>1, <2>1 DEF AnswerArrives
<1>2. CASE ~AnswerArrives
  <2>1. panel'.instance = panel.instance
    BY <1>2, OtherStepIsSound DEF Stays
  <2>2. CASE Restart
    <3>1. /\ server.inst \in 1 .. MaxRestarts + 1 /\ server'.inst = server.inst + 1
          /\ panel.instance \in Int
      BY <2>2 DEF Restart, TypeOK, Panel
    <3>2. /\ rest'.stage \in {"read", "answered"} => rest' = rest
          /\ rest.frame.inst \in 0 .. MaxRestarts + 1
      BY <2>2 DEF Restart, TypeOK, Frame
    <3>3. \A n \in Int, m \in 1 .. MaxRestarts + 1 : n <= m => n <= m + 1
      BY PanelAssumption
    <3>4. panel.instance <= server.inst + 1
      BY <3>1, <3>3
    <3>5. rest.frame.inst <= server.inst => rest.frame.inst <= server.inst + 1
      BY <3>1, <3>2, <3>3
    <3>6. QED
      BY <2>1, <3>1, <3>2, <3>4, <3>5
  <2>3. CASE RestReads
    BY <2>1, <2>3 DEF RestReads, TypeOK
  <2>4. CASE RestStamps
    BY <2>1, <2>4 DEF RestStamps, TypeOK, Frame
  <2>5. CASE RequestLost
    BY <2>1, <2>5 DEF RequestLost, TypeOK
  <2>6. CASE Beat
    BY <2>1, <2>6 DEF Beat, TypeOK, Asked, NoRequest
  <2>7. CASE PageShow \/ PageHide \/ Unauthorized \/ Refresh
    BY <2>1, <2>7 DEF PageShow, PageHide, Unauthorized, Refresh, Asked, NoRequest
  <2>8. CASE RequestFails \/ ConnectionReset \/ RequestTimesOut
    BY <2>1, <2>8 DEF RequestFails, ConnectionReset, RequestTimesOut, RequestEnds, NoRequest
  <2>9. CASE FrameArrives
    BY <2>1, <2>9 DEF FrameArrives, Asked, NoRequest
  <2>10. CASE Change \/ ClockTicks \/ ClockSetBack
    BY <2>1, <2>10 DEF Change, ClockTicks, ClockSetBack, TypeOK
  <2>11. CASE HiddenBeat \/ SocketOpens \/ SocketFails \/ PushReads \/ PushSends \/ PushSkips
    BY <2>1, <2>11 DEF HiddenBeat, SocketOpens, SocketFails, PushReads, PushSends, PushSkips
  <2>12. CASE UNCHANGED vars
    BY <2>12 DEF vars
  <2>13. QED
    BY <1>2, <2>2, <2>3, <2>4, <2>5, <2>6, <2>7, <2>8, <2>9, <2>10, <2>11, <2>12 DEF Next
<1>3. QED
  BY <1>1, <1>2

-----------------------------------------------------------------------------
PanelInv == TypeOK /\ DisplaySound /\ HiddenPageRests /\ InstancesGrow

LEMMA PanelInvInitially ==
  Init => PanelInv
<1> SUFFICES ASSUME Init PROVE PanelInv
  OBVIOUS
<1>1. TypeOK
  BY TypedInitially
<1>2. DisplaySound
  BY PanelAssumption DEF Init, DisplaySound, RowsAreAccepted, Fresh
<1>3. HiddenPageRests /\ InstancesGrow
  BY DEF Init, HiddenPageRests, InstancesGrow, NoRequest
<1>4. QED
  BY <1>1, <1>2, <1>3 DEF PanelInv

LEMMA HiddenPageRestsAlways ==
  ASSUME TypeOK, HiddenPageRests, [Next]_vars
  PROVE  HiddenPageRests'
BY HiddenPageRestsStep DEF HiddenPageRests, vars

\* The invariant of the panel: what it displays is the last frame it accepted,
\* is fresh, and instances only grow on their way from the server to it.
THEOREM PanelInvariant ==
  Spec => []PanelInv
<1>1. PanelInv /\ [Next]_vars => PanelInv'
  BY TypedStep, DisplayStep, HiddenPageRestsAlways, InstancesGrowStep DEF PanelInv
<1>2. QED
  BY <1>1, PanelInvInitially, PTL DEF Spec

\* Rows are displayed only while REST has confirmed them recently and the page
\* is shown, whatever the socket brings.
THEOREM StaleRowsAlwaysLeave ==
  Spec => []StaleRowsLeave
<1>1. PanelInv => StaleRowsLeave
  BY DEF PanelInv, DisplaySound, HiddenPageRests, RowsAreAccepted, StaleRowsLeave
<1>2. QED
  BY <1>1, PanelInvariant, PTL

\* What is displayed comes from the backend that REST established.
THEOREM RowsOfOneBackend ==
  Spec => []OneBackend
<1>1. PanelInv => OneBackend
  BY DEF PanelInv, DisplaySound, RowsAreAccepted, OneBackend
<1>2. QED
  BY <1>1, PanelInvariant, PTL

\* No backend that was replaced comes back, and none of its frames replaces
\* rows with a later stamp.
THEOREM NothingEverComesBack ==
  Spec => NothingComesBack
<1>1. PanelInv /\ PanelInv' /\ [Next]_vars
        => [/\ panel'.instance >= panel.instance
            /\ panel.view # NoView /\ panel'.view # NoView /\ panel'.instance = panel.instance
                 => panel'.view.stamp >= panel.view.stamp]_panel
  BY DisplayStep DEF PanelInv, DisplaySound, RowsAreAccepted, Advances
<1>2. QED
  BY <1>1, PanelInvariant, PTL DEF Spec, NothingComesBack

-----------------------------------------------------------------------------
(* What the label says                                                     *)

\* The label of p claims to be up to date only while p is healthy, and then p
\* shows something.
LabelSound(p) ==
  /\ ~p.expired => p.view # NoView
  /\ p.label \in {"live", "polling"} => p.healthy
  /\ p.healthy => ~p.expired

\* As long as REST answers, the next request leaves Poll after the last answer
\* and ends Request later.
Punctual(p, request) ==
  p.healthy => IF request.stage = "none"
               THEN p.age + p.pollIn <= Poll /\ (p.pollIn = 0 => p.age = 0)
               ELSE p.age <= Poll + request.age

LabelInv == running /\ ~resumed => LabelSound(panel) /\ Punctual(panel, rest)

\* q has the times and the health of p.
KeepsTime(p, q) == q.age = p.age /\ q.pollIn = p.pollIn /\ q.healthy = p.healthy

LEMMA PunctualIsFresh ==
  ASSUME TypeOK, Punctual(panel, rest), panel.healthy
  PROVE  Fresh(panel) /\ panel.age <= Poll + Request
<1>1. /\ panel.age \in Nat /\ panel.pollIn \in Nat /\ rest.age \in 0 .. Request
      /\ Poll \in Nat /\ Request \in Nat /\ Stale \in Nat /\ Poll + Request < Stale
  BY PanelAssumption DEF TypeOK, Panel
<1>2. panel.age + panel.pollIn <= Poll \/ panel.age <= Poll + rest.age
  BY DEF Punctual
<1>3. panel.age <= Poll + Request
  BY <1>1, <1>2
<1>4. QED
  BY <1>1, <1>3 DEF Fresh

LEMMA ClosedIsHonest ==
  ASSUME NEW p \in Panel, LabelSound(p)
  PROVE  LabelSound(Closed(p)) /\ KeepsTime(p, Closed(p))
BY DEF LabelSound, KeepsTime, Closed, Panel

LEMMA ConnectingIsHonest ==
  ASSUME NEW p \in Panel, LabelSound(p)
  PROVE  LabelSound(Connecting(p)) /\ KeepsTime(p, Connecting(p))
BY DEF LabelSound, KeepsTime, Connecting, Panel

LEMMA RetryingIsHonest ==
  ASSUME NEW p \in Panel, LabelSound(p)
  PROVE  LabelSound(RetryingSocket(p)) /\ KeepsTime(p, RetryingSocket(p))
BY DEF LabelSound, KeepsTime, RetryingSocket, Closed, Panel

LEMMA ExpiredIsHonest ==
  ASSUME NEW p \in Panel, LabelSound(p), p.healthy => Fresh(p)
  PROVE  LabelSound(Expired(p)) /\ KeepsTime(p, Expired(p))
BY DEF LabelSound, KeepsTime, Expired, Closed, Panel

LEMMA RefreshedIsHonest ==
  ASSUME NEW p \in Panel, LabelSound(p), p.healthy => Fresh(p)
  PROVE  /\ LabelSound(Refreshed(p)) /\ Refreshed(p).pollIn = Poll
         /\ Refreshed(p).age = p.age /\ Refreshed(p).healthy = p.healthy
<1> DEFINE q == Expired(p)
<1>1. q \in Panel /\ LabelSound(q) /\ KeepsTime(p, q)
  BY ExpiredType, ExpiredIsHonest
<1> HIDE DEF q
<1>2. /\ LabelSound([q EXCEPT !.pollIn = Poll])
      /\ [q EXCEPT !.pollIn = Poll].age = q.age
      /\ [q EXCEPT !.pollIn = Poll].healthy = q.healthy
      /\ [q EXCEPT !.pollIn = Poll].pollIn = Poll
  BY <1>1 DEF LabelSound, Panel
<1>3. QED
  BY <1>1, <1>2 DEF Refreshed, KeepsTime, q

LEMMA TickedIsHonest ==
  ASSUME NEW p \in Panel, LabelSound(p), p.healthy => Fresh(p)
  PROVE  /\ LabelSound(Ticked(p))
         /\ Ticked(p).age = p.age /\ Ticked(p).healthy = p.healthy
         /\ Ticked(p).pollIn = IF Polls(p) THEN Poll ELSE p.pollIn
<1> DEFINE polled  == IF Polls(p) THEN Refreshed(p) ELSE Expired(p)
           rotated == IF Worn(polled) THEN Closed(polled) ELSE polled
<1>1. /\ polled \in Panel /\ LabelSound(polled)
      /\ polled.age = p.age /\ polled.healthy = p.healthy
      /\ polled.pollIn = IF Polls(p) THEN Poll ELSE p.pollIn
  BY RefreshedType, ExpiredType, RefreshedIsHonest, ExpiredIsHonest DEF KeepsTime
<1> HIDE DEF polled
<1>2. rotated \in Panel /\ LabelSound(rotated) /\ KeepsTime(polled, rotated)
  BY <1>1, ClosedType, ClosedIsHonest DEF KeepsTime
<1> HIDE DEF rotated
<1>3. Ticked(p) \in {rotated, Connecting(rotated)}
  BY DEF Ticked, polled, rotated
<1>4. LabelSound(Ticked(p)) /\ KeepsTime(rotated, Ticked(p))
  BY <1>2, <1>3, ConnectingIsHonest DEF KeepsTime
<1>5. QED
  BY <1>1, <1>2, <1>4 DEF KeepsTime

LEMMA FailedIsHonest ==
  ASSUME NEW p \in Panel, LabelSound(p)
  PROVE  LabelSound(Failed(p)) /\ ~Failed(p).healthy
<1> DEFINE told      == [p EXCEPT !.healthy = FALSE]
           unhealthy == Expired(told)
<1>0. p \in Panel /\ (~p.expired => p.view # NoView)
  BY DEF LabelSound
<1>1. /\ told \in Panel /\ ~told.healthy /\ (~told.expired => told.view # NoView)
  BY <1>0 DEF Panel
<1> HIDE DEF told
<1>2. /\ unhealthy \in Panel /\ ~unhealthy.healthy
      /\ ~unhealthy.expired => unhealthy.view # NoView
  <2>1. Expired(told) \in Panel
    BY <1>1, ExpiredType
  <2>2. CASE Expired(told) = told
    BY <1>1, <2>1, <2>2
  <2>3. CASE Expired(told) # told
    <3>1. Expired(told) = [Closed(told) EXCEPT !.expired = TRUE, !.view = NoView, !.label = "stale"]
      BY <2>3 DEF Expired
    <3>2. Closed(told) \in Panel /\ ~Closed(told).healthy
      BY <1>1, ClosedType DEF Closed, Panel
    <3>3. QED
      BY <2>1, <3>1, <3>2 DEF Panel
  <2>4. QED
    BY <2>2, <2>3
<1>3. Failed(p) = [unhealthy EXCEPT !.label = IF unhealthy.expired THEN "stale"
                                              ELSE "reconnecting"]
  BY DEF Failed, told
<1> HIDE DEF unhealthy
<1>4. QED
  BY <1>2, <1>3 DEF LabelSound, Panel

\* An answer fills a page that expired, and does not empty one that shows rows.
LEMMA CalibratedFills ==
  ASSUME NEW p \in Panel, NEW frame \in Frame
  PROVE  LET q == Calibrated(p, frame)
         IN  /\ q.healthy /\ ~q.expired /\ q.age = 0 /\ q.pollIn = p.pollIn
             /\ p.expired \/ p.view # NoView => q.view # NoView
<1> DEFINE same       == SameBackend(p, frame)
           calibrated == [same EXCEPT !.age = 0, !.healthy = TRUE, !.expired = FALSE,
                                      !.observed = IF same.expired THEN Never ELSE same.observed]
           shown      == Accepted(calibrated, frame)
           labelled   == [shown EXCEPT !.label = IF shown.ready THEN "live" ELSE "polling"]
           q          == Calibrated(p, frame)
<1>1. same \in Panel /\ same.view = p.view /\ same.expired = p.expired /\ same.pollIn = p.pollIn
  BY SameBackendType DEF SameBackend, Closed, Panel
<1> HIDE DEF same
<1>2. calibrated \in Panel
  <2>1. 0 \in 0 .. Stale /\ Never \in Never .. MaxClock
    BY PanelAssumption DEF Never
  <2>2. (IF same.expired THEN Never ELSE same.observed) \in Never .. MaxClock
    BY <1>1, <2>1 DEF Panel
  <2>3. QED
    BY <1>1, <2>1, <2>2 DEF Panel
<1>3. /\ calibrated.healthy /\ ~calibrated.expired /\ calibrated.age = 0
      /\ calibrated.pollIn = p.pollIn /\ calibrated.view = p.view
      /\ p.expired => calibrated.observed = Never
  BY <1>1 DEF Panel
<1> HIDE DEF calibrated
<1>4. /\ shown \in Panel /\ shown.healthy /\ ~shown.expired /\ shown.age = 0
      /\ shown.pollIn = p.pollIn
      /\ p.expired \/ p.view # NoView => shown.view # NoView
  <2>1. shown \in Panel
    BY <1>2, AcceptedType
  <2>2. CASE frame.stamp < calibrated.observed
    <3>1. shown = calibrated /\ ~p.expired
      BY <1>3, <2>2, PanelAssumption DEF Accepted, Frame, Never
    <3>2. QED
      BY <1>3, <2>1, <3>1
  <2>3. CASE ~(frame.stamp < calibrated.observed)
    <3>1. shown = [calibrated EXCEPT !.observed = frame.stamp, !.view = frame]
      BY <2>3 DEF Accepted
    <3>2. shown.view # NoView
      BY <1>2, <3>1, ViewAssumption DEF Panel
    <3>3. QED
      BY <1>2, <1>3, <2>1, <3>1, <3>2 DEF Panel
  <2>4. QED
    BY <2>2, <2>3
<1> HIDE DEF shown
<1>5. /\ labelled \in Panel /\ labelled.healthy /\ ~labelled.expired /\ labelled.age = 0
      /\ labelled.pollIn = p.pollIn /\ labelled.view = shown.view
  BY <1>4 DEF Panel
<1>6. q \in {labelled, Connecting(labelled)}
  BY DEF Calibrated, same, calibrated, shown, labelled
<1> HIDE DEF labelled
<1>7. /\ q.healthy /\ ~q.expired /\ q.age = 0 /\ q.pollIn = p.pollIn /\ q.view = shown.view
  <2>1. CASE q = labelled
    BY <1>5, <2>1
  <2>2. CASE q = Connecting(labelled)
    <3> HIDE DEF q
    <3>1. q = [labelled EXCEPT !.socket = "opening", !.ready = FALSE, !.socketAge = 0]
      BY <2>2 DEF Connecting
    <3>2. QED
      BY <1>5, <3>1 DEF Panel
  <2>3. QED
    BY <1>6, <2>1, <2>2
<1>8. QED
  BY <1>4, <1>7

\* A beat neither misses a poll nor lets a healthy page expire.
LEMMA BeatIsHonest ==
  ASSUME TypeOK, running, LabelSound(panel), Punctual(panel, rest), Beat
  PROVE  LabelSound(panel') /\ Punctual(panel', rest')
<1> DEFINE aged == Aged(panel)
<1>1. /\ panel \in Panel /\ panel.age \in 0 .. Stale /\ panel.pollIn \in 0 .. Poll
      /\ rest.age \in 0 .. Request /\ panel.age \in Nat /\ panel.pollIn \in Nat
      /\ Poll \in Nat \ {0} /\ Request \in Nat /\ Stale \in Nat /\ Poll + Request < Stale
  BY PanelAssumption DEF TypeOK, Panel
<1>2. /\ aged \in Panel /\ aged.healthy = panel.healthy
      /\ aged.view = panel.view /\ aged.expired = panel.expired /\ aged.label = panel.label
      /\ aged.age = LesserOf(Stale, panel.age + 1) /\ aged.pollIn = Later(panel.pollIn)
  BY <1>1, AgedType DEF Aged, Panel
<1> HIDE DEF aged
<1>3. LabelSound(aged) /\ aged.age \in Nat
  BY <1>1, <1>2 DEF LabelSound, Panel
<1>4. panel' = Ticked(aged)
  BY DEF Beat, Socketed, aged
<1>5. CASE rest.stage # "none"
  <2>1. /\ rest' = [rest EXCEPT !.age = rest.age + 1] /\ rest.age + 1 <= Request
        /\ rest'.stage = rest.stage /\ rest'.age = rest.age + 1
    BY <1>1, <1>5 DEF Beat, TypeOK
  <2>2. panel.healthy => aged.age <= Poll + (rest.age + 1)
    BY <1>1, <1>2, <1>5 DEF Punctual, LesserOf
  <2>3. aged.healthy => Fresh(aged)
    BY <1>1, <1>2, <1>3, <2>1, <2>2 DEF Fresh
  <2>4. LabelSound(panel') /\ panel'.age = aged.age /\ panel'.healthy = aged.healthy
    BY <1>2, <1>3, <1>4, <2>3, TickedIsHonest
  <2>5. QED
    BY <1>2, <1>5, <2>1, <2>2, <2>4 DEF Punctual
<1>6. CASE rest.stage = "none"
  <2>1. panel.healthy => aged.age <= Poll /\ aged.age + aged.pollIn <= Poll
    BY <1>1, <1>2, <1>6 DEF Punctual, LesserOf, Later
  <2>2. aged.healthy => Fresh(aged)
    BY <1>1, <1>2, <1>3, <2>1 DEF Fresh
  <2>3. /\ LabelSound(panel') /\ panel'.age = aged.age /\ panel'.healthy = aged.healthy
        /\ panel'.pollIn = IF Polls(aged) THEN Poll ELSE aged.pollIn
    BY <1>2, <1>3, <1>4, <2>2, TickedIsHonest
  <2>4. CASE Polls(aged)
    <3>1. rest' = Asked
      BY <1>6, <2>4 DEF Beat, aged
    <3>2. rest'.stage = "asked" /\ rest'.age = 0
      BY <3>1 DEF Asked, NoRequest
    <3>3. Poll + 0 = Poll
      BY <1>1
    <3>4. QED
      BY <1>2, <2>1, <2>3, <3>2, <3>3 DEF Punctual
  <2>5. CASE ~Polls(aged)
    <3>1. rest' = rest /\ aged.pollIn # 0
      BY <1>6, <2>5 DEF Beat, Polls, aged
    <3>2. QED
      BY <1>2, <1>6, <2>1, <2>3, <2>5, <3>1 DEF Punctual
  <2>6. QED
    BY <2>4, <2>5
<1>7. QED
  BY <1>5, <1>6

\* A request of the button or of a frame that does not fit is early.
LEMMA AskingIsHonest ==
  ASSUME TypeOK, NEW p \in Panel, LabelSound(p), rest.stage = "none",
         p.age = panel.age, p.pollIn = panel.pollIn, p.healthy = panel.healthy,
         Punctual(panel, rest), panel' = Refreshed(p), rest' = Asked
  PROVE  LabelSound(panel') /\ Punctual(panel', rest')
<1>1. p.healthy => Fresh(p)
  BY PunctualIsFresh DEF Fresh
<1>2. LabelSound(panel') /\ panel'.age = p.age /\ panel'.healthy = p.healthy
  BY <1>1, RefreshedIsHonest
<1>3. rest'.stage = "asked" /\ rest'.age = 0
  BY DEF Asked, NoRequest
<1>4. /\ panel.age \in Nat /\ panel.pollIn \in Nat /\ Poll \in Nat
  BY PanelAssumption DEF TypeOK, Panel
<1>5. panel.healthy => panel.age <= Poll + 0
  BY <1>4 DEF Punctual
<1>6. QED
  BY <1>2, <1>3, <1>5 DEF Punctual

LEMMA FrameIsHonest ==
  ASSUME TypeOK, LabelSound(panel), Punctual(panel, rest), FrameArrives
  PROVE  LabelSound(panel') /\ Punctual(panel', rest')
<1> DEFINE retried  == RetryingSocket(panel)
           accepted == Accepted(panel, Head(wire))
<1>1. panel \in Panel /\ Head(wire) \in Frame
  BY DEF TypeOK, FrameArrives
<1>2. CASE ~FrameFits(panel, Head(wire))
  <2>1. \/ panel' = Refreshed(retried) /\ rest' = Asked /\ rest.stage = "none"
        \/ panel' = retried /\ rest' = rest
    BY <1>2 DEF FrameArrives, Socketed
  <2>2. retried \in Panel /\ LabelSound(retried) /\ KeepsTime(panel, retried)
    BY <1>1, RetryingSocketType, RetryingIsHonest
  <2> HIDE DEF retried
  <2>3. CASE panel' = Refreshed(retried) /\ rest' = Asked /\ rest.stage = "none"
    BY <2>2, <2>3, AskingIsHonest DEF KeepsTime
  <2>4. CASE panel' = retried /\ rest' = rest
    BY <2>2, <2>4 DEF KeepsTime, Punctual
  <2>5. QED
    BY <2>1, <2>3, <2>4
<1>3. CASE FrameFits(panel, Head(wire))
  <2>1. /\ panel' = [accepted EXCEPT !.ready = TRUE, !.delay = 1,
                                     !.label = IF panel.healthy THEN "live" ELSE "reconnecting"]
        /\ rest' = rest
    BY <1>3 DEF FrameArrives, Socketed
  <2>2. /\ accepted \in Panel /\ KeepsTime(panel, accepted)
        /\ accepted.expired = panel.expired
        /\ panel.view # NoView => accepted.view # NoView
    BY <1>1, AcceptedType, ViewAssumption DEF Accepted, KeepsTime, Panel
  <2> HIDE DEF accepted
  <2>3. /\ KeepsTime(accepted, panel') /\ panel'.view = accepted.view
        /\ panel'.expired = accepted.expired
        /\ panel'.label \in {"live", "polling"} => panel.healthy
    BY <2>1, <2>2 DEF KeepsTime, Panel
  <2>4. QED
    BY <2>1, <2>2, <2>3 DEF KeepsTime, LabelSound, Punctual
<1>4. QED
  BY <1>2, <1>3

LEMMA LabelStep ==
  ASSUME TypeOK, HiddenPageRests, LabelInv, [Next]_vars
  PROVE  LabelInv'
<1>1. panel \in Panel /\ rest.frame \in Frame
  BY DEF TypeOK
<1>2. CASE PageShow \/ PageHide \/ HiddenBeat \/ Unauthorized
  BY <1>2 DEF PageShow, PageHide, HiddenBeat, Unauthorized, LabelInv
<1>3. CASE AnswerArrives
  <2>1. /\ panel' = Calibrated(panel, rest.frame) /\ rest' = NoRequest /\ running
        /\ running' = running /\ resumed' = (resumed /\ panel'.view = NoView)
    BY <1>3 DEF AnswerArrives, Socketed, HiddenPageRests
  <2>2. /\ panel'.healthy /\ ~panel'.expired /\ panel'.age = 0 /\ panel'.pollIn = panel.pollIn
        /\ panel.expired \/ panel.view # NoView => panel'.view # NoView
    BY <1>1, <2>1, CalibratedFills
  <2>3. ~resumed' => panel'.view # NoView
    BY <2>1, <2>2 DEF LabelInv, LabelSound
  <2>4. rest'.stage = "none" /\ panel.pollIn \in 0 .. Poll /\ Poll \in Nat
    BY <1>1, <2>1, PanelAssumption DEF NoRequest, Panel
  <2>5. Punctual(panel', rest')
    BY <2>2, <2>4 DEF Punctual
  <2>6. QED
    BY <2>2, <2>3, <2>5 DEF LabelInv, LabelSound
<1>4. CASE ~running /\ ~PageShow
  <2>1. ~running'
    BY <1>4 DEF Next, PageHide, Refresh, Beat, HiddenBeat, AnswerArrives, RequestFails,
         ConnectionReset, RequestTimesOut, RequestEnds, Unauthorized, SocketOpens, SocketFails,
         FrameArrives, Change, ClockTicks, ClockSetBack, Restart, RestReads, RestStamps,
         RequestLost, PushReads, PushSends, PushSkips, vars
  <2>2. QED
    BY <2>1 DEF LabelInv
<1>5. CASE running /\ ~(PageShow \/ PageHide \/ HiddenBeat \/ Unauthorized \/ AnswerArrives)
  <2> SUFFICES ASSUME running', ~resumed'
               PROVE  LabelSound(panel') /\ Punctual(panel', rest')
    BY DEF LabelInv
  <2>1. resumed' = resumed
    BY <1>5 DEF Next, Refresh, Beat, RequestFails, ConnectionReset, RequestTimesOut, RequestEnds,
         SocketOpens, SocketFails, FrameArrives, Change, ClockTicks, ClockSetBack, Restart,
         RestReads, RestStamps, RequestLost, PushReads, PushSends, PushSkips, vars
  <2>2. LabelSound(panel) /\ Punctual(panel, rest)
    BY <1>5, <2>1 DEF LabelInv
  <2>3. CASE Beat
    BY <1>5, <2>2, <2>3, BeatIsHonest
  <2>4. CASE Refresh
    BY <1>1, <2>2, <2>4, AskingIsHonest DEF Refresh, Socketed
  <2>5. CASE RequestFails \/ ConnectionReset \/ RequestTimesOut
    <3>1. panel' = Failed(panel)
      BY <2>5 DEF RequestFails, ConnectionReset, RequestTimesOut, RequestEnds, Socketed
    <3>2. QED
      BY <1>1, <2>2, <3>1, FailedIsHonest DEF Punctual
  <2>6. CASE SocketOpens
    BY <1>1, <2>2, <2>6 DEF SocketOpens, LabelSound, Punctual, Panel
  <2>7. CASE SocketFails
    BY <1>1, <2>2, <2>7, RetryingIsHonest DEF SocketFails, Socketed, KeepsTime, Punctual
  <2>8. CASE FrameArrives
    BY <2>2, <2>8, FrameIsHonest
  <2>9. CASE Change \/ ClockTicks \/ ClockSetBack \/ Restart \/ RestReads \/ RestStamps
             \/ RequestLost \/ PushReads \/ PushSends \/ PushSkips
    <3>1. panel' = panel
      BY <2>9 DEF Change, ClockTicks, ClockSetBack, Restart, RestReads, RestStamps, RequestLost,
           PushReads, PushSends, PushSkips
    <3>2. /\ rest'.age = rest.age
          /\ rest'.stage = "none" <=> rest.stage = "none"
      BY <2>9 DEF Change, ClockTicks, ClockSetBack, Restart, RestReads, RestStamps, RequestLost,
           PushReads, PushSends, PushSkips, TypeOK
    <3>3. QED
      BY <2>2, <3>1, <3>2 DEF Punctual
  <2>10. CASE UNCHANGED vars
    BY <2>2, <2>10 DEF vars
  <2>11. QED
    BY <1>5, <2>3, <2>4, <2>5, <2>6, <2>7, <2>8, <2>9, <2>10 DEF Next
<1>6. QED
  BY <1>2, <1>3, <1>4, <1>5

\* The page says that it is live or polling only when it shows something,
\* whatever the socket does: a failed poll is noticed before the rows expire.
THEOREM LabelsAreAlwaysHonest ==
  Spec => []LabelsAreHonest
<1>1. Init => LabelInv
  BY DEF Init, LabelInv
<1>2. PanelInv /\ LabelInv /\ [Next]_vars => LabelInv'
  BY LabelStep DEF PanelInv
<1>3. PanelInv /\ LabelInv => LabelsAreHonest
  BY DEF LabelInv, LabelSound, LabelsAreHonest
<1>4. QED
  BY <1>1, <1>2, <1>3, PanelInvariant, PTL DEF Spec
=============================================================================
