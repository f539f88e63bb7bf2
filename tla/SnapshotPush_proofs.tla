------------------------ MODULE SnapshotPush_proofs ------------------------
(* Type correctness of SnapshotPush, the spacing of attempts and what a    *)
(* healthy collector may rely on, for every bound on changes, faults and   *)
(* patience.                                                               *)
EXTENDS SnapshotPush, TLAPS

\* What the provider answers is a version the world has had.
LEMMA ObservedIsVersion ==
  ASSUME TypeOK
  PROVE  Observed \in Versions /\ Observed # NoVersion
BY BoundsAssumption, ValuesAssumption DEF TypeOK, ProviderTypes, WorldTypes, Observed, Versions

\* The two counters stop at their bounds.
LEMMA FaultIsCounted ==
  ASSUME WorldTypes, Fault
  PROVE  faults' \in 0 .. MaxFaults
BY BoundsAssumption DEF WorldTypes, Fault

LEMMA MissedIsCounted ==
  ASSUME missed \in 0 .. Patience, Missed
  PROVE  missed' \in 0 .. Patience
BY BoundsAssumption DEF Missed

LEMMA IngestStoresSnapshot ==
  ASSUME NEW version \in Versions, Ingest(version)
  PROVE  StoreTypes'
<1>1. store' \in Snapshot
  BY DEF Ingest, Snapshot
<1>2. missed' \in 0 .. Patience
  BY BoundsAssumption DEF Ingest
<1>3. QED
  BY <1>1, <1>2 DEF StoreTypes

-----------------------------------------------------------------------------
(* Type correctness                                                        *)

\* Each part of the type invariant is disturbed by a few actions only.
LEMMA ClockTypesStep ==
  ASSUME ClockTypes, Next
  PROVE  ClockTypes'
<1> USE DEF ClockTypes, Classes, collector, aggregator, history
<1>1. CASE Refused \/ TimesOut \/ Accepted \/ ConnectionReset
  BY <1>1 DEF Refused, TimesOut, Accepted, ConnectionReset, AttemptEnds
<1>2. CASE Stop \/ TimePasses
  BY <1>2 DEF Stop, TimePasses, Older
<1>3. CASE TakeSnapshot \/ Send \/ EventsRead \/ NoEvents \/ PeriodicCheck \/ PollAgain
  BY <1>3 DEF TakeSnapshot, Send, EventsRead, NoEvents, PeriodicCheck, PollAgain
<1>4. CASE Change \/ LogTouched \/ OtherRead \/ CacheExpires \/ Start \/ WatchBreaks
  BY <1>4 DEF Change, LogTouched, OtherRead, CacheExpires, Start, WatchBreaks
<1>5. CASE StoreCurrent \/ Answer \/ Expire \/ AggregatorRestarts
  BY <1>5 DEF StoreCurrent, Answer, Expire, AggregatorRestarts, Ingest
<1>6. ASSUME NEW r \in late, StoreLate(r) \/ DropLate(r) PROVE ClockTypes'
  BY <1>6 DEF StoreLate, DropLate, Ingest
<1>7. QED
  BY <1>1, <1>2, <1>3, <1>4, <1>5, <1>6 DEF Next, Pusher

LEMMA WorldTypesStep ==
  ASSUME WorldTypes, Next
  PROVE  WorldTypes'
<1> USE DEF WorldTypes, Versions, collector, aggregator, history
<1>1. CASE Change
  BY <1>1, BoundsAssumption DEF Change
<1>2. CASE Refused \/ TimesOut \/ WatchBreaks
  BY <1>2, FaultIsCounted DEF Refused, TimesOut, WatchBreaks
<1>3. CASE Stop \/ AggregatorRestarts
  BY <1>3, FaultIsCounted DEF Stop, AggregatorRestarts
<1>4. CASE TakeSnapshot \/ Send \/ EventsRead \/ NoEvents \/ PeriodicCheck \/ PollAgain
  BY <1>4 DEF TakeSnapshot, Send, EventsRead, NoEvents, PeriodicCheck, PollAgain
<1>5. CASE Accepted \/ ConnectionReset \/ LogTouched \/ OtherRead \/ CacheExpires
  BY <1>5 DEF Accepted, ConnectionReset, LogTouched, OtherRead, CacheExpires
<1>6. CASE Start \/ TimePasses \/ StoreCurrent \/ Answer \/ Expire
  BY <1>6 DEF Start, TimePasses, StoreCurrent, Answer, Expire
<1>7. ASSUME NEW r \in late, StoreLate(r) \/ DropLate(r) PROVE WorldTypes'
  BY <1>7 DEF StoreLate, DropLate
<1>8. QED
  BY <1>1, <1>2, <1>3, <1>4, <1>5, <1>6, <1>7 DEF Next, Pusher

LEMMA FlagTypesStep ==
  ASSUME FlagTypes, Next
  PROVE  FlagTypes'
<1> USE DEF FlagTypes, collector, aggregator, history, AttemptEnds, Ingest
<1>1. CASE Refused \/ TimesOut
  BY <1>1 DEF Refused, TimesOut
<1>2. CASE Accepted \/ ConnectionReset
  BY <1>2 DEF Accepted, ConnectionReset
<1>3. CASE TakeSnapshot \/ Send \/ EventsRead \/ NoEvents \/ PeriodicCheck \/ PollAgain
  BY <1>3 DEF TakeSnapshot, Send, EventsRead, NoEvents, PeriodicCheck, PollAgain
<1>4. CASE Change \/ LogTouched \/ OtherRead \/ CacheExpires \/ Start
  BY <1>4 DEF Change, LogTouched, OtherRead, CacheExpires, Start
<1>5. CASE WatchBreaks \/ Stop \/ TimePasses
  BY <1>5 DEF WatchBreaks, Stop, TimePasses
<1>6. CASE StoreCurrent \/ Answer \/ Expire \/ AggregatorRestarts
  BY <1>6 DEF StoreCurrent, Answer, Expire, AggregatorRestarts
<1>7. ASSUME NEW r \in late, StoreLate(r) \/ DropLate(r) PROVE FlagTypes'
  BY <1>7 DEF StoreLate, DropLate
<1>8. QED
  BY <1>1, <1>2, <1>3, <1>4, <1>5, <1>6, <1>7 DEF Next, Pusher

LEMMA ProviderTypesStep ==
  ASSUME TypeOK, Next
  PROVE  ProviderTypes'
<1> USE DEF TypeOK, ProviderTypes, collector, aggregator, history
<1>1. CASE OtherRead \/ TakeSnapshot
  <2>1. provider' = [version |-> Observed, fresh |-> TRUE]
    BY <1>1 DEF OtherRead, TakeSnapshot
  <2>2. QED
    BY <2>1, ObservedIsVersion
<1>2. CASE CacheExpires
  BY <1>2 DEF CacheExpires
<1>3. CASE Stop
  BY <1>3 DEF Stop
<1>4. CASE Refused \/ TimesOut \/ Accepted \/ ConnectionReset
  BY <1>4 DEF Refused, TimesOut, Accepted, ConnectionReset
<1>5. CASE Send \/ EventsRead \/ NoEvents \/ PeriodicCheck \/ PollAgain
  BY <1>5 DEF Send, EventsRead, NoEvents, PeriodicCheck, PollAgain
<1>6. CASE Change \/ LogTouched \/ Start \/ WatchBreaks \/ TimePasses
  BY <1>6 DEF Change, LogTouched, Start, WatchBreaks, TimePasses
<1>7. CASE StoreCurrent \/ Answer \/ Expire \/ AggregatorRestarts
  BY <1>7 DEF StoreCurrent, Answer, Expire, AggregatorRestarts
<1>8. ASSUME NEW r \in late, StoreLate(r) \/ DropLate(r) PROVE ProviderTypes'
  BY <1>8 DEF StoreLate, DropLate
<1>9. QED
  BY <1>1, <1>2, <1>3, <1>4, <1>5, <1>6, <1>7, <1>8 DEF Next, Pusher

LEMMA PusherTypesStep ==
  ASSUME TypeOK, Next
  PROVE  PusherTypes'
<1> USE DEF TypeOK, PusherTypes, collector, aggregator, history
<1>1. CASE TakeSnapshot
  BY <1>1, ObservedIsVersion DEF TakeSnapshot
<1>2. CASE Refused \/ TimesOut \/ Accepted \/ ConnectionReset
  BY <1>2 DEF Refused, TimesOut, Accepted, ConnectionReset, AttemptEnds, Continue
<1>3. CASE Send \/ EventsRead \/ NoEvents \/ PeriodicCheck \/ PollAgain
  BY <1>3 DEF Send, EventsRead, NoEvents, PeriodicCheck, PollAgain
<1>4. CASE Change \/ LogTouched \/ OtherRead \/ CacheExpires
  BY <1>4 DEF Change, LogTouched, OtherRead, CacheExpires
<1>5. CASE Start \/ WatchBreaks \/ Stop \/ TimePasses
  BY <1>5 DEF Start, WatchBreaks, Stop, TimePasses
<1>6. CASE StoreCurrent \/ Answer \/ Expire \/ AggregatorRestarts
  BY <1>6 DEF StoreCurrent, Answer, Expire, AggregatorRestarts
<1>7. ASSUME NEW r \in late, StoreLate(r) \/ DropLate(r) PROVE PusherTypes'
  BY <1>7 DEF StoreLate, DropLate
<1>8. QED
  BY <1>1, <1>2, <1>3, <1>4, <1>5, <1>6, <1>7 DEF Next, Pusher

LEMMA RequestTypesStep ==
  ASSUME TypeOK, Next
  PROVE  RequestTypes'
<1> USE DEF TypeOK, RequestTypes, collector, aggregator, history
<1>1. Abandoned \subseteq [version : Versions, fault : 0 .. MaxFaults]
  BY DEF Abandoned, PusherTypes, WorldTypes
<1>2. CASE TimesOut \/ Stop
  BY <1>1, <1>2 DEF TimesOut, Stop, AttemptEnds
<1>3. CASE Refused \/ Accepted \/ ConnectionReset
  BY <1>3 DEF Refused, Accepted, ConnectionReset, AttemptEnds
<1>4. CASE TakeSnapshot \/ Send \/ EventsRead \/ NoEvents \/ PeriodicCheck \/ PollAgain
  BY <1>4 DEF TakeSnapshot, Send, EventsRead, NoEvents, PeriodicCheck, PollAgain
<1>5. CASE Change \/ LogTouched \/ OtherRead \/ CacheExpires
  BY <1>5 DEF Change, LogTouched, OtherRead, CacheExpires
<1>6. CASE Start \/ WatchBreaks \/ TimePasses
  BY <1>6 DEF Start, WatchBreaks, TimePasses
<1>7. CASE StoreCurrent \/ Answer \/ Expire \/ AggregatorRestarts
  BY <1>7 DEF StoreCurrent, Answer, Expire, AggregatorRestarts
<1>8. ASSUME NEW r \in late, StoreLate(r) \/ DropLate(r) PROVE RequestTypes'
  BY <1>8 DEF StoreLate, DropLate
<1>9. QED
  BY <1>2, <1>3, <1>4, <1>5, <1>6, <1>7, <1>8 DEF Next, Pusher

LEMMA StoreTypesStep ==
  ASSUME TypeOK, Next
  PROVE  StoreTypes'
<1> USE DEF TypeOK, StoreTypes, collector, aggregator, history
<1>1. CASE Refused \/ TimesOut \/ ConnectionReset
  <2>1. missed' \in 0 .. Patience
    BY <1>1, MissedIsCounted DEF Refused, TimesOut, ConnectionReset
  <2>2. store' = store
    BY <1>1 DEF Refused, TimesOut, ConnectionReset
  <2>3. QED
    BY <2>1, <2>2
<1>2. CASE StoreCurrent
  BY <1>2, IngestStoresSnapshot DEF StoreCurrent, PusherTypes
<1>3. ASSUME NEW r \in late, StoreLate(r) \/ DropLate(r) PROVE StoreTypes'
  <2>1. r.version \in Versions
    BY DEF RequestTypes
  <2>2. CASE StoreLate(r)
    BY <2>1, <2>2, IngestStoresSnapshot DEF StoreLate
  <2>3. CASE DropLate(r)
    BY <2>3 DEF DropLate
  <2>4. QED
    BY <1>3, <2>2, <2>3
<1>4. CASE Expire
  BY <1>4 DEF Expire, Snapshot
<1>5. CASE AggregatorRestarts
  BY <1>5 DEF AggregatorRestarts
<1>6. CASE Accepted \/ Answer \/ Change \/ LogTouched \/ OtherRead \/ CacheExpires
  BY <1>6 DEF Accepted, Answer, Change, LogTouched, OtherRead, CacheExpires
<1>7. CASE TakeSnapshot \/ Send \/ EventsRead \/ NoEvents \/ PeriodicCheck \/ PollAgain
  BY <1>7 DEF TakeSnapshot, Send, EventsRead, NoEvents, PeriodicCheck, PollAgain
<1>8. CASE Start \/ WatchBreaks \/ Stop \/ TimePasses
  BY <1>8 DEF Start, WatchBreaks, Stop, TimePasses
<1>9. QED
  BY <1>1, <1>2, <1>3, <1>4, <1>5, <1>6, <1>7, <1>8 DEF Next, Pusher

\* Every reachable state of a collector and its aggregator is well typed.
THEOREM TypeCorrect == Spec => []TypeOK
<1>1. Init => TypeOK
  <2> SUFFICES ASSUME Init PROVE TypeOK
    OBVIOUS
  <2>1. WorldTypes /\ StoreTypes
    BY BoundsAssumption DEF Init, WorldTypes, StoreTypes, Versions
  <2>2. ClockTypes /\ FlagTypes
    BY DEF Init, ClockTypes, FlagTypes, Classes
  <2>3. ProviderTypes
    BY DEF Init, ProviderTypes
  <2>4. PusherTypes /\ RequestTypes
    BY BoundsAssumption DEF Init, PusherTypes, RequestTypes, Versions
  <2>5. QED
    BY <2>1, <2>2, <2>3, <2>4 DEF TypeOK
<1>2. TypeOK /\ [Next]_vars => TypeOK'
  <2> SUFFICES ASSUME TypeOK, [Next]_vars PROVE TypeOK'
    OBVIOUS
  <2>1. CASE Next
    BY <2>1, ClockTypesStep, WorldTypesStep, FlagTypesStep, ProviderTypesStep,
       PusherTypesStep, RequestTypesStep, StoreTypesStep DEF TypeOK
  <2>2. CASE UNCHANGED vars
    BY <2>2 DEF vars, collector, aggregator, history, TypeOK, ClockTypes, WorldTypes, FlagTypes, ProviderTypes,
        PusherTypes, RequestTypes, StoreTypes
  <2>3. QED
    BY <2>1, <2>2
<1>3. QED
  BY <1>1, <1>2, PTL DEF Spec

-----------------------------------------------------------------------------
(* The spacing of attempts                                                 *)

\* last_push_time is never older than the end of the last attempt, whichever
\* way the attempt ended.
LEMMA SinceInvariant == Spec => []SinceIsRest
<1>1. Init => SinceIsRest
  BY DEF Init, SinceIsRest
<1>2. SinceIsRest /\ [Next]_vars => SinceIsRest'
  <2> SUFFICES ASSUME SinceIsRest, [Next]_vars PROVE SinceIsRest'
    OBVIOUS
  <2> USE DEF SinceIsRest, history, collector, aggregator
  <2>1. CASE Refused \/ TimesOut \/ Accepted \/ ConnectionReset
    BY <2>1 DEF Refused, TimesOut, Accepted, ConnectionReset, AttemptEnds
  <2>2. CASE TakeSnapshot \/ Send \/ EventsRead \/ NoEvents \/ PeriodicCheck \/ PollAgain
    BY <2>2 DEF TakeSnapshot, Send, EventsRead, NoEvents, PeriodicCheck, PollAgain
  <2>3. CASE Change \/ LogTouched \/ OtherRead \/ CacheExpires \/ Start \/ WatchBreaks
    BY <2>3 DEF Change, LogTouched, OtherRead, CacheExpires, Start, WatchBreaks
  <2>4. CASE Stop \/ TimePasses
    BY <2>4 DEF Stop, TimePasses
  <2>5. CASE StoreCurrent \/ Answer \/ Expire \/ AggregatorRestarts
    BY <2>5 DEF StoreCurrent, Answer, Expire, AggregatorRestarts, Ingest
  <2>6. ASSUME NEW r \in late, StoreLate(r) \/ DropLate(r) PROVE SinceIsRest'
    BY <2>6 DEF StoreLate, DropLate, Ingest
  <2>7. CASE UNCHANGED vars
    BY <2>7 DEF vars
  <2>8. QED
    BY <2>1, <2>2, <2>3, <2>4, <2>5, <2>6, <2>7 DEF Next, Pusher
<1>3. QED
  BY <1>1, <1>2, PTL DEF Spec

\* Only the two tests of the event loop start an attempt from it.
LEMMA LoopStarts ==
  ASSUME Next, ppc \in {"wait", "tick"}, ppc' = "post", cause' # "poll"
  PROVE  EventsRead \/ PeriodicCheck
<1> USE DEF history, collector, aggregator
<1>1. ~(\/ Refused \/ TimesOut \/ Accepted \/ ConnectionReset
        \/ TakeSnapshot \/ Send \/ PollAgain \/ NoEvents)
  BY DEF Refused, TimesOut, Accepted, ConnectionReset, TakeSnapshot, Send,
     PollAgain, NoEvents
<1>2. ~(\/ Change \/ LogTouched \/ OtherRead \/ CacheExpires
        \/ Start \/ Stop \/ TimePasses \/ WatchBreaks)
  BY DEF Change, LogTouched, OtherRead, CacheExpires, Start, Stop, TimePasses,
     WatchBreaks
<1>3. ~(StoreCurrent \/ Answer \/ Expire \/ AggregatorRestarts)
  BY DEF StoreCurrent, Answer, Expire, AggregatorRestarts
<1>4. ASSUME NEW r \in late PROVE ~(StoreLate(r) \/ DropLate(r))
  BY DEF StoreLate, DropLate
<1>5. QED
  BY <1>1, <1>2, <1>3, <1>4 DEF Next, Pusher

\* After an attempt, good or bad, the event loop starts the next one only
\* after the interval, or after the debounce window for an event.
THEOREM SpacedAttempts == Spec => AttemptsAreSpaced
<1>1. TypeOK /\ SinceIsRest /\ [Next]_vars =>
        (ppc' = "post" /\ ppc \in {"wait", "tick"} /\ cause' # "poll"
           => rested = "due" \/ (rested = "settled" /\ noticed))
  <2> SUFFICES ASSUME TypeOK, SinceIsRest, [Next]_vars, ppc' = "post",
                      ppc \in {"wait", "tick"}, cause' # "poll"
               PROVE  rested = "due" \/ (rested = "settled" /\ noticed)
    OBVIOUS
  <2>1. ~UNCHANGED vars
    BY DEF vars, collector
  <2>2. EventsRead \/ PeriodicCheck
    BY <2>1, LoopStarts
  <2>3. CASE EventsRead
    BY <2>3 DEF EventsRead, SinceIsRest, TypeOK, ClockTypes, Classes
  <2>4. CASE PeriodicCheck
    BY <2>4 DEF PeriodicCheck, SinceIsRest
  <2>5. QED
    BY <2>2, <2>3, <2>4
<1>2. QED
  BY <1>1, TypeCorrect, SinceInvariant, PTL DEF Spec, AttemptsAreSpaced

-----------------------------------------------------------------------------
(* What a healthy collector may rely on                                    *)

\* What has just been stored is shown.
LEMMA IngestIsShown ==
  ASSUME NEW version \in Versions, Ingest(version)
  PROVE  missed' = 0 /\ Shown'
<1>1. store' \in [version : Nat, fresh : BOOLEAN]
  BY BoundsAssumption DEF Ingest, Versions
<1>2. store' # NoSnapshot
  BY <1>1, ValuesAssumption
<1>3. QED
  BY <1>2 DEF Ingest, Shown

LEMMA StoredIsShownStep ==
  ASSUME TypeOK, StoredIsShown, Next
  PROVE  StoredIsShown'
<1> USE DEF StoredIsShown, Shown, collector, aggregator, history
<1>1. CASE Refused \/ TimesOut \/ ConnectionReset
  BY <1>1 DEF Refused, TimesOut, ConnectionReset, AttemptEnds, Continue
<1>2. CASE Accepted
  BY <1>2 DEF Accepted, AttemptEnds, Continue
<1>3. CASE TakeSnapshot \/ Send \/ EventsRead \/ NoEvents \/ PeriodicCheck \/ PollAgain
  BY <1>3 DEF TakeSnapshot, Send, EventsRead, NoEvents, PeriodicCheck, PollAgain
<1>4. CASE Change \/ LogTouched \/ OtherRead \/ CacheExpires \/ Start \/ WatchBreaks
  BY <1>4 DEF Change, LogTouched, OtherRead, CacheExpires, Start, WatchBreaks
<1>5. CASE Stop \/ TimePasses
  BY <1>5 DEF Stop, TimePasses
<1>6. payload \in Versions /\ \A r \in late : r.version \in Versions
  BY DEF TypeOK, PusherTypes, RequestTypes
<1>7. CASE StoreCurrent
  <2>1. missed' = 0 /\ Shown'
    BY <1>6, <1>7, IngestIsShown DEF StoreCurrent
  <2>2. QED
    BY <1>7, <2>1 DEF StoreCurrent
<1>8. CASE Answer
  BY <1>8 DEF Answer
<1>9. CASE Expire
  BY <1>9, BoundsAssumption DEF Expire
<1>10. CASE AggregatorRestarts
  BY <1>10 DEF AggregatorRestarts
<1>11. ASSUME NEW r \in late, StoreLate(r) PROVE StoredIsShown'
  <2>1. missed' = 0 /\ Shown'
    BY <1>6, <1>11, IngestIsShown DEF StoreLate
  <2>2. QED
    BY <1>11, <2>1 DEF StoreLate
<1>12. ASSUME NEW r \in late, DropLate(r) PROVE StoredIsShown'
  BY <1>12 DEF DropLate
<1>13. QED
  BY <1>1, <1>2, <1>3, <1>4, <1>5, <1>7, <1>8, <1>9, <1>10, <1>11, <1>12
  DEF Next, Pusher

\* A collector that reports itself healthy is shown by the aggregator, until
\* that one restarts.
THEOREM HealthyIsShown == Spec => []HealthyServersAreShown
<1>1. Init => StoredIsShown
  BY DEF Init, StoredIsShown
<1>2. TypeOK /\ StoredIsShown /\ [Next]_vars => StoredIsShown'
  <2> SUFFICES ASSUME TypeOK, StoredIsShown, [Next]_vars PROVE StoredIsShown'
    OBVIOUS
  <2>1. CASE Next
    BY <2>1, StoredIsShownStep
  <2>2. CASE UNCHANGED vars
    BY <2>2 DEF vars, collector, aggregator, history, StoredIsShown, Shown
  <2>3. QED
    BY <2>1, <2>2
<1>3. StoredIsShown => HealthyServersAreShown
  BY DEF StoredIsShown, HealthyServersAreShown
<1>4. QED
  BY <1>1, <1>2, <1>3, TypeCorrect, PTL DEF Spec

=============================================================================
