---------------------------- MODULE QoderSession ----------------------------
(* A Qoder CLI process and the row the monitor shows for it                 *)
(* (qoder_state.py): the process appends structured events to the segment   *)
(* file it holds open, and each refresh reads a bounded number of bytes     *)
(* past the cached offset, carries a partial line over, and folds the       *)
(* complete records into the state of the current turn.                     *)
(*                                                                          *)
(* A record takes two units of the file, of which the second ends its line. *)
(* No read goes back behind the cached offset, so of the file only what lies *)
(* past the last record read to its end is kept.                            *)
EXTENDS Naturals, Sequences, SequencesExt, FiniteSetsExt

CONSTANTS
  Subagents,      \* turn ids of subagent turns
  NoId,           \* a tool_call_id that a record lacks
  FirstWindow,    \* MAX_INITIAL_SCAN_BYTES
  NextWindow,     \* MAX_INCREMENTAL_READ_BYTES
  MaxPending,     \* MAX_PENDING_PERMISSIONS
  MaxRecords,     \* bound: records the process writes
  MaxRuns         \* bound: runs of the process, each with a segment of its own

ASSUME QoderAssumption ==
  /\ {FirstWindow, NextWindow, MaxPending} \subseteq Nat \ {0}
  /\ {MaxRecords, MaxRuns} \subseteq Nat
  /\ \A id \in Subagents \union {NoId} : id \notin Nat

VARIABLES
  segment,  \* the file held open: its run, its unread records, whether the last is torn
  qoder,    \* what the process is doing
  parsed    \* the _SegmentCacheEntry of the file of parsed.run, 0 if there is none

qoderVars == <<segment, qoder, parsed>>

-----------------------------------------------------------------------------
\* The fold of the records: type, turn, call (tool_call_id) and failed.

FreshParse ==
  [turn |-> 0, submitted |-> FALSE, active |-> FALSE, terminal |-> FALSE, failed |-> FALSE,
   permissions |-> <<>>, ask |-> FALSE, askId |-> NoId, subagents |-> {}]

AskCleared(s) == [s EXCEPT !.ask = FALSE, !.askId = NoId]
Cleared(s) == [AskCleared(s) EXCEPT !.permissions = <<>>]

SubagentStarted(s, r) ==
  IF Cardinality(s.subagents) < MaxPending
  THEN [s EXCEPT !.subagents = @ \union {r.turn}] ELSE s

TurnStarted(s, r) ==
  [Cleared(s) EXCEPT !.submitted = TRUE, !.turn = r.turn, !.active = TRUE,
                     !.terminal = FALSE, !.failed = FALSE]

\* The end of a turn whose start was not seen still proves a turn.
TurnFinished(s, r) ==
  [Cleared(s) EXCEPT !.submitted = TRUE, !.turn = r.turn, !.active = FALSE,
                     !.terminal = TRUE, !.failed = r.failed]

\* A request without an id gets a key that no later record names.
Requested(s, r) ==
  LET kept == IF Len(s.permissions) >= MaxPending THEN Tail(s.permissions) ELSE s.permissions
  IN  [s EXCEPT !.permissions =
         IF r.call # NoId /\ r.call \in ToSet(kept) THEN kept ELSE Append(kept, r.call)]

\* An answer that names no known request releases the oldest one.
Resolved(s, r) ==
  [s EXCEPT !.permissions =
     CASE r.call # NoId /\ r.call \in ToSet(@) -> RemoveFirst(@, r.call)
       [] @ = <<>> -> @
       [] OTHER    -> Tail(@)]

CallFinished(s, r) ==
  IF s.ask /\ (s.askId = NoId \/ r.call \in {NoId, s.askId}) THEN AskCleared(s) ELSE s

\* Records of a subagent or of another turn say nothing of the main turn, and
\* between turns only the end of one counts.
Ignored(s, r) ==
  \/ r.turn \in s.subagents
  \/ /\ r.type # "turn.started"
     /\ IF s.active THEN r.turn # s.turn ELSE r.type # "turn.finished"

ApplyRecord(s, r) ==
  IF Ignored(s, r) THEN s
  ELSE CASE r.type = "turn.started" ->
              IF r.turn \in Subagents THEN SubagentStarted(s, r) ELSE TurnStarted(s, r)
         [] r.type = "turn.finished"           -> TurnFinished(s, r)
         [] r.type = "permission.requested"    -> Requested(s, r)
         [] r.type = "permission.resolved"     -> Resolved(s, r)
         [] r.type = "tool.requested"          -> [s EXCEPT !.ask = TRUE, !.askId = r.call]
         [] r.type = "tool.execution.finished" -> CallFinished(s, r)
         [] r.type = "model.request.started"   -> AskCleared(s)

QoderStatus(s) ==
  CASE s.active /\ (s.permissions # <<>> \/ s.ask)    -> "waiting"
    [] s.active /\ s.permissions = <<>> /\ ~s.ask     -> "running"
    [] ~s.active /\ s.submitted /\ s.terminal         ->
         IF s.failed THEN "failure" ELSE "success"
    [] ~s.active /\ ~(s.submitted /\ s.terminal)      -> "hidden"

-----------------------------------------------------------------------------
\* The process.  pending are the calls the user must permit, in order.

QoderInit ==
  /\ segment = [run |-> 1, records |-> <<>>, torn |-> FALSE]
  /\ qoder = [turn |-> 0, outcome |-> "hidden", pending |-> {}, asked |-> {},
              calls |-> 0, spawned |-> {}, crowded |-> FALSE, written |-> 0]
  /\ parsed = [run |-> 0, carry |-> 0, state |-> FreshParse]

IsWorking == qoder.outcome = "running"

\* Appends half of a record and leaves the process in the state q;
\* RecordCompleted appends the rest.
Writes(type, turn, call, failed, q) ==
  /\ ~segment.torn
  /\ qoder.written < MaxRecords
  /\ qoder' = [q EXCEPT !.written = @ + 1]
  /\ segment' = [segment EXCEPT !.torn = TRUE, !.records = Append(@,
                   [type |-> type, turn |-> turn, call |-> call, failed |-> failed])]
  /\ UNCHANGED parsed

RecordCompleted ==
  /\ segment.torn
  /\ segment' = [segment EXCEPT !.torn = FALSE]
  /\ UNCHANGED <<qoder, parsed>>

TurnStarts ==
  /\ ~IsWorking
  /\ Writes("turn.started", qoder.turn + 1, NoId, FALSE,
       [qoder EXCEPT !.turn = @ + 1, !.outcome = "running", !.crowded = FALSE])

\* Also an interrupted turn: what it waited for is off the screen.
TurnEnds(failed) ==
  /\ IsWorking
  /\ Writes("turn.finished", qoder.turn, NoId, failed,
       [qoder EXCEPT !.outcome = IF failed THEN "failure" ELSE "success",
                     !.pending = {}, !.asked = {}])

AsksPermission(named) ==
  /\ IsWorking
  /\ Writes("permission.requested", qoder.turn, IF named THEN qoder.calls + 1 ELSE NoId, FALSE,
       [qoder EXCEPT !.calls = @ + 1, !.pending = @ \union {qoder.calls + 1},
                     !.crowded = @ \/ Cardinality(qoder.pending) >= MaxPending])

UserPermits(c, named) ==
  /\ c \in qoder.pending
  /\ Writes("permission.resolved", qoder.turn, IF named THEN c ELSE NoId, FALSE,
       [qoder EXCEPT !.pending = @ \ {c}])

\* One question or plan at a time.
AsksUser ==
  /\ IsWorking
  /\ qoder.asked = {}
  /\ Writes("tool.requested", qoder.turn, qoder.calls + 1, FALSE,
       [qoder EXCEPT !.calls = @ + 1, !.asked = {qoder.calls + 1}])

\* The tool that asked is answered, or another one finishes.
ToolFinishes(c) ==
  /\ IsWorking
  /\ Writes("tool.execution.finished", qoder.turn, c, FALSE,
       [qoder EXCEPT !.asked = @ \ {c}])

\* The answer of a question may be followed by the model without the record
\* of a finished tool.
ModelResumes ==
  /\ IsWorking
  /\ qoder.pending = {}
  /\ Writes("model.request.started", qoder.turn, NoId, FALSE,
       [qoder EXCEPT !.asked = {}])

\* A subagent may outlive the turn that started it.
SubagentStarts(a) ==
  /\ IsWorking
  /\ a \notin qoder.spawned
  /\ Writes("turn.started", a, NoId, FALSE,
       [qoder EXCEPT !.spawned = @ \union {a}])

SubagentWrites(a, type) ==
  /\ a \in qoder.spawned
  /\ Writes(type, a, NoId, FALSE, qoder)

\* The process resumes the session in a new run, with a new segment.
RunStarts ==
  /\ segment.run < MaxRuns
  /\ segment' = [segment EXCEPT !.run = @ + 1, !.records = <<>>, !.torn = FALSE]
  /\ qoder' = [qoder EXCEPT !.outcome = "hidden", !.pending = {}, !.asked = {},
                            !.spawned = {}, !.crowded = FALSE]
  /\ UNCHANGED parsed

-----------------------------------------------------------------------------
\* The reader.  The cache is keyed by path, so a new run has no entry.

SegmentSize == 2 * Len(segment.records) - (IF segment.torn THEN 1 ELSE 0)

\* The records whose lines a read ends; carry is 1 when an earlier read took the
\* first unit of the first of them.
BugLinesRead(carry, end) == SubSeq(segment.records, 1 + carry, end \div 2)
LinesRead(carry, end) == SubSeq(segment.records, 1, end \div 2)

\* read_qoder_segment_state
ReadSegment ==
  LET isFirst == parsed.run # segment.run
      limit   == IF isFirst THEN FirstWindow ELSE NextWindow
      carry   == IF isFirst THEN 0 ELSE parsed.carry
      end     == Min({SegmentSize, carry + limit})
      state   == IF isFirst THEN FreshParse ELSE parsed.state
  IN  /\ parsed' = [run   |-> segment.run,
                    carry |-> end % 2,
                    state |-> FoldLeft(ApplyRecord, state, LinesRead(carry, end))]
      /\ segment' = [segment EXCEPT !.records = SubSeq(@, end \div 2 + 1, Len(@))]
      /\ UNCHANGED qoder

QoderWrites ==
  \/ RecordCompleted
  \/ TurnStarts
  \/ \E failed \in BOOLEAN : TurnEnds(failed)
  \/ \E named \in BOOLEAN : AsksPermission(named)
  \/ \E c \in qoder.pending, named \in BOOLEAN : UserPermits(c, named)
  \/ AsksUser
  \/ \E c \in qoder.asked \union {0} : ToolFinishes(c)
  \/ ModelResumes
  \/ \E a \in Subagents : SubagentStarts(a)
  \/ \E a \in Subagents, type \in {"permission.requested", "turn.finished"} :
        SubagentWrites(a, type)
  \/ RunStarts

QoderNext == QoderWrites \/ ReadSegment
QoderFairness == WF_qoderVars(ReadSegment) /\ WF_qoderVars(RecordCompleted)
QoderSpec == QoderInit /\ [][QoderNext]_qoderVars /\ QoderFairness

-----------------------------------------------------------------------------
QoderWaits == qoder.pending # {} \/ qoder.asked # {}
SegmentIsRead == parsed.run = segment.run /\ segment.records = <<>>
IsCrowded == Cardinality(qoder.spawned) > MaxPending

\* Once the file is read to its end, the row says what the process does: its
\* outcome between turns, and within a turn that it waits for the user exactly
\* when it does.  Torn records, windows that end inside a record, answers that
\* name no request and records of subagents change nothing.  More requests at
\* once than the reader keeps only let it say "running" too early; and more
\* subagents in a run than it keeps only spoil the outcomes between turns.
QoderTellsTheTruth ==
  SegmentIsRead =>
    LET status == QoderStatus(parsed.state)
    IN  /\ ~IsWorking /\ ~IsCrowded => status = qoder.outcome
        /\ ~IsWorking => status \notin {"running", "waiting"}
        /\ IsWorking => status \in {"running", "waiting"}
        /\ status = "waiting" => QoderWaits
        /\ IsWorking /\ QoderWaits /\ ~qoder.crowded => status = "waiting"

\* The turns of subagents are ignored, and never affect the outcome of the main
\* conversation (qoder_state.py:13, 524), however many a run has.
SubagentsAreIgnored ==
  SegmentIsRead /\ ~IsWorking => QoderStatus(parsed.state) = qoder.outcome

\* The reader reaches the end of the segment once Qoder writes no more.
SegmentGetsRead == <>[]SegmentIsRead
=============================================================================
