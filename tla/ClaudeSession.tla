---------------------------- MODULE ClaudeSession ----------------------------
(* A Claude Code process and the row the monitor shows for it              *)
(* (claude_state.py).  The process rewrites a registration file named by   *)
(* its pid, which outlives it, and appends to the transcript of its        *)
(* session.  A refresh lists the processes, reads the registration, then   *)
(* the transcript: three reads of things that change in between, and the   *)
(* process writes its two files one after the other, in either order.      *)
EXTENDS Naturals, Sequences, SequencesExt, FiniteSets

CONSTANTS
  MaxSessions,     \* bound: session ids
  TailRecords,     \* TRANSCRIPT_TAIL_BYTES, in records
  HeadRecords,     \* TRANSCRIPT_HEAD_BYTES, in records
  MaxTranscript,   \* bound: records of the transcripts
  MaxLaunches,     \* bound: processes that get the pid, one after the other
  Nothing          \* no file, no value, no write to do

ASSUME ClaudeAssumption ==
  /\ {TailRecords, HeadRecords} \subseteq Nat \ {0}
  /\ {MaxSessions, MaxTranscript, MaxLaunches} \subseteq Nat
  /\ Nothing \notin {"prompt", "assistant", "failed", "note"}

VARIABLES
  claude,        \* the process: start time, session, status, writes to do
  registration,  \* sessions/<pid>.json
  transcript,    \* the records of each session
  outcome,       \* how the last turn of each session went, which no file says at once
  latched,       \* _ELIGIBLE_TRANSCRIPTS
  remembered,    \* _TRANSCRIPT_CACHE: length when last read, and what was found
  refresh,       \* the refresh in progress
  row            \* the row of the last refresh

claudeVars == <<claude, registration, transcript, outcome, latched, remembered, refresh, row>>
cliVars == <<claude, registration, transcript, outcome>>
monitorVars == <<latched, remembered>>

ClaudeSessions == 1 .. MaxSessions
Working == {"busy", "waiting"}
Shown(status) == IF status = "busy" THEN "running" ELSE "waiting"
NoRow == [status |-> "hidden", session |-> Nothing, calm |-> FALSE]
NoRefresh == [step |-> "none", start |-> 0, found |-> Nothing, length |-> 0, calm |-> FALSE]

-----------------------------------------------------------------------------
\* What a transcript proves.  A prompt has the human origin; a failed record
\* is one of the assistant with an error or abort flag; notes prove nothing.

\* The records of the tail; a window that starts inside a record drops it.
TailOf(s) == SubSeq(s, IF Len(s) > TailRecords THEN Len(s) - TailRecords + 1 ELSE 1, Len(s))
HeadOf(s) == SubSeq(s, 1, IF Len(s) > HeadRecords THEN HeadRecords ELSE Len(s))

IsWork(record) == record \in {"prompt", "assistant", "failed"}

\* _outcome_from_lines: the newest assistant record decides, but a prompt after
\* it was never answered.
OutcomeOf(s) ==
  LET tail == TailOf(s)
      work == {i \in DOMAIN tail : IsWork(tail[i])}
  IN  IF work = {} THEN "hidden"
      ELSE IF tail[Max(work)] = "assistant" THEN "success" ELSE "failure"

\* The signature is taken before the tail is read.
ReadOutcome(c) ==
  IF remembered[c] # Nothing /\ remembered[c].length = refresh.length
  THEN remembered[c].outcome ELSE OutcomeOf(transcript[c])

\* transcript_proves_work_submitted: the head, and only past it the tail.
HeadProves(c) ==
  c \in latched \/ \E i \in DOMAIN HeadOf(transcript[c]) : IsWork(transcript[c][i])
NeedsTail(c) == ~HeadProves(c) /\ Len(transcript[c]) >= HeadRecords
ProvesWork(c) == HeadProves(c) \/ (NeedsTail(c) /\ ReadOutcome(c) # "hidden")

-----------------------------------------------------------------------------
\* The process.  A step of it decides, and its writes follow one by one.

ClaudeInit ==
  /\ claude = [start |-> 0, session |-> Nothing, status |-> "dead",
               open |-> FALSE, record |-> Nothing, register |-> FALSE]
  /\ registration = Nothing
  /\ transcript = [c \in ClaudeSessions |-> <<>>]
  /\ outcome = [c \in ClaudeSessions |-> "hidden"]
  /\ latched = {}
  /\ remembered = [c \in ClaudeSessions |-> Nothing]
  /\ refresh = NoRefresh
  /\ row = NoRow

Written == Cardinality(UNION {{c} \X DOMAIN transcript[c] : c \in ClaudeSessions})

IsSettled == claude.record = Nothing /\ ~claude.register

\* A refresh is calm while the process does nothing; the row it ends with is
\* only looked at until the process acts again.
Disturbed ==
  /\ refresh' = [refresh EXCEPT !.calm = FALSE]
  /\ row' = NoRow
  /\ UNCHANGED monitorVars

\* The status changes, and a record is to be written unless it is Nothing.
Decides(status, record, open) ==
  /\ claude.status # "dead"
  /\ IsSettled
  /\ record = Nothing \/ Written < MaxTranscript
  /\ claude' = [claude EXCEPT !.status = status, !.record = record, !.register = TRUE,
                              !.open = open]
  /\ UNCHANGED <<registration, transcript>>
  /\ Disturbed

RecordWritten ==
  /\ claude.record # Nothing
  /\ transcript' = [transcript EXCEPT ![claude.session] = Append(@, claude.record)]
  /\ claude' = [claude EXCEPT !.record = Nothing]
  /\ UNCHANGED <<registration, outcome>>
  /\ Disturbed

StatusWritten ==
  /\ claude.register
  /\ registration' = [start |-> claude.start, session |-> claude.session,
                      status |-> claude.status]
  /\ claude' = [claude EXCEPT !.register = FALSE]
  /\ UNCHANGED <<transcript, outcome>>
  /\ Disturbed

\* Session ids are taken in their order; those from c on are still unused.
IsUnused(c) == \A d \in c .. MaxSessions : outcome[d] = "hidden" /\ transcript[d] = <<>>
CanTake(c) == IF c = 1 THEN TRUE ELSE ~IsUnused(c - 1)

\* A process takes the pid, for a new session or to resume an old one; the
\* registration of the last process with this pid may still be there.
Launches(c) ==
  /\ claude.status = "dead"
  /\ claude.start < MaxLaunches
  /\ CanTake(c)
  /\ claude' = [start |-> claude.start + 1, session |-> c, status |-> "starting",
                open |-> FALSE, record |-> Nothing, register |-> FALSE]
  /\ UNCHANGED <<registration, transcript, outcome>>
  /\ Disturbed

\* Dialogs and work of the launch, before and after which it is idle.
StartsUp(status) ==
  /\ claude.status \in {"starting", "busy", "waiting"}
  /\ ~claude.open
  /\ status # claude.status
  /\ Decides(status, Nothing, FALSE)
  /\ UNCHANGED outcome

Prompted ==
  /\ claude.status = "idle"
  /\ Decides("busy", "prompt", TRUE)
  /\ outcome' = [outcome EXCEPT ![claude.session] = "open"]

\* The turn goes on: it speaks, blocks on the user, or is answered.
Advances(status, record) ==
  /\ claude.open
  /\ Decides(status, record, TRUE)
  /\ UNCHANGED outcome

\* The last record of the turn, or none if it was interrupted before the first.
TurnOver(record) ==
  /\ claude.open
  /\ IsSettled
  /\ record = Nothing => Last(transcript[claude.session]) = "prompt"
  /\ Decides("idle", record, FALSE)
  /\ outcome' = [outcome EXCEPT ![claude.session] =
                   IF record = "assistant" THEN "success" ELSE "failure"]

Notes ==
  /\ claude.status = "idle"
  /\ Decides("idle", "note", FALSE)
  /\ UNCHANGED outcome

\* The user starts another conversation in the same process.
Cleared(c) ==
  /\ claude.status = "idle"
  /\ IsSettled
  /\ IsUnused(c)
  /\ CanTake(c)
  /\ c # claude.session
  /\ claude' = [claude EXCEPT !.session = c, !.register = TRUE]
  /\ UNCHANGED <<registration, transcript, outcome>>
  /\ Disturbed

\* Killed or crashed: what it had not written is lost, the files stay.
ProcessDies ==
  /\ claude.status # "dead"
  /\ claude' = [claude EXCEPT !.status = "dead", !.open = FALSE,
                              !.record = Nothing, !.register = FALSE]
  /\ outcome' = IF claude.open \/ ~IsSettled
                THEN [outcome EXCEPT ![claude.session] = "unknown"] ELSE outcome
  /\ UNCHANGED <<registration, transcript>>
  /\ Disturbed

-----------------------------------------------------------------------------
\* The refresh: one step per read.

ProcessesListed ==
  /\ refresh.step = "none"
  /\ refresh' = [NoRefresh EXCEPT !.step = "listed", !.calm = TRUE,
                   !.start = IF claude.status = "dead" THEN 0 ELSE claude.start]
  /\ UNCHANGED <<cliVars, monitorVars, row>>

\* registration_matches_process: the pid alone proves nothing.
BugMatches(reg, start) == reg # Nothing
Matches(reg, start) == reg # Nothing /\ reg.start = start

RegistrationRead ==
  /\ refresh.step = "listed"
  /\ refresh' = [refresh EXCEPT !.step = "registered", !.found =
                   IF refresh.start # 0 /\ Matches(registration, refresh.start)
                   THEN registration ELSE Nothing]
  /\ UNCHANGED <<cliVars, monitorVars, row>>

TranscriptStat ==
  /\ refresh.step = "registered"
  /\ refresh' = [refresh EXCEPT !.step = "stat", !.length =
                   IF refresh.found = Nothing THEN 0
                   ELSE Len(transcript[refresh.found.session])]
  /\ UNCHANGED <<cliVars, monitorVars, row>>

\* claude_session_state with what was read.
RowShown ==
  /\ refresh.step = "stat"
  /\ refresh' = NoRefresh
  /\ IF refresh.found = Nothing
     THEN /\ row' = [NoRow EXCEPT !.calm = refresh.calm]
          /\ UNCHANGED monitorVars
     ELSE LET c      == refresh.found.session
              open   == refresh.found.status \in Working
              proven == ProvesWork(c)
          IN  /\ row' = [session |-> c, calm |-> refresh.calm, status |->
                           IF ~open THEN ReadOutcome(c)
                           ELSE IF proven THEN Shown(refresh.found.status) ELSE "hidden"]
              /\ latched' = IF open /\ proven THEN latched \union {c} ELSE latched
              /\ remembered' =
                   IF open /\ ~NeedsTail(c) THEN remembered
                   ELSE [remembered EXCEPT ![c] =
                           [length |-> refresh.length, outcome |-> ReadOutcome(c)]]
  /\ UNCHANGED cliVars

ClaudeActs ==
  \/ RecordWritten \/ StatusWritten \/ Prompted \/ Notes \/ ProcessDies
  \/ \E c \in ClaudeSessions : Launches(c) \/ Cleared(c)
  \/ \E status \in {"busy", "waiting", "idle"} : StartsUp(status)
  \/ \E status \in Working, record \in {Nothing, "assistant"} : Advances(status, record)
  \/ \E record \in {Nothing, "assistant", "failed"} : TurnOver(record)
ClaudeRefresh == ProcessesListed \/ RegistrationRead \/ TranscriptStat \/ RowShown
ClaudeNext == ClaudeActs \/ ClaudeRefresh
ClaudeSpec == ClaudeInit /\ [][ClaudeNext]_claudeVars

-----------------------------------------------------------------------------
IsRegistered ==
  claude.status # "dead" /\ registration # Nothing /\ registration.start = claude.start

\* The statuses that are true of the process.  How a turn ended in which a
\* process died is not known, nor whether its prompt was written; and the
\* notes of a session between its turns may have pushed the last turn out of
\* the tail.
Truths ==
  LET last    == outcome[claude.session]
      unclear == \/ last = "unknown"
                 \/ ~claude.open /\ Last(transcript[claude.session]) = "note"
      hidden  == IF unclear THEN {"hidden"} ELSE {}
  IN  CASE ~IsRegistered \/ last = "hidden" -> {"hidden"}
        [] IsRegistered /\ last # "hidden" /\ claude.status \in Working ->
             {Shown(claude.status)} \union hidden
        [] OTHER -> (IF last = "unknown" THEN {"success", "failure"} ELSE {last}) \union hidden

\* A refresh during which the process did nothing, and after it had written
\* both its files, shows the truth, whatever was read and cached before, and
\* whatever processes and sessions the pid had before; an open turn is shown
\* whatever the transcript has become.
ClaudeTellsTheTruth == row.calm /\ IsSettled => row.status \in Truths
=============================================================================
