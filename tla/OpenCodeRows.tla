---------------------------- MODULE OpenCodeRows ----------------------------
(* Which conversation the monitor shows for each OpenCode process           *)
(* (monitor.py), and when the row says that it waits                        *)
(* (opencode_decisions.py and the plugin of assets/opencode).  OpenCode     *)
(* does not record which process works on a conversation: a process is      *)
(* bound to it by a hook marker or its command line if there is one, and    *)
(* else by the working directory and the time of the last activity.         *)
(*                                                                          *)
(* All processes run in one directory, the hard case.  The clock ticks with *)
(* every step of a process, so that times are distinct.                     *)
EXTENDS Naturals, Sequences, FiniteSetsExt

CONSTANTS
  MaxProcesses,     \* bound: processes started; pids are not reused
  MaxConversations, \* bound: session rows of the database
  Grace,            \* the two seconds by which activity may precede the process
  MaxClock,         \* bound: steps of the processes
  MaxMarkers,       \* bound: records of the decision log
  NoOne             \* no conversation, no process

ASSUME RowsAssumption ==
  /\ {MaxProcesses, MaxConversations, Grace, MaxClock, MaxMarkers} \subseteq Nat
  /\ NoOne \notin 1 .. MaxConversations

VARIABLES
  clock,
  process,       \* start time, whether it lives and has the hook, and what names its
                 \* conversation: the command line, or the last hook marker
  conversation,  \* created, last activity, whether its turn is open, who works on it
  prompts,       \* the open prompt of each process, which no file tells
  markers        \* decisions.jsonl: asks and replies

rowsVars == <<clock, process, conversation, prompts, markers>>

Pids == 1 .. MaxProcesses
Conversations == 1 .. MaxConversations
Live == {p \in Pids : process[p].alive}
Recorded == {c \in Conversations : conversation[c].created > 0}

-----------------------------------------------------------------------------
\* The binding of _opencode_state_for_root.

\* The conversation the hook markers or the command line name, not yet taken.
Bound(p, used) == process[p].anchor \in Recorded \ used

\* An explicit anchor holds for an idle row too, the directory only for what
\* was active while the process lived.
InDirectory(p, used) ==
  {c \in Recorded \ used :
     c # process[p].anchor /\ conversation[c].activity + Grace >= process[p].start}

IsOpen(c) == conversation[c].open
Newest(cs) ==
  IF cs = {} THEN NoOne
  ELSE CHOOSE c \in cs : \A d \in cs : conversation[c].activity >= conversation[d].activity

BugStateForRoot(p, used) ==
  LET near  == InDirectory(p, used)
      fresh == {c \in near : conversation[c].created + Grace >= process[p].start}
  IN  IF Bound(p, used) THEN process[p].anchor
      ELSE IF fresh # {} THEN Newest(fresh) ELSE Newest(near)
StateForRoot(p, used) ==
  LET bound == IF Bound(p, used) THEN {process[p].anchor} ELSE {}
      near  == InDirectory(p, used)
      open  == {c \in near : IsOpen(c)}
      fresh == {c \in near : conversation[c].created + Grace >= process[p].start}
      owned == bound \union (IF open # {} THEN open
                             ELSE IF fresh # {} THEN fresh
                             ELSE IF bound = {} THEN near ELSE {})
  IN  IF \E c \in bound : IsOpen(c) THEN process[p].anchor
      ELSE IF open # {} THEN Newest(open)
      ELSE Newest(owned)

\* Processes whose anchor is open come first, then the newest.
OpenAnchor(p) == process[p].anchor \in Recorded /\ IsOpen(process[p].anchor)
Before(p, q) ==
  IF OpenAnchor(p) = OpenAnchor(q) THEN process[p].start > process[q].start ELSE OpenAnchor(p)

LastOf(ps) == CHOOSE p \in ps : \A q \in ps \ {p} : Before(q, p)

Bind(p, rows) == [rows EXCEPT ![p] = StateForRoot(p, {rows[q] : q \in Pids})]
Rows == MapThenFoldSet(Bind, [p \in Pids |-> NoOne], LAMBDA p : p, LastOf, Live)

-----------------------------------------------------------------------------
\* The overlay of opencode_decisions.py.

\* A reply answers its own request, and every request of its conversation.
PendingAsks ==
  {i \in DOMAIN markers :
     /\ markers[i].ask
     /\ \A j \in i + 1 .. Len(markers) :
          ~(~markers[j].ask /\ markers[j].conversation = markers[i].conversation)}

BugFoundDecision(p, c) == \E i \in PendingAsks : markers[i].conversation = c
FoundDecision(p, c) ==
  \E i \in PendingAsks : markers[i].conversation = c /\ markers[i].pid = p

\* Only the row of an open turn is relabelled.
IsShownWaiting(p) == Rows[p] # NoOne /\ IsOpen(Rows[p]) /\ FoundDecision(p, Rows[p])

-----------------------------------------------------------------------------
RowsInit ==
  /\ clock = 0
  /\ process = [p \in Pids |-> [start |-> 0, alive |-> FALSE, hooked |-> FALSE,
                                anchor |-> NoOne]]
  /\ conversation = [c \in Conversations |->
                       [created |-> 0, activity |-> 0, open |-> FALSE, worker |-> NoOne]]
  /\ prompts = {}
  /\ markers = <<>>

Ticks == clock < MaxClock /\ clock' = clock + 1

IsWorkingOn(p, c) == conversation[c].open /\ conversation[c].worker = p
IsBusy(p) == \E c \in Recorded : IsWorkingOn(p, c)

\* opencode, or opencode -s c; with or without the lifecycle hook.
OpenCodeStarts(p, c, hooked) ==
  /\ process[p].start = 0
  /\ \A q \in 1 .. p - 1 : process[q].start > 0
  /\ Ticks
  /\ process' = [process EXCEPT ![p] = [start |-> clock', alive |-> TRUE, hooked |-> hooked,
                                        anchor |-> c]]
  /\ UNCHANGED <<conversation, prompts, markers>>

\* A turn opens in a new conversation, or in one that nobody works on.
TurnOpens(p, c) ==
  /\ p \in Live
  /\ ~IsBusy(p)
  /\ Ticks
  /\ \/ c \in Recorded /\ ~(conversation[c].open /\ conversation[c].worker \in Live)
     \/ c \notin Recorded /\ \A d \in 1 .. c - 1 : d \in Recorded
  /\ conversation' = [conversation EXCEPT ![c] =
       [created |-> IF c \in Recorded THEN @.created ELSE clock',
        activity |-> clock', open |-> TRUE, worker |-> p]]
  /\ process' = [process EXCEPT ![p].anchor = IF process[p].hooked THEN c ELSE @]
  /\ UNCHANGED <<prompts, markers>>

TurnWorks(p, c) ==
  /\ p \in Live /\ IsWorkingOn(p, c) /\ p \notin prompts
  /\ Ticks
  /\ conversation' = [conversation EXCEPT ![c].activity = clock']
  /\ UNCHANGED <<process, prompts, markers>>

TurnCloses(p, c) ==
  /\ p \in Live /\ IsWorkingOn(p, c) /\ p \notin prompts
  /\ Ticks
  /\ conversation' = [conversation EXCEPT ![c].activity = clock', ![c].open = FALSE]
  /\ UNCHANGED <<process, prompts, markers>>

\* Killed or crashed: an open turn stays open in the database.
OpenCodeDies(p) ==
  /\ p \in Live
  /\ process' = [process EXCEPT ![p].alive = FALSE]
  /\ prompts' = prompts \ {p}
  /\ UNCHANGED <<clock, conversation, markers>>

Marked(ask, p, c) ==
  /\ Len(markers) < MaxMarkers
  /\ markers' = Append(markers, [ask |-> ask, pid |-> p, conversation |-> c])

\* The plugin appends the marker of an ask, and of the answer.
PromptOpens(p, c) ==
  /\ p \in Live /\ IsWorkingOn(p, c) /\ p \notin prompts
  /\ Marked(TRUE, p, c)
  /\ prompts' = prompts \union {p}
  /\ UNCHANGED <<clock, process, conversation>>

PromptAnswered(p, c) ==
  /\ p \in prompts /\ IsWorkingOn(p, c)
  /\ Marked(FALSE, p, c)
  /\ prompts' = prompts \ {p}
  /\ UNCHANGED <<clock, process, conversation>>

\* A rotation, or two at once of plugins that know nothing of each other, lose
\* the oldest markers.
MarkersLost ==
  /\ markers # <<>>
  /\ \E n \in DOMAIN markers : markers' = SubSeq(markers, n + 1, Len(markers))
  /\ UNCHANGED <<clock, process, conversation, prompts>>

RowsNext ==
  \/ \E p \in Pids, c \in Recorded \union {NoOne}, hooked \in BOOLEAN : OpenCodeStarts(p, c, hooked)
  \/ \E p \in Pids, c \in Conversations :
       TurnOpens(p, c) \/ TurnWorks(p, c) \/ TurnCloses(p, c) \/ PromptOpens(p, c)
         \/ PromptAnswered(p, c)
  \/ \E p \in Pids : OpenCodeDies(p)
  \/ MarkersLost
RowsSpec == RowsInit /\ [][RowsNext]_rowsVars

-----------------------------------------------------------------------------
Abandoned == {c \in Recorded : IsOpen(c) /\ conversation[c].worker \notin Live}

\* No command line or marker names a conversation another process works on.
NamesAreTrue ==
  \A p \in Live : OpenAnchor(p) => IsWorkingOn(p, process[p].anchor)

\* No conversation is on two rows; and as long as no open turn was abandoned
\* by a process that died and names are true, every open turn is on a row, and
\* on its own process's if that is named: a finished conversation, a resumed
\* one older than its process, or an idle process in the same directory hide
\* none.
OpenTurnsAreBound ==
  /\ \A p, q \in Live : p # q /\ Rows[p] # NoOne => Rows[p] # Rows[q]
  /\ Abandoned = {} /\ NamesAreTrue =>
       \A c \in Recorded : IsOpen(c) =>
         /\ \E p \in Live : Rows[p] = c
         /\ process[conversation[c].worker].anchor = c => Rows[conversation[c].worker] = c

\* A row says that it waits only when its own process has an unanswered prompt
\* in that very conversation, whatever markers dead processes left behind or
\* rotations lost.
WaitingIsOwn ==
  \A p \in Live : IsShownWaiting(p) => p \in prompts /\ IsWorkingOn(p, Rows[p])
=============================================================================
