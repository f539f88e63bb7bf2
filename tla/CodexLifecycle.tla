--------------------------- MODULE CodexLifecycle ---------------------------
(***************************************************************************)
(* From a Codex process to the status the monitor displays for it.         *)
(*                                                                         *)
(* The Codex CLI (external) runs turns in its sessions, writes lifecycle   *)
(* and other records to one rollout file per session, and runs a hook      *)
(* process for each installed event, waiting for it before the session     *)
(* goes on; a hook may fail to log its event.  The monitor runs discovery  *)
(* rounds: it reads the process table, then the hook log, then the rollout *)
(* files named by hook states, then those the process holds open, and      *)
(* selects the status to display.  Codex moves between any two of these    *)
(* reads.                                                                  *)
(*                                                                         *)
(* `now` is the wall clock: whatever takes a timestamp ticks it, so that a *)
(* file is the set of its records, in the order of their dates.  Rollout   *)
(* files stay below the sizes at which their tail is read in windows.      *)
(* Definitions named Bug... are wrong variants of the definition after     *)
(* them, used only as mutants.                                             *)
(***************************************************************************)
EXTENDS HookState, FiniteSets

CONSTANTS
  Sessions,   \* sessions (threads) of one working directory
  Pids,       \* process identifiers
  Tools,      \* tool_use_ids
  Settings,   \* the hosts considered, and bounds on what happens there
  Grace,      \* TIMESTAMP_GRACE_SECONDS
  NoTool, NoEvent, NoRoot

Setting ==
  [installed : SUBSET EventNames, \* hook events that are installed
   sessions  : SUBSET Sessions,   \* sessions that are opened
   reuse     : BOOLEAN,  \* the pid of a dead process may come back
   tools     : SUBSET Tools, \* tools that a turn may run at once
   tmux      : BOOLEAN,  \* the process is hosted in a tmux tree
   withIds   : BOOLEAN,  \* lifecycle records carry a turn_id
   maxClock  : Nat,      \* bound on the clock, hence on all Codex does
   maxTurns  : Nat,      \* bound on the turns started by a prompt
   maxGoals  : Nat,      \* bound on the turns started without one
   maxLost   : Nat]      \* bound on hook events that never reach the log

CodexProcess == [pid : Pids, startedAt : Nat]

HookEvent ==
  [event : EventNames, at : Nat, pid : Pids, session : Sessions, turn : Nat,
   tool : Tools \union {NoTool}]

RolloutRecord ==
  [type : {"started", "complete", "failed", "other"}, at : Nat, turn : Nat]

ASSUME LifecycleAssumption ==
  /\ Settings \subseteq Setting
  /\ Pids \subseteq Nat \ {0}
  /\ Grace \in Nat
  /\ IsFiniteSet(Tools)
  /\ NoTool \notin Tools
  /\ NoRoot \notin CodexProcess
  /\ NoEvent \notin HookEvent \union RolloutRecord

VARIABLES
  setting,      \* the host: one of Settings, forever
  now,          \* the clock
  proc,         \* the Codex process: NoRoot or its pid and start time
  held,         \* sessions whose rollout file the process holds open
  codex,        \* session -> what Codex is really doing in it
  turns, goals, \* turns started with and without a prompt
  outcome,      \* how the turn of this process that ended last ended
  rollout,      \* session -> records of its rollout file
  hook,         \* session -> event of the hook process Codex waits for
  log,          \* hook events in the log
  lost,         \* number of events lost
  mpc,          \* monitor: what the running round does next
  root,         \* monitor: the process it saw
  states,       \* monitor: session -> state folded from the log
  candidates,   \* monitor: lifecycle candidates so far
  display,      \* what the last round displayed
  steady,       \* history: nothing moved since the round began
  openSome,     \* history: some turn was open since the round began
  openAll       \* history: sessions with one turn open since it began

process == <<setting, now, proc, held, codex, turns, goals, outcome, rollout>>
hooks   == <<hook, log, lost>>
monitor == <<mpc, root, states, candidates, display>>
history == <<steady, openSome, openAll>>
vars    == <<process, hooks, monitor, history>>

Idle == [turn |-> None, phase |-> "idle", tools |-> {}, asking |-> NoTool,
         askedAt |-> None]

Init ==
  /\ setting \in Settings
  /\ now = 0
  /\ proc = NoRoot /\ held = {}
  /\ codex = [s \in Sessions |-> Idle]
  /\ turns = 0 /\ goals = 0
  /\ outcome = "none"
  /\ rollout = [s \in Sessions |-> {}]
  /\ hook = [s \in Sessions |-> NoEvent]
  /\ log = {} /\ lost = 0
  /\ mpc = "processes" /\ root = NoRoot
  /\ states = [s \in Sessions |-> NoState]
  /\ candidates = {}
  /\ display = "none"
  /\ steady = FALSE /\ openSome = FALSE /\ openAll = {}

-----------------------------------------------------------------------------
(* Lifecycle events of a rollout file                                      *)

\* _terminal_event_from_line: only lifecycle records are events.
Events(s) == {r \in rollout[s] : r.type # "other"}

LastOf(records) ==
  IF records = {} THEN NoEvent
  ELSE CHOOSE r \in records : \A q \in records : q.at <= r.at

Active(e)   == e # NoEvent /\ e.type = "started"
Terminal(e) == e # NoEvent /\ e.type \in {"complete", "failed"}

-----------------------------------------------------------------------------
(* The Codex process                                                       *)

Busy(c, s) == c[s].phase # "idle"

\* Every step of Codex or of a hook: what it means for the running round.
Moves ==
  /\ UNCHANGED setting
  /\ IF mpc = "processes"
     THEN UNCHANGED history
     ELSE /\ steady' = FALSE
          /\ openSome' = (openSome \/ \E s \in Sessions : Busy(codex', s))
          /\ openAll' = {s \in openAll : codex'[s].phase = "open"}

Tick == now < setting.maxClock /\ now' = now + 1

Emit(s, event, tool) ==
  hook' = IF event \in setting.installed
          THEN [hook EXCEPT ![s] =
                  [event |-> event, at |-> now + 1, pid |-> proc.pid, session |-> s,
                   turn |-> codex'[s].turn, tool |-> tool]]
          ELSE hook

Record(s, type, turn) ==
  rollout' = [rollout EXCEPT ![s] = @ \union
    {[type |-> type, at |-> now + 1, turn |-> IF setting.withIds THEN turn ELSE None]}]

\* Codex goes on in a session once its last hook process has ended.
Free(s) == proc # NoRoot /\ hook[s] = NoEvent
CanMove(s) == Free(s) /\ Tick

Launch(p) ==
  /\ proc = NoRoot
  /\ ~setting.reuse => p \notin {e.pid : e \in (log \union {hook[s] : s \in Sessions}) \ {NoEvent}}
  /\ Tick
  /\ proc' = [pid |-> p, startedAt |-> now + 1]
  /\ UNCHANGED <<held, codex, turns, goals, outcome, rollout, hooks, monitor>>
  /\ Moves

\* A session is opened, created or resumed: its file is held open.
OpenSession(s) ==
  /\ CanMove(s)
  /\ s \in setting.sessions \ held
  /\ held' = held \union {s}
  /\ UNCHANGED <<proc, codex, turns, goals, outcome, rollout, log, lost, monitor>>
  /\ Emit(s, "session_start", NoTool)
  /\ Moves

\* A prompt is submitted.
Submit(s) ==
  /\ CanMove(s)
  /\ s \in held /\ ~Busy(codex, s)
  /\ turns < setting.maxTurns
  /\ turns' = turns + 1
  /\ codex' = [codex EXCEPT ![s] = [Idle EXCEPT !.turn = turns + goals + 1, !.phase = "new"]]
  /\ Emit(s, "user_prompt_submit", NoTool)
  /\ Moves
  /\ UNCHANGED <<proc, held, goals, outcome, rollout, log, lost, monitor>>

\* A Goal starts or continues: a turn without a prompt.
StartGoal(s) ==
  /\ CanMove(s)
  /\ s \in held /\ ~Busy(codex, s)
  /\ goals < setting.maxGoals
  /\ goals' = goals + 1
  /\ codex' = [codex EXCEPT ![s] = [Idle EXCEPT !.turn = turns + goals + 1, !.phase = "open"]]
  /\ Record(s, "started", codex'[s].turn)
  /\ Moves
  /\ UNCHANGED <<proc, held, turns, outcome, hooks, monitor>>

\* In a tmux tree a new process resumes the turn that a dead one left open,
\* under the lifecycle record it already has.
ResumeTurn(s) ==
  /\ CanMove(s)
  /\ setting.tmux
  /\ s \notin held /\ Active(LastOf(Events(s)))
  /\ held' = held \union {s}
  /\ codex' = [codex EXCEPT ![s] =
       [Idle EXCEPT !.turn = LastOf(Events(s)).turn, !.phase = "open"]]
  /\ Moves
  /\ UNCHANGED <<proc, turns, goals, outcome, rollout, hooks, monitor>>

TaskStarted(s) ==
  /\ CanMove(s)
  /\ codex[s].phase = "new"
  /\ codex' = [codex EXCEPT ![s].phase = "open"]
  /\ Record(s, "started", codex[s].turn)
  /\ Moves
  /\ UNCHANGED <<proc, held, turns, goals, outcome, hooks, monitor>>

StartTool(s, t) ==
  /\ CanMove(s)
  /\ codex[s].phase = "open" /\ codex[s].asking = NoTool
  /\ t \in setting.tools \ codex[s].tools
  /\ codex' = [codex EXCEPT ![s].tools = @ \union {t}]
  /\ Emit(s, "pre_tool_use", t)
  /\ Moves
  /\ UNCHANGED <<proc, held, turns, goals, outcome, rollout, log, lost, monitor>>

\* A tool needs the approval of the user.
Ask(s, t) ==
  /\ CanMove(s)
  /\ codex[s].phase = "open" /\ codex[s].asking = NoTool
  /\ t \in codex[s].tools
  /\ codex' = [codex EXCEPT ![s].asking = t, ![s].askedAt = now + 1]
  /\ Emit(s, "permission_request", t)
  /\ Moves
  /\ UNCHANGED <<proc, held, turns, goals, outcome, rollout, log, lost, monitor>>

\* The user approves or denies; Codex resumes.
Answer(s) ==
  /\ Free(s)
  /\ codex[s].asking # NoTool
  /\ codex' = [codex EXCEPT ![s].asking = NoTool]
  /\ Moves
  /\ UNCHANGED <<now, proc, held, turns, goals, outcome, rollout, hooks, monitor>>

\* A tool ends: its output is an ordinary record.
EndTool(s, t) ==
  /\ CanMove(s)
  /\ codex[s].phase = "open"
  /\ t \in codex[s].tools \ {codex[s].asking}
  /\ codex' = [codex EXCEPT ![s].tools = @ \ {t}]
  /\ Record(s, "other", codex[s].turn)
  /\ Emit(s, "post_tool_use", t)
  /\ Moves
  /\ UNCHANGED <<proc, held, turns, goals, outcome, log, lost, monitor>>

\* The turn is done: the stop hook runs, then the completion is recorded.
Stop(s) ==
  /\ CanMove(s)
  /\ codex[s].phase = "open" /\ codex[s].tools = {}
  /\ codex' = [codex EXCEPT ![s].phase = "stopping"]
  /\ Emit(s, "stop", NoTool)
  /\ Moves
  /\ UNCHANGED <<proc, held, turns, goals, outcome, rollout, log, lost, monitor>>

Complete(s) ==
  /\ CanMove(s)
  /\ codex[s].phase = "stopping"
  /\ codex' = [codex EXCEPT ![s] = Idle]
  /\ outcome' = "success"
  /\ Record(s, "complete", codex[s].turn)
  /\ Moves
  /\ UNCHANGED <<proc, held, turns, goals, hooks, monitor>>

\* An API error or Ctrl+C: no stop hook runs.
Abort(s) ==
  /\ CanMove(s)
  /\ codex[s].phase = "open"
  /\ codex' = [codex EXCEPT ![s] = Idle]
  /\ outcome' = "failure"
  /\ Record(s, "failed", codex[s].turn)
  /\ Moves
  /\ UNCHANGED <<proc, held, turns, goals, hooks, monitor>>

\* The process dies; its turns leave no trace of their end.
Kill ==
  /\ proc # NoRoot
  /\ proc' = NoRoot
  /\ held' = {}
  /\ codex' = [s \in Sessions |-> Idle]
  /\ outcome' = "none"
  /\ Moves
  /\ UNCHANGED <<now, turns, goals, rollout, hooks, monitor>>

CodexStep(s) ==
  \/ OpenSession(s) \/ Submit(s) \/ StartGoal(s) \/ ResumeTurn(s) \/ TaskStarted(s)
  \/ Answer(s) \/ Stop(s) \/ Complete(s) \/ Abort(s)
  \/ \E t \in Tools : StartTool(s, t) \/ Ask(s, t) \/ EndTool(s, t)

-----------------------------------------------------------------------------
(* A hook process: HookLog in one step, its event logged or dropped        *)

HookEnds(s) ==
  /\ hook[s] # NoEvent
  /\ hook' = [hook EXCEPT ![s] = NoEvent]
  /\ \/ log' = log \union {hook[s]} /\ UNCHANGED lost
     \/ lost < setting.maxLost /\ lost' = lost + 1 /\ UNCHANGED log
  /\ UNCHANGED <<process, monitor>>
  /\ Moves

-----------------------------------------------------------------------------
(* Rollout files and lifecycle candidates                                  *)

BugEventForHook(h, events) ==
  LastOf({e \in events : e.turn # None /\ e.turn = h.turn})

EventForHook(h, events) ==
  LET expected == IF h.turn # None THEN h.turn ELSE h.stoppedTurn
      exact    == {e \in events : e.turn = expected}
      since    == IF h.startedAt # None THEN h.startedAt ELSE h.stoppedAt
  IN  IF expected # None /\ exact # {}
      THEN LastOf(exact)
      ELSE IF expected # None /\ \E e \in events : e.turn # None
      THEN NoEvent
      ELSE LastOf({e \in events : e.at + Grace >= since})

\* When the turn of an event started: fallback of scan_process_terminal_activities.
TurnStart(events, e) ==
  IF Active(e) THEN e.at
  ELSE LET starts == {f \in events : Active(f) /\ f.turn = e.turn}
       IN  IF e.turn = None \/ starts = {} THEN None ELSE LastOf(starts).at

OpenStatuses == {"running", "waiting"}

BugAwaiting(h, e) == AwaitingDecision(h) /\ e = NoEvent

\* The turn of this state stopped at an approval prompt and has not moved on.
Awaiting(h, e) == AwaitingDecision(h) /\ (e = NoEvent \/ e.at <= h.pendingAt)

HookStatus(h, e) ==
  IF Terminal(e) THEN IF e.type = "failed" THEN "failure" ELSE "success"
  ELSE IF ~h.inTurn THEN "success"
  ELSE IF Awaiting(h, e) THEN "waiting"
  ELSE "running"

FileStatus(e) ==
  IF Active(e) THEN "running" ELSE IF e.type = "failed" THEN "failure" ELSE "success"

LaterOf(a, b) == IF a >= b THEN a ELSE b

HookCandidate(h, e) ==
  [status |-> HookStatus(h, e),
   updatedAt |-> IF e = NoEvent THEN h.updatedAt ELSE LaterOf(h.updatedAt, e.at)]

BugDisplayable(s) == states[s].active

\* _hook_states_for_root and has_turn_activity: states the round may display.
Displayable(s) ==
  states[s].active /\ states[s].updatedAt >= root.startedAt

BugIsNewLifecycleNoResume(s, events) ==
  /\ TurnStart(events, LastOf(events)) >= root.startedAt
  /\ Displayable(s) =>
       /\ LastOf(events).turn \notin {states[s].turn, states[s].stoppedTurn}
       /\ TurnStart(events, LastOf(events)) > states[s].updatedAt

\* _is_new_fd_lifecycle: does an open file show a turn that no hook of its
\* session knows of?
IsNewLifecycle(s, events) ==
  LET e     == LastOf(events)
      begun == TurnStart(events, e)
      at    == IF setting.tmux /\ Terminal(e) THEN e.at ELSE begun
  IN  /\ at # None
      /\ (setting.tmux /\ Active(e)) \/ at >= root.startedAt
      /\ Displayable(s) =>
           /\ e.turn # None => e.turn \notin {states[s].turn, states[s].stoppedTurn}
           /\ at > states[s].updatedAt

Latest(C) == CHOOSE c \in C : \A d \in C : c.updatedAt >= d.updatedAt

\* An open turn wins over a finished one, a blocked one over a running one.
Selected(C) ==
  LET open    == {c \in C : c.status \in OpenStatuses}
      waiting == {c \in C : c.status = "waiting"}
  IN  Latest(IF waiting # {} THEN waiting ELSE IF open # {} THEN open ELSE C).status

-----------------------------------------------------------------------------
(* A discovery round of the monitor                                        *)

ReadProcesses ==
  /\ mpc = "processes"
  /\ root' = proc
  /\ IF proc = NoRoot
     THEN display' = "none" /\ UNCHANGED <<mpc, history>>
     ELSE /\ mpc' = "log"
          /\ steady' = TRUE
          /\ openSome' = (\E s \in Sessions : Busy(codex, s))
          /\ openAll' = {s \in Sessions : codex[s].phase = "open"}
          /\ UNCHANGED display
  /\ UNCHANGED <<process, hooks, states, candidates>>

LoadLog ==
  /\ mpc = "log"
  /\ states' = [s \in Sessions |->
       Summary({e \in log : e.pid = root.pid /\ e.session = s}, now)]
  /\ mpc' = "named"
  /\ UNCHANGED <<process, hooks, root, candidates, display, history>>

\* scan_terminal_activity for each displayable hook state.
ScanNamedFiles ==
  /\ mpc = "named"
  /\ candidates' = {HookCandidate(states[s], EventForHook(states[s], Events(s))) :
                      s \in {s \in Sessions : Displayable(s)}}
  /\ mpc' = "held"
  /\ UNCHANGED <<process, hooks, root, states, display, history>>

FileCandidates ==
  {[status |-> FileStatus(LastOf(Events(s))), updatedAt |-> LastOf(Events(s)).at] :
     s \in {s \in held : /\ proc # NoRoot /\ proc.pid = root.pid
                         /\ Events(s) # {}
                         /\ IsNewLifecycle(s, Events(s))}}

\* scan_process_terminal_activities, and the row that the round displays.
ScanHeldFiles ==
  /\ mpc = "held"
  /\ LET all == candidates \union FileCandidates
     IN  display' = IF all = {} THEN "none" ELSE Selected(all)
  /\ mpc' = "processes"
  /\ root' = NoRoot
  /\ states' = [s \in Sessions |-> NoState]
  /\ candidates' = {}
  /\ steady' = FALSE /\ openSome' = FALSE /\ openAll' = {}
  /\ UNCHANGED <<process, hooks>>

Monitor == ReadProcesses \/ LoadLog \/ ScanNamedFiles \/ ScanHeldFiles

-----------------------------------------------------------------------------
Next ==
  \/ \E p \in Pids : Launch(p)
  \/ \E s \in Sessions : CodexStep(s) \/ HookEnds(s)
  \/ Kill
  \/ Monitor

Spec == Init /\ [][Next]_vars

\* The monitor keeps refreshing and a hook process ends; Codex and its user
\* need not do anything.
Fairness == WF_vars(Monitor) /\ \A s \in Sessions : WF_vars(HookEnds(s))

FairSpec == Spec /\ Fairness

-----------------------------------------------------------------------------
(* Safety: what a round that ends displays                                 *)

RoundEnds == mpc = "held" /\ mpc' = "processes"

\* An open turn is displayed only if one was open at some time during the
\* round: neither a turn that was aborted without a stop hook, nor one whose
\* stop was lost, nor one a killed process left open in its file haunts the
\* row.  In a tmux tree a turn left open in a file counts as resumed.
NoPhantomTurn ==
  [][RoundEnds /\ display' \in OpenStatuses
       => \/ openSome
          \/ setting.tmux /\ \E s \in Sessions : Active(LastOf(Events(s)))]_vars

\* A turn that stays open from the beginning of a round to its end is
\* displayed as open, whichever hook events were lost, whatever happens to
\* the other sessions of the process, and although the round reads the log
\* and the files at different moments.
NoHiddenTurn ==
  [][RoundEnds /\ openAll # {} => display' \in OpenStatuses]_vars

Quiet == \A s \in Sessions : hook[s] = NoEvent /\ codex[s].phase \in {"idle", "open"}

Open(s) == codex[s].phase = "open"

\* Every event reached the log and every turn began with a prompt.
AllHooked == lost = 0 /\ goals = 0

\* Tools that run beside one that asks may end before it is answered.
Parallel == Cardinality(setting.tools) > 1

\* What may be displayed for the process as it is.  A turn that has asked may
\* be displayed as waiting until the monitor learns that it has moved on, and
\* no longer is once a tool that runs beside the one that asks has ended.
Truth ==
  IF \E s \in Sessions : codex[s].asking # NoTool
  THEN IF Parallel THEN OpenStatuses ELSE {"waiting"}
  ELSE IF \E s \in Sessions : codex[s].askedAt # None THEN OpenStatuses
  ELSE IF \E s \in Sessions : Open(s) THEN {"running"}
  ELSE {outcome}

\* When every turn is hooked, a round during which nothing moves displays what
\* Codex is doing: waiting, running, or how the turn that ended last ended;
\* nothing for a process that has run no turn, even with the pid and the
\* sessions of a dead one.  (In a tmux tree a turn left open in a file counts
\* as resumed.)
QuietRoundsTellTheTruth ==
  [][RoundEnds /\ steady /\ Quiet /\ AllHooked /\ ~setting.tmux => display' \in Truth]_vars

\* A question whose permission_request was logged is displayed until it is
\* answered, unless other tools of its turn run on: the end of any of them
\* counts as an answer.
QuestionsStayShown ==
  [][RoundEnds /\ steady /\ Quiet /\ ~Parallel
     /\ (\E e \in log : /\ e.event = "permission_request"
                        /\ codex[e.session].asking # NoTool
                        /\ codex[e.session].askedAt = e.at)
       => display' = "waiting"]_vars

\* Every question is answered and the files of the turns that asked have
\* grown since.
MovedOn ==
  \A s \in Sessions : codex[s].askedAt # None =>
    codex[s].asking = NoTool /\ LastOf(rollout[s]).at > codex[s].askedAt

\* With the tool hooks installed, a row is released once its turn has gone on.
ToolEventsReleaseWaiting ==
  [][RoundEnds /\ steady /\ Quiet /\ AllHooked /\ MovedOn
     /\ "post_tool_use" \in setting.installed
       => display' # "waiting"]_vars

\* A row is released once its turn has gone on, whichever hooks are installed:
\* the new record alone proves it.
RecordsReleaseWaiting ==
  [][RoundEnds /\ steady /\ Quiet /\ MovedOn => display' # "waiting"]_vars

-----------------------------------------------------------------------------
(* Liveness                                                                *)

\* When Codex rests the display comes to tell the truth and stays there.
DisplayCatchesUp == <>[](Quiet /\ AllHooked => display \in Truth)

=============================================================================
