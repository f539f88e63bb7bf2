----------------------- MODULE CodexLifecycle_proofs ------------------------
(* Proofs about CodexLifecycle: a round neither hides a turn that is open    *)
(* nor shows one that is not, for any number of sessions, processes, tools   *)
(* and turns.                                                                *)
EXTENDS CodexLifecycle, RecursionLemmas

-----------------------------------------------------------------------------
(* The invariant                                                           *)

Phases == {"idle", "new", "open", "stopping"}
Statuses == {"running", "waiting", "success", "failure"}

CodexTurn ==
  [turn : Nat, phase : Phases, tools : SUBSET Tools, asking : Tools \union {NoTool},
   askedAt : Nat]

FoldState ==
  [updatedAt : Nat, inTurn : BOOLEAN, active : BOOLEAN, turn : Nat, startedAt : Nat,
   stoppedAt : Nat, stoppedTurn : Nat, pendingAt : Nat, tools : SUBSET (Tools \union {NoTool})]

Candidate == [status : Statuses, updatedAt : Nat]

TypeOK ==
  /\ setting \in Settings
  /\ now \in Nat /\ turns \in Nat /\ goals \in Nat /\ lost \in Nat
  /\ proc \in CodexProcess \union {NoRoot} /\ root \in CodexProcess \union {NoRoot}
  /\ held \in SUBSET Sessions
  /\ codex \in [Sessions -> CodexTurn]
  /\ rollout \in [Sessions -> SUBSET RolloutRecord]
  /\ hook \in [Sessions -> HookEvent \union {NoEvent}]
  /\ log \in SUBSET HookEvent
  /\ mpc \in {"processes", "log", "named", "held"}
  /\ states \in [Sessions -> FoldState]
  /\ candidates \in SUBSET Candidate
  /\ openSome \in BOOLEAN /\ openAll \in SUBSET Sessions

\* The events of a session: those in the log and that of its running hook.
Known(s) == {e \in log \union {hook[s]} : e # NoEvent /\ e.session = s}

\* Those a process emitted, or another one that had its pid since it started.
Mine(s, q) == {e \in Known(s) : e.pid = q.pid /\ e.at >= q.startedAt}

\* Nothing is dated ahead of the clock or twice, or names a turn to come.
Dated(s) ==
  /\ hook[s] # NoEvent => hook[s].session = s
  /\ \A e \in Known(s) : /\ e.at \in 1 .. now /\ e.turn <= turns + goals
                         /\ e.event \in setting.installed
  /\ \A e, f \in Known(s) : e.at = f.at => e = f
  /\ \A r \in rollout[s] : r.at \in 1 .. now /\ r.turn <= turns + goals
  /\ setting.withIds => \A r \in rollout[s] : r.turn # None
  /\ ~setting.withIds => \A r \in rollout[s] : r.turn = None
  /\ \A r, q \in rollout[s] : r.at = q.at => r = q
  /\ codex[s].turn <= turns + goals

\* A process works on the sessions it holds, and has left no trace in others.
Attached(s) ==
  /\ Busy(codex, s) =>
       /\ proc # NoRoot /\ s \in held
       /\ setting.withIds => codex[s].turn # None
  /\ proc # NoRoot /\ s \notin held =>
       /\ Mine(s, proc) = {}
       /\ \A r \in rollout[s] : r.at < proc.startedAt

\* The only event of a turn that has just begun is its prompt, the last one.
NewTurnIsPrompted(s) ==
  codex[s].phase = "new" =>
    /\ codex[s].turn # None
    /\ \A r \in rollout[s] : r.turn # codex[s].turn
    /\ \A e \in Known(s) : e.turn = codex[s].turn =>
         /\ e.event = "user_prompt_submit"
         /\ \A f \in Known(s) : f.at <= e.at

WithinTurn == {"permission_request", "pre_tool_use", "post_tool_use"}

\* The events since a turn was recorded are its own, and before that no event
\* was but its prompt, the last one.
BegunBy(s, e) ==
  /\ e.at >= proc.startedAt /\ codex[s].turn # None
  /\ \A f \in Known(s) : f.at >= e.at => f.event \in WithinTurn /\ f.turn = codex[s].turn
  /\ \A f \in Known(s) : f.at < e.at /\ f.turn = codex[s].turn =>
       /\ f.event = "user_prompt_submit"
       /\ \A g \in Known(s) : g.at < e.at => g.at <= f.at

\* A turn that another process began: all this one emits is of it.
ResumedFrom(s, e) ==
  /\ setting.tmux /\ e.at < proc.startedAt
  /\ \A f \in Mine(s, proc) : f.event \in WithinTurn /\ f.turn = codex[s].turn

OpenTurnIsRecorded(s) ==
  codex[s].phase = "open" =>
    LET e == LastOf(Events(s)) IN
    /\ Active(e)
    /\ setting.withIds => e.turn = codex[s].turn
    /\ BegunBy(s, e) \/ ResumedFrom(s, e)

SessionInv(s) ==
  Dated(s) /\ Attached(s) /\ NewTurnIsPrompted(s) /\ OpenTurnIsRecorded(s)

\* The fold knows of the open turn, or has seen nothing since it was recorded.
OnTurn(s) ==
  states[s].inTurn /\ (setting.withIds => states[s].turn = codex[s].turn)

Outdated(s) ==
  LET e == LastOf(Events(s)) IN
  /\ states[s].updatedAt < e.at
  /\ e.turn # None => e.turn \notin {states[s].turn, states[s].stoppedTurn}

\* What a round knows of the sessions whose turn was open all along.
RoundInv ==
  /\ mpc # "processes" =>
       /\ root # NoRoot
       /\ openAll # {} => proc = root /\ \A s \in openAll : codex[s].phase = "open"
  /\ mpc \in {"named", "held"} =>
       \A s \in openAll : Displayable(s) => OnTurn(s) \/ Outdated(s)
  /\ mpc = "held" =>
       \A s \in openAll : Displayable(s) /\ OnTurn(s) =>
         \E c \in candidates : c.status \in OpenStatuses

LifecycleInv ==
  /\ TypeOK
  /\ proc # NoRoot => proc.startedAt \in 1 .. now
  /\ \A s \in Sessions : SessionInv(s)
  /\ \A s \in Sessions : states[s].updatedAt <= now
  /\ \A c \in candidates : c.updatedAt <= now
  /\ RoundInv

-----------------------------------------------------------------------------
(* Hosts on which pids come back only if every turn is hooked              *)

Ordinary(x) ==
  /\ "session_start" \notin x.installed
  /\ x.reuse => /\ "user_prompt_submit" \in x.installed
                /\ ~x.tmux /\ x.maxLost = 0 /\ x.maxGoals = 0

TurnEnded(s, t) ==
  \E r \in Events(s) :
    /\ Terminal(r) /\ r.turn = t
    /\ \A q \in Events(s) : q.turn = t => q.at <= r.at

Ended(s, e) == setting.withIds => e.turn # None /\ TurnEnded(s, e.turn)

\* The file tells how each turn ended of which q, at rest, has emitted events.
Told(s, q) ==
  LET last == LastOf(Events(s)) IN
  /\ \A e \in Mine(s, q) : Ended(s, e)
  /\ Mine(s, q) # {} => Terminal(last) /\ \A e \in Known(s) : e.at < last.at
  /\ Active(last) => last.at < q.startedAt

\* The first event of q is no stop, unless no other process had its pid.
Announced(s, q) ==
  /\ setting.reuse => \A e \in Mine(s, q) : e.event = "stop" =>
                        \E f \in Mine(s, q) \intersect log : f.at < e.at
  /\ ~setting.reuse => \A e \in Known(s) : e.pid = q.pid => e.at >= q.startedAt

Accounted(s) ==
  proc # NoRoot =>
    /\ Announced(s, proc)
    /\ ~Busy(codex, s) => Told(s, proc)
    /\ Busy(codex, s) =>
         \A e \in Mine(s, proc) : e.turn = codex[s].turn \/ Ended(s, e)
    /\ setting.reuse =>
         /\ codex[s].phase = "new" => Mine(s, proc) # {}
         /\ codex[s].phase \in {"open", "stopping"} => Mine(s, proc) \intersect log # {}

\* The turn that a fold says is open is over, and the file says so.
Over(s) ==
  LET last == LastOf(Events(s)) IN
  /\ Terminal(last)
  /\ states[s].startedAt # None /\ states[s].startedAt <= last.at
  /\ setting.withIds => states[s].turn # None /\ TurnEnded(s, states[s].turn)

\* What a round knows during which no turn was open.
CalmInv ==
  mpc # "processes" /\ ~openSome =>
    /\ \A s \in Sessions : ~Busy(codex, s) /\ Told(s, root) /\ Announced(s, root)
    /\ mpc \in {"named", "held"} =>
         \A s \in Sessions : Displayable(s) /\ states[s].inTurn => Over(s)
    /\ mpc = "held" => \A c \in candidates : c.status \notin OpenStatuses

PhantomInv == Ordinary(setting) => CalmInv /\ \A s \in Sessions : Accounted(s)

-----------------------------------------------------------------------------
(* The last record of a file                                               *)

LEMMA LastOfFacts ==
  ASSUME NEW R \in SUBSET RolloutRecord, R # {}, NEW n \in Nat, \A r \in R : r.at <= n
  PROVE  LastOf(R) \in R /\ \A q \in R : q.at <= LastOf(R).at
<1> DEFINE dates == {r.at : r \in R}
<1>1. dates \subseteq Nat /\ dates # {} /\ \A d \in dates : d <= n
  BY DEF RolloutRecord
<1>2. \E d \in dates : \A c \in dates : c <= d
  <2> HIDE DEF dates
  <2>1. QED
    BY <1>1, GreatestNatural
<1>3. \E r \in R : \A q \in R : q.at <= r.at
  BY <1>2
<1>4. QED
  BY <1>3 DEF LastOf

LEMMA LastOfIs ==
  ASSUME NEW R, NEW r \in R, \A q \in R : q.at <= r.at,
         \A q \in R : q.at \in Nat, \A q \in R : q.at = r.at => q = r
  PROVE  LastOf(R) = r
<1>1. PICK l \in R : l = LastOf(R) /\ \A q \in R : q.at <= l.at
  BY DEF LastOf
<1>2. l.at <= r.at /\ r.at <= l.at /\ l.at \in Nat /\ r.at \in Nat
  BY <1>1
<1>3. l.at = r.at
  BY <1>2
<1>4. QED
  BY <1>1, <1>3

-----------------------------------------------------------------------------
(* The fold over hook events                                               *)

Opening == WithinTurn \union {"user_prompt_submit"}

\* What one event does to the state of its session.
LEMMA FoldedFacts ==
  ASSUME NEW p \in FoldState, NEW e \in HookEvent
  PROVE  LET f == Folded(p, e) IN
         /\ f \in FoldState
         /\ f.updatedAt = e.at
         /\ e.event \in Opening => f.inTurn /\ f.turn = TurnOf(p, e)
         /\ f.turn \in {p.turn, e.turn}
         /\ f.stoppedTurn \in {p.stoppedTurn, p.turn, e.turn}
         /\ f.startedAt \in {p.startedAt, e.at}
         /\ e.event \in Opening /\ e.at # None => f.startedAt # None
         /\ e.event \notin Opening => f.startedAt = p.startedAt
         /\ e.event \notin Opening /\ f.inTurn => p.inTurn /\ f.turn = p.turn
         /\ e.event = "permission_request" => f.active /\ f.pendingAt = e.at
<1> USE DEF FoldState, HookEvent, None
<1>1. CASE e.event = "session_start"
  BY <1>1 DEF Folded, Opening, WithinTurn
<1>2. CASE e.event = "user_prompt_submit"
  <2>1. TurnOf(p, e) \in Nat /\ TurnOf(p, e) \in {p.turn, e.turn}
    BY DEF TurnOf
  <2>2. Folded(p, e) =
          [updatedAt |-> e.at, inTurn |-> TRUE, active |-> TRUE, turn |-> TurnOf(p, e),
           startedAt |-> e.at,
           stoppedAt |-> None, stoppedTurn |-> p.stoppedTurn,
           pendingAt |-> None, tools |-> {}]
    <3>1. Folded(p, e) = [OnPrompt(p, e) EXCEPT !.updatedAt = e.at]
      BY <1>2 DEF Folded
    <3>2. QED
      BY <3>1 DEF OnPrompt
  <2>3. QED
    BY <1>2, <2>1, <2>2 DEF Opening, WithinTurn
<1>3. CASE e.event = "permission_request"
  <2>1. TurnOf(p, e) \in Nat /\ TurnOf(p, e) \in {p.turn, e.turn}
    BY DEF TurnOf
  <2>2. Folded(p, e) =
          [updatedAt |-> e.at, inTurn |-> TRUE, active |-> TRUE, turn |-> TurnOf(p, e),
           startedAt |-> IF p.startedAt = None THEN e.at ELSE p.startedAt,
           stoppedAt |-> p.stoppedAt, stoppedTurn |-> p.stoppedTurn,
           pendingAt |-> e.at, tools |-> p.tools]
    <3>1. Folded(p, e) = [OnPermission(p, e) EXCEPT !.updatedAt = e.at]
      BY <1>3 DEF Folded
    <3>2. QED
      BY <3>1 DEF OnPermission, Opened
  <2>3. QED
    BY <1>3, <2>1, <2>2 DEF Opening, WithinTurn
<1>4. CASE e.event = "pre_tool_use"
  <2>1. TurnOf(p, e) \in Nat /\ TurnOf(p, e) \in {p.turn, e.turn}
    BY DEF TurnOf
  <2>2. Folded(p, e) =
          [updatedAt |-> e.at, inTurn |-> TRUE, active |-> p.active, turn |-> TurnOf(p, e),
           startedAt |-> IF p.startedAt = None THEN e.at ELSE p.startedAt,
           stoppedAt |-> p.stoppedAt, stoppedTurn |-> p.stoppedTurn,
           pendingAt |-> p.pendingAt, tools |-> p.tools \union {e.tool}]
    <3>1. Folded(p, e) = [OnPreTool(p, e) EXCEPT !.updatedAt = e.at]
      BY <1>4 DEF Folded
    <3>2. QED
      BY <3>1 DEF OnPreTool, Opened
  <2>3. QED
    BY <1>4, <2>1, <2>2 DEF Opening, WithinTurn
<1>5. CASE e.event = "post_tool_use"
  <2>1. TurnOf(p, e) \in Nat /\ TurnOf(p, e) \in {p.turn, e.turn}
    BY DEF TurnOf
  <2>2. Folded(p, e) =
          [updatedAt |-> e.at, inTurn |-> TRUE, active |-> p.active, turn |-> TurnOf(p, e),
           startedAt |-> IF p.startedAt = None THEN e.at ELSE p.startedAt,
           stoppedAt |-> p.stoppedAt, stoppedTurn |-> p.stoppedTurn,
           pendingAt |-> None, tools |-> p.tools \ {e.tool}]
    <3>1. Folded(p, e) = [OnPostTool(p, e) EXCEPT !.updatedAt = e.at]
      BY <1>5 DEF Folded
    <3>2. QED
      BY <3>1 DEF OnPostTool, Opened
  <2>3. QED
    BY <1>5, <2>1, <2>2 DEF Opening, WithinTurn
<1>6. CASE e.event = "stop"
  <2>1. Folded(p, e) = [OnStop(p, e) EXCEPT !.updatedAt = e.at]
    BY <1>6 DEF Folded
  <2>2. TurnOf(p, e) \in Nat /\ TurnOf(p, e) \in {p.turn, e.turn}
    BY DEF TurnOf
  <2>3. CASE e.turn # None /\ p.turn # None /\ e.turn # p.turn
    <3>1. Folded(p, e) =
            [updatedAt |-> e.at, inTurn |-> p.inTurn, active |-> TRUE, turn |-> p.turn,
             startedAt |-> p.startedAt, stoppedAt |-> e.at, stoppedTurn |-> TurnOf(p, e),
             pendingAt |-> p.pendingAt, tools |-> p.tools]
      BY <2>1, <2>3 DEF OnStop
    <3>2. QED
      BY <1>6, <2>2, <3>1 DEF Opening, WithinTurn
  <2>4. CASE ~(e.turn # None /\ p.turn # None /\ e.turn # p.turn)
    <3>1. Folded(p, e) =
            [updatedAt |-> e.at, inTurn |-> FALSE, active |-> TRUE, turn |-> TurnOf(p, e),
             startedAt |-> p.startedAt, stoppedAt |-> e.at, stoppedTurn |-> TurnOf(p, e),
             pendingAt |-> None, tools |-> {}]
      BY <2>1, <2>4 DEF OnStop
    <3>2. QED
      BY <1>6, <2>2, <3>1 DEF Opening, WithinTurn
  <2>5. QED
    BY <2>3, <2>4
<1>7. QED
  BY <1>1, <1>2, <1>3, <1>4, <1>5, <1>6 DEF EventNames

EventAt(E, t) == CHOOSE e \in E : e.at = t

FoldsOf(A, E, n) ==
  /\ A \in [0 .. n -> FoldState]
  /\ A[0] = NoState
  /\ \A t \in 1 .. n :
       A[t] = IF \E e \in E : e.at = t THEN Folded(A[t - 1], EventAt(E, t)) ELSE A[t - 1]

\* The states after each moment exist, and the last one is the summary.
LEMMA SummaryExists ==
  ASSUME NEW E \in SUBSET HookEvent, NEW n \in Nat
  PROVE  \E A : FoldsOf(A, E, n) /\ Summary(E, n) = A[n]
<1> DEFINE Next1(p, t) == IF \E e \in E : e.at = t THEN Folded(p, EventAt(E, t)) ELSE p
           step == [x \in FoldState \X (1 .. n) |-> Next1(x[1], x[2])]
           IsFold(A) == A = [t \in 0 .. n |-> IF t = 0 THEN NoState ELSE Next1(A[t - 1], t)]
<1>1. NoState \in FoldState
  BY DEF NoState, FoldState, None
<1>2. ASSUME NEW p \in FoldState, NEW t \in 1 .. n PROVE Next1(p, t) \in FoldState
  <2>1. CASE \E e \in E : e.at = t
    <3>1. EventAt(E, t) \in HookEvent
      BY <2>1 DEF EventAt
    <3>2. QED
      BY <2>1, <3>1, FoldedFacts
  <2>2. QED
    BY <2>1
<1> HIDE DEF Next1
<1>3. step \in Steps(FoldState, n)
  <2>1. ASSUME NEW x \in FoldState \X (1 .. n) PROVE Next1(x[1], x[2]) \in FoldState
    BY <1>2
  <2>2. QED
    BY <2>1 DEF Steps
<1>4. PICK f : Iterates(f, FoldState, NoState, n, step)
  <2> HIDE DEF step
  <2>1. QED
    BY <1>1, <1>3, IteratesExist
<1>5. IsFold(f)
  <2>1. ASSUME NEW t \in 0 .. n, t # 0 PROVE step[<<f[t - 1], t>>] = Next1(f[t - 1], t)
    <3>1. f[t - 1] \in FoldState /\ t \in 1 .. n
      BY <1>4, <2>1 DEF Iterates
    <3>2. QED
      BY <3>1
  <2> HIDE DEF step
  <2>2. QED
    BY <1>4, <2>1 DEF Iterates
<1> DEFINE A == CHOOSE A : IsFold(A)
<1>6. IsFold(A)
  BY <1>5
<1>7. Summary(E, n) = A[n]
  BY DEF Summary, Next1, EventAt
<1> HIDE DEF A
<1>8. A[0] = NoState /\ \A t \in 1 .. n : A[t] = Next1(A[t - 1], t)
  BY <1>6
<1>9. \A t \in 0 .. n : t \in {k \in 0 .. n : A[k] \in FoldState}
  <2> DEFINE G == {k \in 0 .. n : A[k] \in FoldState}
  <2>1. 0 \in G
    BY <1>1, <1>8
  <2>2. ASSUME NEW t \in 1 .. n, t - 1 \in G PROVE t \in G
    BY <1>2, <1>8, <2>2
  <2> HIDE DEF G
  <2>3. \A t \in 0 .. n : t \in G
    BY <2>1, <2>2, UpwardInduction
  <2>4. QED
    BY <2>3 DEF G
<1>10. A \in [0 .. n -> FoldState]
  <2>1. A = [t \in 0 .. n |-> A[t]]
    BY <1>6
  <2>2. QED
    BY <1>9, <2>1
<1>11. QED
  BY <1>7, <1>8, <1>10 DEF Next1, FoldsOf

DatedApart(E, n) ==
  /\ E \in SUBSET HookEvent
  /\ \A e \in E : e.at \in 1 .. n
  /\ \A e, f \in E : e.at = f.at => e = f

\* l is the last of the events E up to t.
LastUpTo(l, E, t) == l \in E /\ l.at <= t /\ \A e \in E : e.at <= t => e.at <= l.at

\* What the state p after the events E up to t has from them.
Sound(p, E, t) ==
  /\ p \in FoldState
  /\ p = NoState \/ \E l \in E, q \in FoldState : LastUpTo(l, E, t) /\ p = Folded(q, l)
  /\ p = NoState => \A e \in E : e.at > t
  /\ p.turn \in {None} \union {e.turn : e \in E}
  /\ p.stoppedTurn \in {None} \union {e.turn : e \in E}
  /\ p.startedAt \in {None} \union {e.at : e \in E}
  /\ p.inTurn => p.startedAt # None

LEMMA FoldsAreSound ==
  ASSUME NEW E, NEW n \in Nat, DatedApart(E, n), NEW A, FoldsOf(A, E, n)
  PROVE  \A t \in 0 .. n : Sound(A[t], E, t)
<1> DEFINE G == {t \in 0 .. n : Sound(A[t], E, t)}
<1>1. 0 \in G
  BY DEF FoldsOf, Sound, DatedApart, NoState, None
<1>2. ASSUME NEW t \in 1 .. n, t - 1 \in G PROVE t \in G
  <2> DEFINE p == A[t - 1]
  <2>1. Sound(p, E, t - 1) /\ p \in FoldState /\ t \in 0 .. n /\ t \in Nat
    BY <1>2 DEF Sound
  <2>2. CASE \E e \in E : e.at = t
    <3>1. PICK e \in E : e.at = t /\ e = EventAt(E, t)
      BY <2>2 DEF EventAt
    <3>2. A[t] = Folded(p, e) /\ e \in HookEvent
      BY <3>1 DEF FoldsOf, DatedApart
    <3> DEFINE f == Folded(p, e)
    <3>3. /\ f \in FoldState
          /\ f.updatedAt = t
          /\ f.turn \in {p.turn, e.turn}
          /\ f.stoppedTurn \in {p.stoppedTurn, p.turn, e.turn}
          /\ f.startedAt \in {p.startedAt, e.at}
          /\ e.event \in Opening => f.startedAt # None
          /\ e.event \notin Opening => f.startedAt = p.startedAt
          /\ e.event \notin Opening /\ f.inTurn => p.inTurn
      <4>1. e.at # None
        BY <3>1 DEF None
      <4>2. QED
        BY <2>1, <3>1, <3>2, <4>1, FoldedFacts
    <3>4. LastUpTo(e, E, t)
      BY <3>1 DEF LastUpTo, DatedApart
    <3>5. f # NoState
      BY <3>3 DEF NoState, None
    <3> HIDE DEF f
    <3>6. Sound(f, E, t)
      <4>1. f.turn \in {None} \union {g.turn : g \in E}
        BY <2>1, <3>3 DEF Sound
      <4>2. f.stoppedTurn \in {None} \union {g.turn : g \in E}
        BY <2>1, <3>3 DEF Sound
      <4>3. f.startedAt \in {None} \union {g.at : g \in E}
        BY <2>1, <3>3 DEF Sound
      <4>4. f.inTurn => f.startedAt # None
        BY <2>1, <3>3 DEF Sound
      <4>5. \E l \in E, q \in FoldState : LastUpTo(l, E, t) /\ f = Folded(q, l)
        BY <2>1, <3>1, <3>4 DEF f
      <4>6. QED
        BY <3>3, <3>5, <4>1, <4>2, <4>3, <4>4, <4>5 DEF Sound
    <3>7. QED
      BY <2>1, <3>2, <3>6 DEF f
  <2>3. CASE ~ \E e \in E : e.at = t
    <3>1. A[t] = p
      BY <2>3 DEF FoldsOf
    <3>2. \A e \in E : e.at <= t => e.at <= t - 1
      BY <2>3 DEF DatedApart
    <3>3. \A l \in E : LastUpTo(l, E, t - 1) => LastUpTo(l, E, t)
      BY <3>2 DEF LastUpTo, DatedApart
    <3>4. \A e \in E : e.at > t - 1 => e.at > t
      BY <2>3 DEF DatedApart
    <3>5. Sound(p, E, t)
      BY <2>1, <3>3, <3>4 DEF Sound
    <3>6. QED
      BY <2>1, <3>1, <3>5
  <2>4. QED
    BY <2>2, <2>3
<1> HIDE DEF G
<1>3. \A t \in 0 .. n : t \in G
  BY <1>1, <1>2, UpwardInduction
<1>4. QED
  BY <1>3 DEF G

\* What a round knows from the log: the last event, and of which turn it is.
LEMMA SummaryFacts ==
  ASSUME NEW E, NEW n \in Nat, DatedApart(E, n)
  PROVE  Sound(Summary(E, n), E, n)
<1>1. PICK A : FoldsOf(A, E, n) /\ Summary(E, n) = A[n]
  BY SummaryExists DEF DatedApart
<1>2. n \in 0 .. n
  OBVIOUS
<1>3. QED
  BY <1>1, <1>2, FoldsAreSound

\* The open turn of a state that is up to date is that of a recent event, when
\* the first recent one is no stop.
LEMMA OpenTurnIsRecent ==
  ASSUME NEW E, NEW n \in Nat, DatedApart(E, n), NEW b \in Nat,
         \A e \in E : e.event # "session_start",
         \A e \in E : e.at >= b => e.turn # None,
         \A e \in E : e.event = "stop" /\ e.at >= b =>
           (\E f \in E : f.at >= b /\ f.at < e.at) \/ \A f \in E : f.at >= b
  PROVE  LET h == Summary(E, n) IN
         h.inTurn /\ h.updatedAt >= b => \E e \in E : e.at >= b /\ e.turn = h.turn
<1>1. PICK A : FoldsOf(A, E, n) /\ Summary(E, n) = A[n]
  BY SummaryExists DEF DatedApart
<1> DEFINE Recent(p) == p.inTurn /\ p.updatedAt >= b => \E e \in E : e.at >= b /\ e.turn = p.turn
           G == {t \in 0 .. n : Recent(A[t])}
<1>2. 0 \in G
  BY <1>1 DEF FoldsOf, NoState
<1>3. ASSUME NEW t \in 1 .. n, t - 1 \in G PROVE t \in G
  <2> DEFINE p == A[t - 1]
  <2>1. p \in FoldState /\ Recent(p) /\ t - 1 \in 0 .. n /\ t \in 0 .. n
    BY <1>1, <1>3 DEF FoldsOf
  <2>2. CASE \E e \in E : e.at = t /\ e.at >= b
    <3>1. PICK e \in E : e.at = t /\ e = EventAt(E, t)
      BY <2>2 DEF EventAt
    <3>2. A[t] = Folded(p, e) /\ e \in HookEvent /\ e.at >= b
      BY <1>1, <2>2, <3>1 DEF FoldsOf, DatedApart
    <3>3. CASE e.event \in Opening
      <4>1. A[t].turn = TurnOf(p, e)
        BY <2>1, <3>2, <3>3, FoldedFacts
      <4>2. A[t].turn = e.turn
        BY <3>1, <3>2, <4>1 DEF TurnOf
      <4>3. QED
        BY <2>1, <3>1, <3>2, <4>2
    <3>4. CASE e.event \notin Opening
      <4>1. e.event = "stop"
        BY <3>1, <3>2, <3>4 DEF HookEvent, EventNames, Opening, WithinTurn
      <4>2. A[t].inTurn => p.inTurn /\ A[t].turn = p.turn
        BY <2>1, <3>2, <3>4, FoldedFacts
      <4>3. ASSUME p.inTurn PROVE p.updatedAt >= b
        <5>1. p # NoState
          BY <4>3 DEF NoState
        <5>2. PICK l \in E, q \in FoldState : LastUpTo(l, E, t - 1) /\ p = Folded(q, l)
          BY <1>1, <2>1, <5>1, FoldsAreSound DEF Sound
        <5>3. p.updatedAt = l.at /\ l.at \in Nat
          BY <5>2, FoldedFacts DEF DatedApart
        <5>4. \A f \in E : f.at < e.at => f.at <= l.at
          BY <3>1, <5>2 DEF LastUpTo, DatedApart
        <5>5. \A f \in E : f.at \in Nat
          BY DEF DatedApart
        <5>6. QED
          BY <3>1, <3>2, <4>1, <5>2, <5>3, <5>4, <5>5
      <4>4. QED
        BY <2>1, <4>2, <4>3
    <3>5. QED
      BY <3>3, <3>4
  <2>3. CASE \E e \in E : e.at = t /\ e.at < b
    <3>1. PICK e \in E : e.at = t /\ e = EventAt(E, t)
      BY <2>3 DEF EventAt
    <3>2. A[t] = Folded(p, e) /\ e \in HookEvent /\ t < b
      BY <1>1, <2>3, <3>1 DEF FoldsOf, DatedApart
    <3>3. A[t].updatedAt = t
      BY <2>1, <3>1, <3>2, FoldedFacts
    <3>4. QED
      BY <2>1, <3>2, <3>3
  <2>4. CASE ~ \E e \in E : e.at = t
    BY <1>1, <2>1, <2>4 DEF FoldsOf
  <2>5. QED
    BY <2>2, <2>3, <2>4 DEF DatedApart
<1> HIDE DEF G
<1>4. \A t \in 0 .. n : t \in G
  BY <1>2, <1>3, UpwardInduction
<1>5. n \in G
  BY <1>4
<1>6. QED
  BY <1>1, <1>5 DEF G

-----------------------------------------------------------------------------
(* From a state and a file to a status                                     *)

LEMMA EventFacts ==
  ASSUME TypeOK, NEW s \in Sessions, Dated(s), NEW R \in SUBSET Events(s)
  PROVE  /\ R \in SUBSET RolloutRecord
         /\ \A r \in R : r.at \in 1 .. now /\ r.at \in Nat /\ r.type # "other"
         /\ R # {} => LastOf(R) \in R /\ \A q \in R : q.at <= LastOf(R).at
         /\ \A r \in R : (\A q \in R : q.at <= r.at) => LastOf(R) = r
         /\ R = {} <=> LastOf(R) = NoEvent
         /\ now \in Nat
<1>1. /\ R \in SUBSET RolloutRecord /\ now \in Nat
      /\ \A r \in R : r.at \in 1 .. now /\ r.at \in Nat /\ r.type # "other"
  BY DEF TypeOK, Dated, Events
<1>2. R # {} => LastOf(R) \in R /\ \A q \in R : q.at <= LastOf(R).at
  BY <1>1, LastOfFacts
<1>3. ASSUME NEW r \in R, \A q \in R : q.at <= r.at PROVE LastOf(R) = r
  <2>1. \A q \in R : q.at = r.at => q = r
    BY DEF Dated, Events
  <2>2. QED
    BY <1>1, <1>3, <2>1, LastOfIs
<1>4. R = {} <=> LastOf(R) = NoEvent
  BY <1>1, <1>2, LifecycleAssumption DEF LastOf
<1>5. QED
  BY <1>1, <1>2, <1>3, <1>4

LEMMA SettingFacts ==
  ASSUME TypeOK
  PROVE  /\ setting.installed \in SUBSET EventNames /\ setting.sessions \in SUBSET Sessions
         /\ setting.tools \in SUBSET Tools
         /\ setting.reuse \in BOOLEAN /\ setting.tmux \in BOOLEAN /\ setting.withIds \in BOOLEAN
         /\ setting.maxLost \in Nat /\ setting.maxGoals \in Nat
         /\ Grace \in Nat
BY LifecycleAssumption DEF TypeOK, Setting

\* The record that a state is matched with is one of its file.
LEMMA EventForHookFacts ==
  ASSUME TypeOK, NEW s \in Sessions, Dated(s), NEW h \in FoldState, h.updatedAt <= now
  PROVE  LET e == EventForHook(h, Events(s)) IN
         /\ e \in Events(s) \union {NoEvent}
         /\ HookCandidate(h, e) \in Candidate
         /\ HookCandidate(h, e).updatedAt <= now
<1> DEFINE e == EventForHook(h, Events(s))
<1>1. e \in Events(s) \union {NoEvent}
  <2>1. ASSUME NEW R \in SUBSET Events(s) PROVE LastOf(R) \in Events(s) \union {NoEvent}
    BY EventFacts
  <2>2. QED
    BY <2>1 DEF EventForHook
<1> HIDE DEF e
<1>2. e # NoEvent => e.at \in Nat /\ e.at <= now
  BY <1>1, EventFacts
<1>3. h.updatedAt \in Nat /\ now \in Nat
  BY DEF FoldState, TypeOK
<1>4. HookStatus(h, e) \in Statuses
  BY DEF HookStatus, Statuses
<1>5. QED
  BY <1>1, <1>2, <1>3, <1>4 DEF HookCandidate, Candidate, LaterOf, e

\* A state that is of the open turn, or that names none, is not matched with
\* a record of an end.
LEMMA OpenTurnMatches ==
  ASSUME TypeOK, NEW s \in Sessions, Dated(s), NEW h \in FoldState,
         Active(LastOf(Events(s))),
         setting.withIds => h.turn # None /\ LastOf(Events(s)).turn = h.turn
  PROVE  EventForHook(h, Events(s)) \in {LastOf(Events(s)), NoEvent}
<1> DEFINE E == Events(s)
           last == LastOf(E)
           expected == IF h.turn # None THEN h.turn ELSE h.stoppedTurn
           exact == {e \in E : e.turn = expected}
           since == IF h.startedAt # None THEN h.startedAt ELSE h.stoppedAt
           recent == {e \in E : e.at + Grace >= since}
<1>1. last # NoEvent /\ E # {} /\ last \in E /\ \A q \in E : q.at <= last.at
  BY EventFacts DEF Active
<1>2. CASE setting.withIds
  <2>1. last \in exact /\ expected # None
    BY <1>1, <1>2
  <2>2. LastOf(exact) = last
    BY <1>1, <2>1, EventFacts
  <2>3. QED
    BY <2>1, <2>2 DEF EventForHook
<1>3. CASE ~setting.withIds
  <2>1. \A e \in E : e.turn = None
    BY <1>3 DEF Dated, Events
  <2>2. expected # None => exact = {}
    BY <2>1
  <2>3. EventForHook(h, E) = LastOf(recent)
    BY <2>1, <2>2 DEF EventForHook
  <2>4. ASSUME recent # {} PROVE last \in recent
    <3>1. PICK q \in E : q.at + Grace >= since
      BY <2>4
    <3>2. q.at <= last.at /\ q.at \in Nat /\ last.at \in Nat
      BY <1>1, EventFacts
    <3>3. since \in Nat /\ Grace \in Nat
      BY SettingFacts DEF FoldState
    <3> HIDE DEF since, E, last
    <3>4. last.at + Grace >= since
      BY <3>1, <3>2, <3>3
    <3>5. QED
      BY <1>1, <3>4
  <2>5. recent # {} => LastOf(recent) = last
    BY <1>1, <2>4, EventFacts
  <2>6. recent = {} => LastOf(recent) = NoEvent
    BY EventFacts
  <2>7. QED
    BY <2>3, <2>5, <2>6
<1>4. QED
  BY <1>2, <1>3

\* A state whose turn is over is matched with a record of an end.
LEMMA OverMatches ==
  ASSUME TypeOK, NEW s \in Sessions, Dated(s), Over(s)
  PROVE  Terminal(EventForHook(states[s], Events(s)))
<1> DEFINE E == Events(s)
           h == states[s]
           last == LastOf(E)
           expected == IF h.turn # None THEN h.turn ELSE h.stoppedTurn
           exact == {e \in E : e.turn = expected}
           since == IF h.startedAt # None THEN h.startedAt ELSE h.stoppedAt
           recent == {e \in E : e.at + Grace >= since}
<1>1. last # NoEvent /\ E # {} /\ last \in E /\ \A q \in E : q.at <= last.at
  BY EventFacts DEF Over, Terminal
<1>2. CASE setting.withIds
  <2>1. PICK r \in E : /\ Terminal(r) /\ r.turn = h.turn
                       /\ \A q \in E : q.turn = h.turn => q.at <= r.at
    BY <1>2 DEF Over, TurnEnded
  <2>2. r \in exact /\ expected # None /\ \A q \in exact : q.at <= r.at
    BY <1>2, <2>1 DEF Over
  <2>3. LastOf(exact) = r
    BY <2>2, EventFacts
  <2>4. QED
    BY <2>1, <2>2, <2>3 DEF EventForHook
<1>3. CASE ~setting.withIds
  <2>1. \A e \in E : e.turn = None
    BY <1>3 DEF Dated, Events
  <2>2. expected # None => exact = {}
    BY <2>1
  <2>3. EventForHook(h, E) = LastOf(recent)
    BY <2>1, <2>2 DEF EventForHook
  <2>4. last.at \in Nat /\ Grace \in Nat /\ h.startedAt \in Nat
    BY <1>1, EventFacts, SettingFacts DEF TypeOK, FoldState
  <2>5. since = h.startedAt /\ h.startedAt <= last.at
    BY DEF Over
  <2> HIDE DEF E, last, since, h
  <2>6. last.at + Grace >= since
    BY <2>4, <2>5
  <2>7. last \in recent /\ \A q \in recent : q.at <= last.at
    BY <1>1, <2>6
  <2>8. LastOf(recent) = last
    BY <2>7, EventFacts DEF E
  <2>9. QED
    BY <2>3, <2>8 DEF Over, last, E, h
<1>4. QED
  BY <1>2, <1>3

\* The selection is among the candidates, and an open turn wins.
LEMMA SelectedFacts ==
  ASSUME NEW C \in SUBSET Candidate, C # {}, NEW n \in Nat, \A c \in C : c.updatedAt <= n
  PROVE  /\ \E c \in C : Selected(C) = c.status
         /\ (\E c \in C : c.status \in OpenStatuses) => Selected(C) \in OpenStatuses
         /\ (\E c \in C : c.status = "waiting") => Selected(C) = "waiting"
<1>1. ASSUME NEW D \in SUBSET C, D # {} PROVE Latest(D) \in D
  <2> DEFINE dates == {c.updatedAt : c \in D}
  <2>1. dates \subseteq Nat /\ dates # {} /\ \A d \in dates : d <= n
    BY <1>1 DEF Candidate
  <2>2. \E d \in dates : \A c \in dates : c <= d
    <3> HIDE DEF dates
    <3>1. QED
      BY <2>1, GreatestNatural
  <2>3. \E c \in D : \A d \in D : c.updatedAt >= d.updatedAt
    <3>1. PICK c \in D : \A d \in dates : d <= c.updatedAt
      BY <2>2
    <3>2. \A d \in D : d.updatedAt \in dates
      OBVIOUS
    <3> HIDE DEF dates
    <3>3. QED
      BY <3>1, <3>2, <2>1 DEF Candidate
  <2>4. QED
    BY <2>3 DEF Latest
<1> DEFINE open == {c \in C : c.status \in OpenStatuses}
           waiting == {c \in C : c.status = "waiting"}
<1>2. CASE waiting # {}
  <2>1. Selected(C) = Latest(waiting).status
    BY <1>2 DEF Selected
  <2>2. QED
    BY <1>1, <1>2, <2>1 DEF OpenStatuses
<1>3. CASE waiting = {} /\ open # {}
  <2>1. Selected(C) = Latest(open).status
    BY <1>3 DEF Selected
  <2>2. QED
    BY <1>1, <1>3, <2>1
<1>4. CASE waiting = {} /\ open = {}
  <2>1. Selected(C) = Latest(C).status
    BY <1>4 DEF Selected
  <2>2. QED
    BY <1>1, <1>4, <2>1
<1>5. QED
  BY <1>2, <1>3, <1>4

\* The candidates of files are dated in the past.
LEMMA FileCandidateFacts ==
  ASSUME TypeOK, \A s \in Sessions : Dated(s)
  PROVE  /\ FileCandidates \in SUBSET Candidate
         /\ \A c \in FileCandidates : c.updatedAt <= now
<1>1. ASSUME NEW s \in held, Events(s) # {}
      PROVE  /\ FileStatus(LastOf(Events(s))) \in Statuses
             /\ LastOf(Events(s)).at \in Nat /\ LastOf(Events(s)).at <= now
  <2>1. s \in Sessions
    BY DEF TypeOK
  <2>2. QED
    BY <1>1, <2>1, EventFacts DEF FileStatus, Statuses
<1>2. QED
  BY <1>1 DEF FileCandidates, Candidate

-----------------------------------------------------------------------------
(* What the steps of Codex change                                          *)

\* A step that leaves session s alone, or at most loses its running hook.
Spares(s) ==
  /\ setting' = setting /\ proc' = proc
  /\ now' >= now /\ turns' + goals' >= turns + goals
  /\ codex'[s].phase = codex[s].phase /\ codex'[s].turn = codex[s].turn
  /\ rollout'[s] = rollout[s]
  /\ s \in held => s \in held'
  /\ hook'[s] \in {hook[s], NoEvent}
  /\ Known(s)' \subseteq Known(s) /\ log \subseteq log'
  /\ setting.maxLost = 0 => Known(s)' = Known(s)

NewEvent(s, event, tool, turn) ==
  [event |-> event, at |-> now + 1, pid |-> proc.pid, session |-> s, turn |-> turn,
   tool |-> tool]

LEMMA EmitFacts ==
  ASSUME TypeOK, NEW s \in Sessions, hook[s] = NoEvent, proc # NoRoot,
         NEW event \in EventNames, NEW tool \in Tools \union {NoTool},
         Emit(s, event, tool), log' = log, codex'[s].turn \in Nat
  PROVE  LET new == NewEvent(s, event, tool, codex'[s].turn) IN
         /\ hook' \in [Sessions -> HookEvent \union {NoEvent}]
         /\ \A r \in Sessions \ {s} : hook'[r] = hook[r] /\ Known(r)' = Known(r)
         /\ hook'[s] # NoEvent => hook'[s].session = s
         /\ Known(s) \subseteq log
         /\ new \in HookEvent /\ new # NoEvent
         /\ event \in setting.installed => Known(s)' = Known(s) \union {new}
         /\ event \notin setting.installed => Known(s)' = Known(s)
<1> DEFINE new == NewEvent(s, event, tool, codex'[s].turn)
<1>1. proc.pid \in Pids /\ now \in Nat
  BY DEF TypeOK, CodexProcess
<1>2. new \in HookEvent /\ new.session = s /\ new # NoEvent
  <2>1. new \in HookEvent /\ new.session = s
    BY <1>1 DEF HookEvent, NewEvent
  <2>2. QED
    BY <2>1, LifecycleAssumption
<1>3. hook' = IF event \in setting.installed THEN [hook EXCEPT ![s] = new] ELSE hook
  BY DEF Emit, NewEvent
<1> HIDE DEF new
<1>4. hook' \in [Sessions -> HookEvent \union {NoEvent}]
  BY <1>2, <1>3 DEF TypeOK
<1>5. \A r \in Sessions \ {s} : hook'[r] = hook[r]
  BY <1>3 DEF TypeOK
<1>6. hook'[s] = IF event \in setting.installed THEN new ELSE NoEvent
  BY <1>3 DEF TypeOK
<1>7. Known(s) = {e \in log : e # NoEvent /\ e.session = s}
  BY DEF Known
<1>8. Known(s)' = {e \in log \union {hook'[s]} : e # NoEvent /\ e.session = s}
  BY DEF Known
<1>9. \A r \in Sessions \ {s} : Known(r)' = Known(r)
  BY <1>5 DEF Known
<1>10. event \in setting.installed => Known(s)' = Known(s) \union {new}
  BY <1>2, <1>6, <1>7, <1>8
<1>11. event \notin setting.installed => Known(s)' = Known(s)
  BY <1>6, <1>7, <1>8
<1>12. hook'[s] # NoEvent => hook'[s].session = s
  BY <1>2, <1>6
<1>13. QED
  BY <1>2, <1>4, <1>5, <1>7, <1>9, <1>10, <1>11, <1>12 DEF new

NewRecord(type, turn) ==
  [type |-> type, at |-> now + 1, turn |-> IF setting.withIds THEN turn ELSE None]

LEMMA RecordFacts ==
  ASSUME TypeOK, NEW s \in Sessions, Dated(s), NEW turn \in Nat,
         NEW type \in {"started", "complete", "failed", "other"}, Record(s, type, turn)
  PROVE  LET new == NewRecord(type, turn) IN
         /\ rollout' \in [Sessions -> SUBSET RolloutRecord]
         /\ new \in RolloutRecord /\ new # NoEvent
         /\ rollout'[s] = rollout[s] \union {new}
         /\ \A r \in Sessions \ {s} : rollout'[r] = rollout[r] /\ Events(r)' = Events(r)
         /\ type = "other" => Events(s)' = Events(s)
         /\ type # "other" => /\ Events(s)' = Events(s) \union {new}
                              /\ LastOf(Events(s)') = new
<1> DEFINE new == NewRecord(type, turn)
<1>1. new \in RolloutRecord /\ new # NoEvent /\ new.at = now + 1 /\ new.type = type
  <2>1. new \in RolloutRecord
    BY DEF RolloutRecord, NewRecord, TypeOK, None
  <2>2. QED
    BY <2>1, LifecycleAssumption DEF NewRecord
<1>2. rollout' = [rollout EXCEPT ![s] = @ \union {new}]
  BY DEF Record, NewRecord
<1> HIDE DEF new
<1>3. /\ rollout' \in [Sessions -> SUBSET RolloutRecord]
      /\ rollout'[s] = rollout[s] \union {new}
      /\ \A r \in Sessions \ {s} : rollout'[r] = rollout[r]
  BY <1>1, <1>2 DEF TypeOK
<1>4. type = "other" => Events(s)' = Events(s)
  BY <1>1, <1>3 DEF Events
<1>5. type # "other" => Events(s)' = Events(s) \union {new}
  BY <1>1, <1>3 DEF Events
<1>6. LastOf(Events(s) \union {new}) = new
  <2>1. \A q \in Events(s) : q.at \in Nat /\ q.at <= now
    BY EventFacts
  <2>2. now \in Nat
    BY DEF TypeOK
  <2>3. \A q \in Events(s) \union {new} :
          q.at \in Nat /\ q.at <= new.at /\ (q.at = new.at => q = new)
    BY <1>1, <2>1, <2>2
  <2>4. QED
    BY <2>3, LastOfIs
<1>7. \A r \in Sessions \ {s} : Events(r)' = Events(r)
  BY <1>3 DEF Events
<1>8. QED
  BY <1>1, <1>3, <1>4, <1>5, <1>6, <1>7 DEF new

LEMMA MovesFacts ==
  ASSUME TypeOK, Moves
  PROVE  /\ setting' = setting /\ setting' \in Settings
         /\ openSome' \in BOOLEAN /\ openAll' \in SUBSET Sessions
         /\ mpc # "processes" =>
              /\ \A s \in openAll' : s \in openAll /\ codex'[s].phase = "open"
              /\ openSome => openSome'
              /\ ~openSome' => \A s \in Sessions : ~Busy(codex', s)
         /\ mpc = "processes" => openSome' = openSome /\ openAll' = openAll
BY DEF Moves, TypeOK, history

\* A step of Codex in s: it keeps the types and leaves other sessions alone.
Advances(s) ==
  /\ TypeOK'
  /\ setting' = setting /\ proc' = proc /\ log' = log /\ now' >= now
  /\ \A r \in Sessions \ {s} : Spares(r)

LEMMA Advance ==
  ASSUME TypeOK, NEW s \in Sessions, Moves, UNCHANGED <<proc, log, lost, monitor>>,
         now' \in {now, now + 1},
         turns' \in {turns, turns + 1}, goals' \in {goals, goals + 1},
         held' \in {held, held \union {s}},
         NEW turn \in CodexTurn, codex' = [codex EXCEPT ![s] = turn],
         rollout' \in [Sessions -> SUBSET RolloutRecord],
         \A r \in Sessions \ {s} : rollout'[r] = rollout[r],
         hook' \in [Sessions -> HookEvent \union {NoEvent}],
         \A r \in Sessions \ {s} : hook'[r] = hook[r]
  PROVE  Advances(s) /\ codex'[s] = turn
<1>1. /\ setting' = setting /\ setting' \in Settings
      /\ openSome' \in BOOLEAN /\ openAll' \in SUBSET Sessions
  BY MovesFacts
<1>2. /\ now' \in Nat /\ turns' \in Nat /\ goals' \in Nat
      /\ now' >= now /\ turns' + goals' >= turns + goals
  <2>1. now \in Nat /\ turns \in Nat /\ goals \in Nat
    BY DEF TypeOK
  <2>2. \A m \in {turns, turns + 1}, n \in {goals, goals + 1} :
          m \in Nat /\ n \in Nat /\ m + n >= turns + goals
    BY <2>1
  <2>3. now' \in Nat /\ now' >= now
    BY <2>1
  <2>4. QED
    BY <2>2, <2>3, Zenon
<1>3. /\ held' \in SUBSET Sessions /\ codex' \in [Sessions -> CodexTurn]
      /\ codex'[s] = turn /\ \A r \in Sessions \ {s} : codex'[r] = codex[r]
  BY DEF TypeOK
<1>4. TypeOK'
  BY <1>1, <1>2, <1>3 DEF TypeOK, monitor
<1>5. ASSUME NEW r \in Sessions \ {s} PROVE Spares(r)
  <2>1. Known(r)' = Known(r)
    BY DEF Known
  <2>2. QED
    BY <1>1, <1>2, <1>3, <2>1 DEF Spares
<1>6. QED
  BY <1>1, <1>2, <1>3, <1>4, <1>5 DEF Advances

-----------------------------------------------------------------------------
(* What the steps of Codex keep of a session                               *)

LEMMA SparedIsKept ==
  ASSUME TypeOK, NEW s \in Sessions, SessionInv(s), Spares(s), TypeOK'
  PROVE  SessionInv(s)'
<1>1. Dated(s)'
  <2>1. now \in Nat /\ now' \in Nat /\ turns + goals \in Nat /\ turns' + goals' \in Nat
    <3>1. /\ now \in Nat /\ turns \in Nat /\ goals \in Nat
          /\ now' \in Nat /\ turns' \in Nat /\ goals' \in Nat
      BY DEF TypeOK
    <3>2. \A m, n \in Nat : m + n \in Nat
      OBVIOUS
    <3>3. QED
      BY <3>1, <3>2, Zenon
  <2>2. ASSUME NEW k \in Nat, k <= turns + goals PROVE k <= turns' + goals'
    BY <2>1, <2>2 DEF Spares
  <2>3. \A e \in Known(s) : e.turn \in Nat
    BY DEF Known, TypeOK, HookEvent
  <2>4. \A r \in rollout[s] : r.turn \in Nat
    BY DEF TypeOK, RolloutRecord
  <2>5. codex[s].turn \in Nat
    BY DEF TypeOK, CodexTurn
  <2>6. hook'[s] # NoEvent => hook'[s].session = s
    BY DEF SessionInv, Dated, Spares
  <2>7. \A e \in Known(s)' : /\ e.at \in 1 .. now' /\ e.turn <= turns' + goals'
                            /\ e.event \in setting'.installed
    BY <2>1, <2>2, <2>3 DEF SessionInv, Dated, Spares
  <2>8. \A r \in rollout'[s] : r.at \in 1 .. now' /\ r.turn <= turns' + goals'
    BY <2>1, <2>2, <2>4 DEF SessionInv, Dated, Spares
  <2>9. codex'[s].turn <= turns' + goals'
    BY <2>2, <2>5 DEF SessionInv, Dated, Spares
  <2>10. /\ \A e, f \in Known(s)' : e.at = f.at => e = f
         /\ \A r, q \in rollout'[s] : r.at = q.at => r = q
         /\ setting'.withIds => \A r \in rollout'[s] : r.turn # None
         /\ ~setting'.withIds => \A r \in rollout'[s] : r.turn = None
    BY DEF SessionInv, Dated, Spares
  <2>11. QED
    BY <2>6, <2>7, <2>8, <2>9, <2>10 DEF Dated
<1>2. Attached(s)'
  BY DEF SessionInv, Attached, Busy, Spares, Mine
<1>3. NewTurnIsPrompted(s)'
  BY DEF SessionInv, NewTurnIsPrompted, Spares
<1>4. OpenTurnIsRecorded(s)'
  <2>1. Events(s)' = Events(s) /\ Mine(s, proc)' \subseteq Mine(s, proc)
    BY DEF Events, Mine, Spares
  <2>2. QED
    BY <2>1 DEF SessionInv, OpenTurnIsRecorded, BegunBy, ResumedFrom, Spares
<1>5. QED
  BY <1>1, <1>2, <1>3, <1>4 DEF SessionInv

LEMMA SparedIsAccounted ==
  ASSUME TypeOK, NEW s \in Sessions, Spares(s), Ordinary(setting), Accounted(s)
  PROVE  Accounted(s)'
<1>1. Events(s)' = Events(s) /\ Mine(s, proc)' \subseteq Mine(s, proc)
  BY DEF Events, Mine, Spares
<1>2. setting.reuse => Mine(s, proc)' = Mine(s, proc)
  BY DEF Mine, Spares, Ordinary
<1>3. \A e : Ended(s, e) => Ended(s, e)'
  BY <1>1 DEF Ended, TurnEnded, Spares
<1>4. Told(s, proc) => Told(s, proc)'
  BY <1>1, <1>3 DEF Told, Spares
<1>5. Announced(s, proc) => Announced(s, proc)'
  BY <1>1, <1>2 DEF Announced, Spares
<1>6. QED
  BY <1>1, <1>2, <1>3, <1>4, <1>5 DEF Accounted, Spares, Busy

\* What is new in a session is dated by the tick of the clock.
LEMMA DatedGrows ==
  ASSUME TypeOK, TypeOK', NEW s \in Sessions, Dated(s), setting' = setting,
         now' = now + 1, turns' + goals' \in {turns + goals, turns + goals + 1},
         codex'[s].turn <= turns' + goals',
         hook'[s] # NoEvent => hook'[s].session = s,
         NEW new, Known(s)' \subseteq Known(s) \union {new},
         new \in Known(s)' \ Known(s) => /\ new.at = now + 1 /\ new.turn = codex'[s].turn
                                        /\ new.event \in setting.installed,
         NEW line, rollout'[s] \subseteq rollout[s] \union {line},
         line \in rollout'[s] \ rollout[s] => line.at = now + 1 /\ line.turn <= turns' + goals',
         line \in rollout'[s] \ rollout[s] /\ setting.withIds => line.turn # None,
         line \in rollout'[s] \ rollout[s] /\ ~setting.withIds => line.turn = None
  PROVE  Dated(s)'
<1>1. now \in Nat /\ turns + goals \in Nat
  <2>1. now \in Nat /\ turns \in Nat /\ goals \in Nat
    BY DEF TypeOK
  <2>2. QED
    BY <2>1
<1>2. ASSUME NEW k \in Nat, k <= turns + goals PROVE k <= turns' + goals'
  BY <1>1, <1>2
<1>3. \A e \in Known(s) : e.at \in 1 .. now /\ e.turn \in Nat /\ e.turn <= turns + goals
  BY DEF Known, TypeOK, HookEvent, Dated
<1>4. \A r \in rollout[s] : r.at \in 1 .. now /\ r.turn \in Nat /\ r.turn <= turns + goals
  BY DEF TypeOK, RolloutRecord, Dated
<1>5. \A e \in Known(s)' : /\ e.at \in 1 .. now' /\ e.turn <= turns' + goals'
                          /\ e.event \in setting'.installed
  BY <1>1, <1>2, <1>3 DEF Dated
<1>6. \A r \in rollout'[s] : r.at \in 1 .. now' /\ r.turn <= turns' + goals'
  BY <1>1, <1>2, <1>4
<1>7. \A e, f \in Known(s)' : e.at = f.at => e = f
  BY <1>1, <1>3 DEF Dated
<1>8. \A r, q \in rollout'[s] : r.at = q.at => r = q
  BY <1>1, <1>4 DEF Dated
<1>9. /\ setting'.withIds => \A r \in rollout'[s] : r.turn # None
      /\ ~setting'.withIds => \A r \in rollout'[s] : r.turn = None
  BY DEF Dated
<1>10. QED
  BY <1>5, <1>6, <1>7, <1>8, <1>9 DEF Dated

\* What every step of Codex in s keeps.
Kept(s) ==
  /\ Advances(s)
  /\ SessionInv(s)'
  /\ codex[s].phase = "open" /\ codex'[s].phase = "open" =>
       codex'[s].turn = codex[s].turn /\ Events(s)' = Events(s)
  /\ ~Busy(codex, s) /\ ~Busy(codex', s) =>
       /\ rollout'[s] = rollout[s]
       /\ "session_start" \notin setting.installed => Known(s)' = Known(s)
  /\ Ordinary(setting) /\ Accounted(s) => Accounted(s)'

LEMMA AnswerKeeps ==
  ASSUME TypeOK, NEW s \in Sessions, SessionInv(s), Answer(s)
  PROVE  Kept(s)
<1> DEFINE turn == [codex[s] EXCEPT !.asking = NoTool]
<1>1. turn \in CodexTurn /\ turn.phase = codex[s].phase /\ turn.turn = codex[s].turn
  BY DEF TypeOK, CodexTurn
<1>2. codex' = [codex EXCEPT ![s] = turn]
  BY DEF Answer, TypeOK
<1> HIDE DEF turn
<1>3. Advances(s) /\ codex'[s] = turn
  BY <1>1, <1>2, Advance DEF Answer, TypeOK, hooks
<1>4. Known(s)' = Known(s) /\ Events(s)' = Events(s)
  BY DEF Answer, hooks, Known, Events
<1>5. Spares(s)
  <2>1. now \in Nat /\ turns \in Nat /\ goals \in Nat
    BY DEF TypeOK
  <2>2. turns' + goals' >= turns + goals /\ now' >= now
    BY <2>1 DEF Answer
  <2>3. QED
    BY <1>1, <1>3, <1>4, <2>2 DEF Spares, Answer, Advances, hooks
<1>6. QED
  BY <1>1, <1>3, <1>4, <1>5, SparedIsKept, SparedIsAccounted
  DEF Kept, Advances, Answer, Busy

LEMMA OpenSessionKeeps ==
  ASSUME TypeOK, NEW s \in Sessions, SessionInv(s), OpenSession(s)
  PROVE  Kept(s)
<1> DEFINE new == NewEvent(s, "session_start", NoTool, codex'[s].turn)
<1>1. /\ now' = now + 1 /\ turns' = turns /\ goals' = goals /\ rollout' = rollout
      /\ codex' = codex /\ log' = log /\ held' = held \union {s} /\ proc' = proc
      /\ proc # NoRoot /\ s \notin held /\ hook[s] = NoEvent
  BY DEF OpenSession, CanMove, Free, Tick
<1>2. codex[s] \in CodexTurn /\ codex' = [codex EXCEPT ![s] = codex[s]]
  BY <1>1 DEF TypeOK
<1>3. codex'[s].turn \in Nat /\ "session_start" \in EventNames
  BY <1>1, <1>2 DEF CodexTurn, EventNames
<1>4. /\ hook' \in [Sessions -> HookEvent \union {NoEvent}]
      /\ \A r \in Sessions \ {s} : hook'[r] = hook[r]
      /\ hook'[s] # NoEvent => hook'[s].session = s
      /\ "session_start" \in setting.installed => Known(s)' = Known(s) \union {new}
      /\ "session_start" \notin setting.installed => Known(s)' = Known(s) /\ hook' = hook
  BY <1>1, <1>3, EmitFacts DEF OpenSession, Emit
<1>5. Advances(s)
  BY <1>1, <1>2, <1>4, Advance DEF OpenSession, TypeOK
<1>6. ~Busy(codex, s)
  BY <1>1 DEF SessionInv, Attached
<1>7. now \in Nat /\ turns + goals \in Nat /\ turns' + goals' = turns + goals
  <2>1. now \in Nat /\ turns \in Nat /\ goals \in Nat
    BY DEF TypeOK
  <2>2. QED
    BY <1>1, <2>1
<1>8. SessionInv(s)'
  <2>1. Dated(s)'
    <3>1. new.at = now + 1 /\ new.turn = codex'[s].turn /\ new.event = "session_start"
      BY DEF NewEvent
    <3>2. Known(s)' \subseteq Known(s) \union {new}
      BY <1>4
    <3>3. new \in Known(s)' \ Known(s) => new.event \in setting.installed
      BY <1>4, <3>1
    <3> HIDE DEF new
    <3>4. codex'[s].turn <= turns' + goals'
      BY <1>1, <1>7 DEF SessionInv, Dated
    <3>5. QED
      BY <1>1, <1>4, <1>5, <1>7, <3>1, <3>2, <3>3, <3>4, DatedGrows
      DEF SessionInv, Advances
  <2>2. Attached(s)'
    BY <1>1, <1>6 DEF Attached, Busy
  <2>3. NewTurnIsPrompted(s)' /\ OpenTurnIsRecorded(s)'
    BY <1>1, <1>6 DEF NewTurnIsPrompted, OpenTurnIsRecorded, Busy
  <2>4. QED
    BY <2>1, <2>2, <2>3 DEF SessionInv
<1>9. ASSUME "session_start" \notin setting.installed PROVE Spares(s)
  BY <1>1, <1>4, <1>5, <1>7, <1>9 DEF Spares, Advances
<1>10. QED
  BY <1>1, <1>4, <1>5, <1>6, <1>8, <1>9, SparedIsAccounted DEF Kept, Ordinary, Busy

LEMMA FreshTurn ==
  ASSUME NEW n \in Nat, NEW phase \in Phases
  PROVE  LET fresh == [Idle EXCEPT !.turn = n, !.phase = phase] IN
         fresh \in CodexTurn /\ fresh.turn = n /\ fresh.phase = phase
<1>1. Idle \in CodexTurn
  BY DEF Idle, CodexTurn, Phases, None
<1>2. QED
  BY <1>1 DEF CodexTurn

LEMMA SubmitKeeps ==
  ASSUME TypeOK, NEW s \in Sessions, SessionInv(s), Submit(s),
         proc.startedAt \in 1 .. now
  PROVE  Kept(s)
<1> DEFINE new == NewEvent(s, "user_prompt_submit", NoTool, codex'[s].turn)
           turn == [Idle EXCEPT !.turn = turns + goals + 1, !.phase = "new"]
<1>1. /\ now' = now + 1 /\ turns' = turns + 1 /\ goals' = goals /\ rollout' = rollout
      /\ codex' = [codex EXCEPT ![s] = turn] /\ log' = log /\ held' = held /\ proc' = proc
      /\ proc # NoRoot /\ s \in held /\ hook[s] = NoEvent /\ ~Busy(codex, s)
  BY DEF Submit, CanMove, Free, Tick
<1>2. now \in Nat /\ turns + goals \in Nat /\ turns' + goals' = turns + goals + 1
  <2>1. now \in Nat /\ turns \in Nat /\ goals \in Nat
    BY DEF TypeOK
  <2>2. QED
    BY <1>1, <2>1
<1>3. turn \in CodexTurn /\ turn.turn = turns + goals + 1 /\ turn.phase = "new"
  <2>1. turns + goals + 1 \in Nat /\ "new" \in Phases
    BY <1>2 DEF Phases
  <2>2. QED
    BY <2>1, FreshTurn
<1> HIDE DEF turn
<1>4. codex'[s] = turn
  BY <1>1 DEF TypeOK
<1>5. codex'[s].turn \in Nat /\ "user_prompt_submit" \in EventNames
  BY <1>2, <1>3, <1>4 DEF EventNames
<1>6. /\ hook' \in [Sessions -> HookEvent \union {NoEvent}]
      /\ \A r \in Sessions \ {s} : hook'[r] = hook[r]
      /\ hook'[s] # NoEvent => hook'[s].session = s
      /\ "user_prompt_submit" \in setting.installed => Known(s)' = Known(s) \union {new}
      /\ "user_prompt_submit" \notin setting.installed => Known(s)' = Known(s)
  BY <1>1, <1>5, EmitFacts DEF Submit
<1>7. Advances(s)
  BY <1>1, <1>3, <1>6, Advance DEF Submit, TypeOK
<1>8. /\ new.at = now + 1 /\ new.turn = turns + goals + 1 /\ new.pid = proc.pid
      /\ new.event = "user_prompt_submit"
  BY <1>3, <1>4 DEF NewEvent
<1> HIDE DEF new
<1>9. Known(s)' \subseteq Known(s) \union {new}
  BY <1>6
<1>10. \A e \in Known(s) : e.at \in 1 .. now /\ e.turn \in Nat /\ e.turn <= turns + goals
  BY DEF SessionInv, Dated, Known, TypeOK, HookEvent
<1>11. \A r \in rollout[s] : r.turn \in Nat /\ r.turn <= turns + goals
  BY DEF SessionInv, Dated, TypeOK, RolloutRecord
<1>12. SessionInv(s)'
  <2>1. Dated(s)'
    <3>1. new \in Known(s)' \ Known(s) =>
            new.at = now + 1 /\ new.turn = codex'[s].turn /\ new.event \in setting.installed
      BY <1>3, <1>4, <1>6, <1>8
    <3>2. codex'[s].turn <= turns' + goals'
      BY <1>2, <1>3, <1>4
    <3>3. QED
      BY <1>1, <1>2, <1>6, <1>7, <1>9, <3>1, <3>2, DatedGrows DEF SessionInv, Advances
  <2>2. Attached(s)'
    BY <1>1, <1>2, <1>3, <1>4 DEF Attached, Busy, None
  <2>3. NewTurnIsPrompted(s)'
    <3>1. codex'[s].turn = turns + goals + 1 /\ codex'[s].turn # None
      BY <1>2, <1>3, <1>4 DEF None
    <3>2. \A r \in rollout'[s] : r.turn # codex'[s].turn
      BY <1>1, <1>2, <1>11, <3>1
    <3>3. ASSUME NEW e \in Known(s)', e.turn = codex'[s].turn
          PROVE  /\ e.event = "user_prompt_submit"
                 /\ \A f \in Known(s)' : f.at <= e.at
      <4>1. e = new
        BY <1>2, <1>9, <1>10, <3>1, <3>3
      <4>2. \A f \in Known(s)' : f.at <= new.at
        BY <1>2, <1>8, <1>9, <1>10
      <4>3. QED
        BY <1>8, <4>1, <4>2
    <3>4. QED
      BY <3>1, <3>2, <3>3 DEF NewTurnIsPrompted
  <2>4. OpenTurnIsRecorded(s)'
    BY <1>3, <1>4 DEF OpenTurnIsRecorded
  <2>5. QED
    BY <2>1, <2>2, <2>3, <2>4 DEF SessionInv
<1>13. ASSUME Ordinary(setting), Accounted(s) PROVE Accounted(s)'
  <2>1. /\ Announced(s, proc) /\ \A e \in Mine(s, proc) : Ended(s, e)
        /\ setting' = setting
    BY <1>1, <1>7, <1>13 DEF Accounted, Told, Advances
  <2>2. Mine(s, proc)' \subseteq Mine(s, proc) \union {new}
    BY <1>1, <1>9 DEF Mine
  <2>3. Mine(s, proc) \subseteq Mine(s, proc)'
    BY <1>1, <1>6 DEF Mine
  <2>4. \A e : Ended(s, e) => Ended(s, e)'
    BY <1>1, <2>1 DEF Ended, TurnEnded, Events
  <2>5. \A e \in Mine(s, proc)' : e.turn = codex'[s].turn \/ Ended(s, e)'
    BY <1>3, <1>4, <1>8, <2>1, <2>2, <2>4
  <2>6. Announced(s, proc)'
    <3>1. setting.reuse => \A e \in Mine(s, proc)' : e.event = "stop" =>
                             \E f \in Mine(s, proc)' \intersect log' : f.at < e.at
      BY <1>1, <1>8, <2>1, <2>2, <2>3 DEF Announced
    <3>2. ~setting.reuse => \A e \in Known(s)' : e.pid = proc'.pid => e.at >= proc'.startedAt
      BY <1>1, <1>2, <1>8, <1>9, <2>1 DEF Announced
    <3>3. QED
      BY <2>1, <3>1, <3>2 DEF Announced
  <2>7. setting.reuse => Mine(s, proc)' # {}
    <3>1. setting.reuse => new \in Known(s)'
      BY <1>6, <1>13 DEF Ordinary
    <3>2. QED
      BY <1>1, <1>2, <1>8, <3>1 DEF Mine
  <2>8. Busy(codex, s)' /\ codex'[s].phase = "new"
    BY <1>3, <1>4 DEF Busy
  <2>9. QED
    BY <2>1, <2>5, <2>6, <2>7, <2>8 DEF Accounted
<1>14. QED
  BY <1>1, <1>3, <1>4, <1>7, <1>12, <1>13 DEF Kept, Busy

LEMMA StartGoalKeeps ==
  ASSUME TypeOK, NEW s \in Sessions, SessionInv(s), StartGoal(s),
         proc.startedAt \in 1 .. now
  PROVE  Kept(s)
<1> DEFINE line == NewRecord("started", codex'[s].turn)
           turn == [Idle EXCEPT !.turn = turns + goals + 1, !.phase = "open"]
<1>1. /\ now' = now + 1 /\ goals' = goals + 1 /\ turns' = turns /\ hook' = hook
      /\ codex' = [codex EXCEPT ![s] = turn] /\ log' = log /\ held' = held /\ proc' = proc
      /\ proc # NoRoot /\ s \in held /\ hook[s] = NoEvent /\ ~Busy(codex, s)
  BY DEF StartGoal, CanMove, Free, Tick, hooks
<1>2. now \in Nat /\ turns + goals \in Nat /\ turns' + goals' = turns + goals + 1
  <2>1. now \in Nat /\ turns \in Nat /\ goals \in Nat
    BY DEF TypeOK
  <2>2. QED
    BY <1>1, <2>1
<1>3. turn \in CodexTurn /\ turn.turn = turns + goals + 1 /\ turn.phase = "open"
  <2>1. turns + goals + 1 \in Nat /\ "open" \in Phases
    BY <1>2 DEF Phases
  <2>2. QED
    BY <2>1, FreshTurn
<1> HIDE DEF turn
<1>4. codex'[s] = turn
  BY <1>1 DEF TypeOK
<1>5. codex'[s].turn \in Nat /\ codex'[s].turn # None
  BY <1>2, <1>3, <1>4 DEF None
<1>6. /\ rollout' \in [Sessions -> SUBSET RolloutRecord]
      /\ rollout'[s] = rollout[s] \union {line}
      /\ \A r \in Sessions \ {s} : rollout'[r] = rollout[r]
      /\ Events(s)' = Events(s) \union {line}
      /\ LastOf(Events(s))' = line
      /\ line # NoEvent
  BY <1>5, RecordFacts DEF StartGoal, SessionInv
<1>7. Advances(s)
  BY <1>1, <1>3, <1>6, Advance DEF StartGoal, TypeOK, hooks
<1>8. line.at = now + 1 /\ line.type = "started"
      /\ (setting.withIds => line.turn = codex'[s].turn)
      /\ (~setting.withIds => line.turn = None)
  BY DEF NewRecord
<1> HIDE DEF line
<1>9. Known(s)' = Known(s)
  BY <1>1 DEF Known
<1>10. \A e \in Known(s) : e.at \in 1 .. now /\ e.turn \in Nat /\ e.turn <= turns + goals
  BY DEF SessionInv, Dated, Known, TypeOK, HookEvent
<1>11. SessionInv(s)'
  <2>1. Dated(s)'
    <3>1. line.turn <= turns' + goals' /\ codex'[s].turn <= turns' + goals'
      BY <1>2, <1>3, <1>4, <1>8 DEF None
    <3>2. hook'[s] # NoEvent => hook'[s].session = s
      BY <1>1
    <3>3. QED
      BY <1>1, <1>2, <1>5, <1>6, <1>7, <1>8, <1>9, <3>1, <3>2, DatedGrows
      DEF SessionInv, Advances
  <2>2. Attached(s)'
    BY <1>1, <1>5 DEF Attached, Busy
  <2>3. NewTurnIsPrompted(s)'
    BY <1>3, <1>4 DEF NewTurnIsPrompted
  <2>4. OpenTurnIsRecorded(s)'
    <3> PICK l : l = line
      OBVIOUS
    <3>1. BegunBy(s, l)'
      <4>1. l.at >= proc'.startedAt
        BY <1>1, <1>2, <1>8
      <4>2. \A f \in Known(s)' : f.at < l.at /\ ~(f.at >= l.at)
        BY <1>2, <1>8, <1>9, <1>10
      <4>3. \A f \in Known(s)' : f.turn # codex'[s].turn
        BY <1>2, <1>3, <1>4, <1>9, <1>10
      <4>4. QED
        BY <1>5, <4>1, <4>2, <4>3 DEF BegunBy
    <3>2. Active(l)
      BY <1>6, <1>8 DEF Active
    <3>3. setting' = setting
      BY <1>7 DEF Advances
    <3>4. LastOf(Events(s))' = l /\ (setting'.withIds => l.turn = codex'[s].turn)
      BY <1>6, <1>8, <3>3
    <3>5. QED
      BY <3>1, <3>2, <3>4 DEF OpenTurnIsRecorded
  <2>5. QED
    BY <2>1, <2>2, <2>3, <2>4 DEF SessionInv
<1>12. ASSUME Ordinary(setting), Accounted(s) PROVE Accounted(s)'
  <2>1. ~setting.reuse
    BY <1>12, SettingFacts DEF StartGoal, Ordinary, TypeOK
  <2>2. /\ Announced(s, proc) /\ \A e \in Mine(s, proc) : Ended(s, e)
        /\ setting' = setting /\ Mine(s, proc)' = Mine(s, proc)
    BY <1>1, <1>7, <1>9, <1>12 DEF Accounted, Told, Advances, Mine
  <2>3. Announced(s, proc)'
    BY <1>1, <1>9, <2>1, <2>2 DEF Announced
  <2>4. \A e \in Mine(s, proc)' : e.turn = codex'[s].turn \/ Ended(s, e)'
    <3>1. ASSUME NEW e \in Mine(s, proc), setting.withIds, TurnEnded(s, e.turn)
          PROVE  TurnEnded(s, e.turn)'
      <4>1. line.turn # e.turn
        BY <1>2, <1>3, <1>4, <1>8, <1>10, <3>1 DEF Mine
      <4>2. QED
        BY <1>6, <3>1, <4>1 DEF TurnEnded
    <3>2. QED
      BY <2>2, <3>1 DEF Ended
  <2>5. Busy(codex, s)'
    BY <1>3, <1>4 DEF Busy
  <2>6. QED
    BY <2>1, <2>2, <2>3, <2>4, <2>5 DEF Accounted
<1>13. QED
  BY <1>1, <1>3, <1>4, <1>7, <1>11, <1>12 DEF Kept, Busy

LEMMA ResumeTurnKeeps ==
  ASSUME TypeOK, NEW s \in Sessions, SessionInv(s), ResumeTurn(s),
         proc.startedAt \in 1 .. now
  PROVE  Kept(s)
<1> DEFINE last == LastOf(Events(s))
           turn == [Idle EXCEPT !.turn = last.turn, !.phase = "open"]
<1>1. /\ now' = now + 1 /\ goals' = goals /\ turns' = turns /\ hook' = hook
      /\ codex' = [codex EXCEPT ![s] = turn] /\ log' = log /\ held' = held \union {s}
      /\ proc' = proc /\ rollout' = rollout /\ Active(last)
      /\ proc # NoRoot /\ s \notin held /\ hook[s] = NoEvent /\ setting.tmux
  BY DEF ResumeTurn, CanMove, Free, Tick, hooks
<1>2. now \in Nat /\ turns + goals \in Nat /\ turns' + goals' = turns + goals
  <2>1. now \in Nat /\ turns \in Nat /\ goals \in Nat
    BY DEF TypeOK
  <2>2. QED
    BY <1>1, <2>1
<1>3. last \in rollout[s] /\ last.turn \in Nat
  <2>1. last \in Events(s)
    BY <1>1, EventFacts DEF SessionInv, Active
  <2>2. QED
    BY <2>1 DEF Events, TypeOK, RolloutRecord
<1> HIDE DEF last
<1>4. turn \in CodexTurn /\ turn.turn = last.turn /\ turn.phase = "open"
  <2>1. "open" \in Phases
    BY DEF Phases
  <2>2. QED
    BY <1>3, <2>1, FreshTurn
<1> HIDE DEF turn
<1>5. codex'[s] = turn
  BY <1>1 DEF TypeOK
<1>6. Advances(s)
  BY <1>1, <1>4, Advance DEF ResumeTurn, TypeOK, hooks
<1>7. Known(s)' = Known(s) /\ Events(s)' = Events(s) /\ Mine(s, proc)' = Mine(s, proc)
  BY <1>1 DEF Known, Events, Mine
<1>8. Mine(s, proc) = {} /\ ~Busy(codex, s) /\ last.at < proc.startedAt
  BY <1>1, <1>3 DEF SessionInv, Attached
<1>9. SessionInv(s)'
  <2>1. Dated(s)'
    <3>1. codex'[s].turn <= turns' + goals'
      BY <1>2, <1>3, <1>4, <1>5 DEF SessionInv, Dated
    <3>2. hook'[s] # NoEvent => hook'[s].session = s
      BY <1>1
    <3>3. QED
      BY <1>1, <1>2, <1>6, <1>7, <3>1, <3>2, DatedGrows DEF SessionInv, Advances
  <2>2. Attached(s)'
    BY <1>1, <1>3, <1>4, <1>5, <1>6 DEF Attached, Advances, SessionInv, Dated
  <2>3. NewTurnIsPrompted(s)'
    BY <1>4, <1>5 DEF NewTurnIsPrompted
  <2>4. OpenTurnIsRecorded(s)'
    <3>1. ResumedFrom(s, last)'
      BY <1>1, <1>6, <1>7, <1>8 DEF ResumedFrom, Advances, last
    <3>2. LastOf(Events(s))' = last
      BY <1>7 DEF last
    <3>3. Active(last) /\ last.turn = codex'[s].turn
      BY <1>1, <1>4, <1>5
    <3>4. QED
      BY <1>7, <3>1, <3>2, <3>3 DEF OpenTurnIsRecorded, last
  <2>5. QED
    BY <2>1, <2>2, <2>3, <2>4 DEF SessionInv
<1>10. ASSUME Ordinary(setting), Accounted(s) PROVE Accounted(s)'
  <2>1. ~setting.reuse /\ setting' = setting
    BY <1>1, <1>6, <1>10 DEF Ordinary, Advances
  <2>2. Announced(s, proc)'
    BY <1>1, <1>7, <1>10, <2>1 DEF Announced, Accounted
  <2>3. Busy(codex, s)'
    BY <1>4, <1>5 DEF Busy
  <2>4. QED
    BY <1>7, <1>8, <2>1, <2>2, <2>3 DEF Accounted
<1>11. QED
  BY <1>4, <1>5, <1>6, <1>8, <1>9, <1>10 DEF Kept, Busy

LEMMA TaskStartedKeeps ==
  ASSUME TypeOK, NEW s \in Sessions, SessionInv(s), TaskStarted(s),
         proc.startedAt \in 1 .. now
  PROVE  Kept(s)
<1> DEFINE line == NewRecord("started", codex[s].turn)
           turn == [codex[s] EXCEPT !.phase = "open"]
<1>1. /\ now' = now + 1 /\ goals' = goals /\ turns' = turns /\ hook' = hook
      /\ log' = log /\ held' = held /\ proc' = proc
      /\ proc # NoRoot /\ hook[s] = NoEvent /\ codex[s].phase = "new"
  BY DEF TaskStarted, CanMove, Free, Tick, hooks
<1>2. now \in Nat /\ turns + goals \in Nat /\ turns' + goals' = turns + goals
  <2>1. now \in Nat /\ turns \in Nat /\ goals \in Nat
    BY DEF TypeOK
  <2>2. QED
    BY <1>1, <2>1
<1>3. turn \in CodexTurn /\ turn.turn = codex[s].turn /\ turn.phase = "open"
  BY DEF TypeOK, CodexTurn, Phases
<1>4. codex' = [codex EXCEPT ![s] = turn]
  BY DEF TaskStarted, TypeOK
<1> HIDE DEF turn
<1>5. /\ codex'[s] = turn /\ codex'[s].turn = codex[s].turn
      /\ codex[s].turn \in Nat /\ codex[s].turn # None /\ codex[s].turn <= turns + goals
  BY <1>1, <1>3, <1>4 DEF TypeOK, CodexTurn, SessionInv, NewTurnIsPrompted, Dated
<1>6. /\ rollout' \in [Sessions -> SUBSET RolloutRecord]
      /\ rollout'[s] = rollout[s] \union {line}
      /\ \A r \in Sessions \ {s} : rollout'[r] = rollout[r]
      /\ Events(s)' = Events(s) \union {line}
      /\ LastOf(Events(s))' = line
      /\ line # NoEvent
  BY <1>5, RecordFacts DEF TaskStarted, SessionInv
<1>7. Advances(s)
  BY <1>1, <1>3, <1>4, <1>6, Advance DEF TaskStarted, TypeOK, hooks
<1>8. line.at = now + 1 /\ line.type = "started"
      /\ (setting.withIds => line.turn = codex[s].turn)
      /\ (~setting.withIds => line.turn = None)
  BY DEF NewRecord
<1> HIDE DEF line
<1>9. Known(s)' = Known(s)
  BY <1>1 DEF Known
<1>10. \A e \in Known(s) : e.at \in 1 .. now /\ e.turn \in Nat /\ e.turn <= turns + goals
  BY DEF SessionInv, Dated, Known, TypeOK, HookEvent
<1>11. SessionInv(s)'
  <2>1. Dated(s)'
    <3>1. line.turn <= turns' + goals' /\ codex'[s].turn <= turns' + goals'
      BY <1>2, <1>5, <1>8 DEF None
    <3>2. hook'[s] # NoEvent => hook'[s].session = s
      BY <1>1
    <3>3. QED
      BY <1>1, <1>2, <1>5, <1>6, <1>7, <1>8, <1>9, <3>1, <3>2, DatedGrows
      DEF SessionInv, Advances
  <2>2. Attached(s)'
    BY <1>1, <1>5 DEF Attached, Busy, SessionInv
  <2>3. NewTurnIsPrompted(s)'
    BY <1>3, <1>5 DEF NewTurnIsPrompted
  <2>4. OpenTurnIsRecorded(s)'
    <3> PICK l : l = line
      OBVIOUS
    <3>1. BegunBy(s, l)'
      <4>1. l.at >= proc'.startedAt
        BY <1>1, <1>2, <1>8
      <4>2. \A f \in Known(s)' : f.at < l.at /\ ~(f.at >= l.at)
        BY <1>2, <1>8, <1>9, <1>10
      <4>3. \A f \in Known(s)' : f.turn = codex'[s].turn =>
              /\ f.event = "user_prompt_submit"
              /\ \A g \in Known(s)' : g.at <= f.at
        BY <1>1, <1>5, <1>9 DEF SessionInv, NewTurnIsPrompted
      <4>4. QED
        BY <1>5, <4>1, <4>2, <4>3 DEF BegunBy
    <3>2. Active(l)
      BY <1>6, <1>8 DEF Active
    <3>3. setting' = setting
      BY <1>7 DEF Advances
    <3>4. LastOf(Events(s))' = l /\ (setting'.withIds => l.turn = codex'[s].turn)
      BY <1>5, <1>6, <1>8, <3>3
    <3>5. QED
      BY <3>1, <3>2, <3>4 DEF OpenTurnIsRecorded
  <2>5. QED
    BY <2>1, <2>2, <2>3, <2>4 DEF SessionInv
<1>12. ASSUME Ordinary(setting), Accounted(s) PROVE Accounted(s)'
  <2>1. /\ setting' = setting /\ Mine(s, proc)' = Mine(s, proc) /\ Mine(s, proc) \subseteq log
        /\ Busy(codex, s)
    BY <1>1, <1>7, <1>9 DEF Advances, Mine, Known, Busy
  <2>2. Announced(s, proc)'
    BY <1>1, <1>9, <1>12, <2>1 DEF Announced, Accounted
  <2>3. \A e \in Mine(s, proc)' : e.turn = codex'[s].turn \/ Ended(s, e)'
    <3>1. ASSUME NEW e \in Mine(s, proc), setting.withIds, TurnEnded(s, e.turn),
                 e.turn # codex[s].turn
          PROVE  TurnEnded(s, e.turn)'
      BY <1>6, <1>8, <3>1 DEF TurnEnded
    <3>2. QED
      BY <1>1, <1>5, <1>12, <2>1, <3>1 DEF Ended, Accounted
  <2>4. setting.reuse => Mine(s, proc)' \intersect log' # {}
    BY <1>1, <1>12, <2>1 DEF Accounted
  <2>5. Busy(codex, s)' /\ codex'[s].phase = "open"
    BY <1>3, <1>5 DEF Busy
  <2>6. QED
    BY <2>1, <2>2, <2>3, <2>4, <2>5 DEF Accounted
<1>13. QED
  BY <1>1, <1>3, <1>5, <1>7, <1>11, <1>12 DEF Kept, Busy

\* An event of the open turn, while the turn goes on or as it stops.
LEMMA EventOfTurnKeeps ==
  ASSUME TypeOK, NEW s \in Sessions, SessionInv(s), CanMove(s), Moves,
         UNCHANGED <<proc, log, lost, monitor, turns, goals, held>>,
         proc.startedAt \in 1 .. now,
         codex[s].phase = "open",
         NEW turn \in CodexTurn, codex' = [codex EXCEPT ![s] = turn],
         turn.turn = codex[s].turn,
         NEW event \in WithinTurn \union {"stop"}, NEW tool \in Tools \union {NoTool},
         Emit(s, event, tool),
         turn.phase = IF event = "stop" THEN "stopping" ELSE "open",
         rollout' = rollout \/ Record(s, "other", codex[s].turn)
  PROVE  Kept(s)
<1> DEFINE new == NewEvent(s, event, tool, codex'[s].turn)
           line == NewRecord("other", codex[s].turn)
<1>1. /\ now' = now + 1 /\ goals' = goals /\ turns' = turns
      /\ log' = log /\ held' = held /\ proc' = proc
      /\ proc # NoRoot /\ hook[s] = NoEvent
  BY DEF CanMove, Free, Tick
<1>2. now \in Nat /\ turns + goals \in Nat /\ turns' + goals' = turns + goals
  <2>1. now \in Nat /\ turns \in Nat /\ goals \in Nat
    BY DEF TypeOK
  <2>2. QED
    BY <1>1, <2>1
<1>3. /\ codex'[s] = turn /\ codex'[s].turn = codex[s].turn
      /\ codex[s].turn \in Nat /\ codex[s].turn <= turns + goals
      /\ setting.withIds => codex[s].turn # None
  BY DEF TypeOK, CodexTurn, SessionInv, Dated, Attached, Busy
<1>4. event \in EventNames
  BY DEF EventNames, WithinTurn
<1>5. /\ hook' \in [Sessions -> HookEvent \union {NoEvent}]
      /\ \A r \in Sessions \ {s} : hook'[r] = hook[r]
      /\ hook'[s] # NoEvent => hook'[s].session = s
      /\ Known(s) \subseteq log
      /\ event \in setting.installed => Known(s)' = Known(s) \union {new}
      /\ event \notin setting.installed => Known(s)' = Known(s)
  BY <1>1, <1>3, <1>4, EmitFacts
<1>6. /\ rollout' \in [Sessions -> SUBSET RolloutRecord]
      /\ rollout'[s] \subseteq rollout[s] \union {line}
      /\ \A r \in Sessions \ {s} : rollout'[r] = rollout[r]
      /\ Events(s)' = Events(s)
  <2>1. CASE rollout' = rollout
    BY <2>1 DEF TypeOK, Events
  <2>2. CASE Record(s, "other", codex[s].turn)
    BY <1>3, <2>2, RecordFacts DEF SessionInv
  <2>3. QED
    BY <2>1, <2>2
<1>7. Advances(s)
  BY <1>1, <1>5, <1>6, Advance DEF TypeOK
<1>8. /\ new.at = now + 1 /\ new.turn = codex[s].turn /\ new.pid = proc.pid
      /\ new.event = event
  BY <1>3 DEF NewEvent
<1>9. line.at = now + 1
      /\ (setting.withIds => line.turn = codex[s].turn)
      /\ (~setting.withIds => line.turn = None)
  BY DEF NewRecord
<1> HIDE DEF new, line
<1>10. Known(s)' \subseteq Known(s) \union {new}
  BY <1>5
<1>11. \A e \in Known(s) : e.at \in 1 .. now /\ e.turn \in Nat /\ e.turn <= turns + goals
  BY DEF SessionInv, Dated, Known, TypeOK, HookEvent
<1>12. setting' = setting
  BY <1>7 DEF Advances
<1>13. Mine(s, proc)' \subseteq Mine(s, proc) \union {new}
  BY <1>1, <1>10 DEF Mine
<1>14. SessionInv(s)'
  <2>1. Dated(s)'
    <3>1. line.turn <= turns' + goals' /\ codex'[s].turn <= turns' + goals'
      BY <1>2, <1>3, <1>9 DEF None
    <3>2. new \in Known(s)' \ Known(s) =>
            new.at = now + 1 /\ new.turn = codex'[s].turn /\ new.event \in setting.installed
      BY <1>3, <1>5, <1>8
    <3>3. QED
      BY <1>1, <1>2, <1>3, <1>5, <1>6, <1>7, <1>9, <1>10, <3>1, <3>2, DatedGrows
      DEF SessionInv, Advances
  <2>2. Attached(s)'
    <3>1. Busy(codex, s) /\ s \in held
      BY DEF Busy, SessionInv, Attached
    <3>2. QED
      BY <1>1, <1>3, <1>12, <3>1 DEF Attached
  <2>3. NewTurnIsPrompted(s)'
    BY <1>3 DEF NewTurnIsPrompted
  <2>4. OpenTurnIsRecorded(s)'
    <3> SUFFICES ASSUME event \in WithinTurn PROVE OpenTurnIsRecorded(s)'
      BY <1>3 DEF OpenTurnIsRecorded, WithinTurn
    <3> PICK e : e = LastOf(Events(s))
      OBVIOUS
    <3>1. /\ Active(e)
          /\ setting.withIds => e.turn = codex[s].turn
          /\ BegunBy(s, e) \/ ResumedFrom(s, e)
      BY DEF SessionInv, OpenTurnIsRecorded
    <3>2. e.at \in Nat /\ e.at <= now
      <4>1. Dated(s) /\ LastOf(Events(s)) # NoEvent
        BY <3>1 DEF SessionInv, Active
      <4>2. LastOf(Events(s)) \in Events(s)
        BY <4>1, EventFacts
      <4>3. QED
        BY <1>2, <4>1, <4>2, EventFacts
    <3>3. ASSUME BegunBy(s, e) PROVE BegunBy(s, e)'
      <4>1. ~(new.at < e.at)
        BY <1>2, <1>8, <3>2
      <4>2. \A f \in Known(s)' : f.at < e.at => f \in Known(s)
        BY <1>10, <4>1
      <4>3. \A f \in Known(s)' : f.at >= e.at =>
              f.event \in WithinTurn /\ f.turn = codex'[s].turn
        BY <1>3, <1>8, <1>10, <3>3 DEF BegunBy
      <4>4. \A f \in Known(s)' : f.at < e.at /\ f.turn = codex'[s].turn =>
              /\ f.event = "user_prompt_submit"
              /\ \A g \in Known(s)' : g.at < e.at => g.at <= f.at
        BY <1>3, <3>3, <4>2 DEF BegunBy
      <4>5. QED
        BY <1>1, <1>3, <3>3, <4>3, <4>4 DEF BegunBy
    <3>4. ASSUME ResumedFrom(s, e) PROVE ResumedFrom(s, e)'
      BY <1>1, <1>3, <1>8, <1>12, <1>13, <3>4 DEF ResumedFrom
    <3>5. LastOf(Events(s))' = e
      BY <1>6
    <3>6. setting'.withIds => e.turn = codex'[s].turn
      BY <1>3, <1>12, <3>1
    <3>7. BegunBy(s, e)' \/ ResumedFrom(s, e)'
      BY <3>1, <3>3, <3>4
    <3>8. QED
      BY <3>1, <3>5, <3>6, <3>7 DEF OpenTurnIsRecorded
  <2>5. QED
    BY <2>1, <2>2, <2>3, <2>4 DEF SessionInv
<1>15. ASSUME Ordinary(setting), Accounted(s) PROVE Accounted(s)'
  <2>1. /\ Mine(s, proc) \subseteq Mine(s, proc)' /\ Mine(s, proc) \subseteq log
        /\ Busy(codex, s)
    BY <1>1, <1>5 DEF Mine, Busy
  <2>2. Announced(s, proc) /\ (setting.reuse => Mine(s, proc) # {})
    BY <1>1, <1>15, <2>1 DEF Accounted
  <2>3. Announced(s, proc)'
    <3>1. ASSUME setting.reuse, NEW e \in Mine(s, proc)', e.event = "stop"
          PROVE  \E f \in Mine(s, proc)' \intersect log' : f.at < e.at
      <4>1. CASE e \in Mine(s, proc)
        BY <1>1, <2>1, <2>2, <3>1, <4>1 DEF Announced
      <4>2. CASE e = new
        <5>1. \A f \in Mine(s, proc) : f.at < e.at
          BY <1>2, <1>8, <1>11, <4>2 DEF Mine
        <5>2. QED
          BY <1>1, <2>1, <2>2, <3>1, <5>1
      <4>3. QED
        BY <1>13, <3>1, <4>1, <4>2
    <3>2. ~setting.reuse => \A e \in Known(s)' : e.pid = proc'.pid => e.at >= proc'.startedAt
      BY <1>1, <1>2, <1>8, <1>10, <2>2 DEF Announced
    <3>3. QED
      BY <1>12, <3>1, <3>2 DEF Announced
  <2>4. \A e : Ended(s, e) => Ended(s, e)'
    BY <1>6, <1>12 DEF Ended, TurnEnded
  <2>5. \A e \in Mine(s, proc)' : e.turn = codex'[s].turn \/ Ended(s, e)'
    BY <1>1, <1>3, <1>8, <1>13, <1>15, <2>1, <2>4 DEF Accounted
  <2>6. setting.reuse => Mine(s, proc)' \intersect log' # {}
    BY <1>1, <2>1, <2>2
  <2>7. Busy(codex, s)' /\ codex'[s].phase # "new"
    BY <1>3 DEF Busy
  <2>8. QED
    BY <1>12, <2>3, <2>5, <2>6, <2>7 DEF Accounted
<1>16. QED
  BY <1>3, <1>6, <1>7, <1>14, <1>15 DEF Kept, Busy

\* The record of the end of a turn, completed or aborted.
LEMMA EndOfTurnKeeps ==
  ASSUME TypeOK, NEW s \in Sessions, SessionInv(s), CanMove(s), Moves,
         UNCHANGED <<proc, log, lost, hook, monitor, turns, goals, held>>,
         Busy(codex, s), codex' = [codex EXCEPT ![s] = Idle],
         NEW type \in {"complete", "failed"}, Record(s, type, codex[s].turn)
  PROVE  Kept(s)
<1> DEFINE line == NewRecord(type, codex[s].turn)
<1>1. /\ now' = now + 1 /\ goals' = goals /\ turns' = turns /\ hook' = hook
      /\ log' = log /\ held' = held /\ proc' = proc
      /\ proc # NoRoot /\ hook[s] = NoEvent
  BY DEF CanMove, Free, Tick
<1>2. now \in Nat /\ turns + goals \in Nat /\ turns' + goals' = turns + goals
  <2>1. now \in Nat /\ turns \in Nat /\ goals \in Nat
    BY DEF TypeOK
  <2>2. QED
    BY <1>1, <2>1
<1>3. Idle \in CodexTurn /\ Idle.turn = None /\ Idle.phase = "idle"
  BY DEF Idle, CodexTurn, Phases, None
<1>4. /\ codex'[s] = Idle
      /\ codex[s].turn \in Nat /\ codex[s].turn <= turns + goals
      /\ setting.withIds => codex[s].turn # None
  BY DEF TypeOK, CodexTurn, SessionInv, Dated, Attached
<1>5. /\ rollout' \in [Sessions -> SUBSET RolloutRecord]
      /\ rollout'[s] = rollout[s] \union {line}
      /\ \A r \in Sessions \ {s} : rollout'[r] = rollout[r]
      /\ Events(s)' = Events(s) \union {line}
      /\ LastOf(Events(s))' = line
      /\ line # NoEvent
  BY <1>4, RecordFacts DEF SessionInv
<1>6. Advances(s)
  BY <1>1, <1>3, <1>5, Advance DEF TypeOK
<1>7. line.at = now + 1 /\ Terminal(line) /\ ~Active(line)
      /\ (setting.withIds => line.turn = codex[s].turn)
      /\ (~setting.withIds => line.turn = None)
  BY <1>5 DEF NewRecord, Terminal, Active
<1> HIDE DEF line
<1>8. Known(s)' = Known(s) /\ Mine(s, proc)' = Mine(s, proc)
  BY <1>1 DEF Known, Mine
<1>9. \A e \in Known(s) : e.at \in 1 .. now
  BY DEF SessionInv, Dated
<1>10. setting' = setting
  BY <1>6 DEF Advances
<1>11. SessionInv(s)'
  <2>1. Dated(s)'
    <3>1. line.turn <= turns' + goals' /\ codex'[s].turn <= turns' + goals'
      BY <1>2, <1>3, <1>4, <1>7 DEF None
    <3>2. hook'[s] # NoEvent => hook'[s].session = s
      BY <1>1
    <3>3. QED
      BY <1>1, <1>2, <1>4, <1>5, <1>6, <1>7, <1>8, <3>1, <3>2, DatedGrows
      DEF SessionInv, Advances
  <2>2. Attached(s)'
    BY <1>1, <1>3, <1>4 DEF Attached, Busy, SessionInv
  <2>3. NewTurnIsPrompted(s)' /\ OpenTurnIsRecorded(s)'
    BY <1>3, <1>4 DEF NewTurnIsPrompted, OpenTurnIsRecorded
  <2>4. QED
    BY <2>1, <2>2, <2>3 DEF SessionInv
<1>12. ASSUME Ordinary(setting), Accounted(s) PROVE Accounted(s)'
  <2>1. Announced(s, proc)'
    BY <1>1, <1>8, <1>10, <1>12 DEF Announced, Accounted
  <2>2. \A q \in Events(s)' : q.at <= line.at
    <3>1. \A q \in Events(s) : q.at \in Nat /\ q.at <= now
      BY <1>2, EventFacts DEF SessionInv
    <3>2. QED
      BY <1>2, <1>5, <1>7, <3>1
  <2>3. \A e \in Mine(s, proc)' : Ended(s, e)'
    <3>1. ASSUME NEW e \in Mine(s, proc), setting.withIds
          PROVE  e.turn # None /\ TurnEnded(s, e.turn)'
      <4>1. CASE e.turn = codex[s].turn
        BY <1>4, <1>5, <1>7, <2>2, <3>1, <4>1 DEF TurnEnded
      <4>2. CASE e.turn # codex[s].turn
        <5>1. e.turn # None /\ TurnEnded(s, e.turn)
          BY <1>1, <1>12, <3>1, <4>2 DEF Accounted, Ended
        <5>2. QED
          BY <1>5, <1>7, <3>1, <4>2, <5>1 DEF TurnEnded
      <4>3. QED
        BY <4>1, <4>2
    <3>2. QED
      BY <1>8, <1>10, <3>1 DEF Ended
  <2>4. Told(s, proc)'
    <3>1. \A e \in Known(s)' : e.at < line.at
      BY <1>2, <1>7, <1>8, <1>9
    <3> PICK l : l = line
      OBVIOUS
    <3>2. LastOf(Events(s))' = l /\ Terminal(l) /\ ~Active(l) /\ \A e \in Known(s)' : e.at < l.at
      BY <1>5, <1>7, <3>1
    <3>3. QED
      BY <2>3, <3>2 DEF Told
  <2>5. ~Busy(codex, s)' /\ codex'[s].phase = "idle"
    BY <1>3, <1>4 DEF Busy
  <2>6. QED
    BY <1>1, <2>1, <2>4, <2>5 DEF Accounted
<1>13. QED
  BY <1>3, <1>4, <1>6, <1>11, <1>12 DEF Kept, Busy

LEMMA CodexStepKeeps ==
  ASSUME TypeOK, NEW s \in Sessions, SessionInv(s), CodexStep(s),
         proc # NoRoot => proc.startedAt \in 1 .. now
  PROVE  Kept(s)
<1>1. codex[s] \in CodexTurn /\ setting.tools \subseteq Tools /\ now \in Nat
  BY SettingFacts DEF TypeOK
<1>2. CASE OpenSession(s)
  BY <1>2, OpenSessionKeeps
<1>3. CASE Submit(s)
  BY <1>3, SubmitKeeps DEF Submit, CanMove, Free
<1>4. CASE StartGoal(s)
  BY <1>4, StartGoalKeeps DEF StartGoal, CanMove, Free
<1>5. CASE ResumeTurn(s)
  BY <1>5, ResumeTurnKeeps DEF ResumeTurn, CanMove, Free
<1>6. CASE TaskStarted(s)
  BY <1>6, TaskStartedKeeps DEF TaskStarted, CanMove, Free
<1>7. CASE Answer(s)
  BY <1>7, AnswerKeeps
<1>8. CASE Stop(s)
  <2> DEFINE turn == [codex[s] EXCEPT !.phase = "stopping"]
  <2>1. turn \in CodexTurn /\ turn.turn = codex[s].turn /\ turn.phase = "stopping"
    BY <1>1 DEF CodexTurn, Phases
  <2>2. codex' = [codex EXCEPT ![s] = turn]
    BY <1>8 DEF Stop, TypeOK
  <2> HIDE DEF turn
  <2>3. QED
    BY <1>8, <2>1, <2>2, EventOfTurnKeeps DEF Stop, CanMove, Free
<1>9. CASE Complete(s)
  BY <1>9, EndOfTurnKeeps DEF Complete, Busy, hooks
<1>10. CASE Abort(s)
  BY <1>10, EndOfTurnKeeps DEF Abort, Busy, hooks
<1>11. ASSUME NEW t \in Tools, StartTool(s, t) PROVE Kept(s)
  <2> DEFINE turn == [codex[s] EXCEPT !.tools = @ \union {t}]
  <2>1. turn \in CodexTurn /\ turn.turn = codex[s].turn /\ turn.phase = codex[s].phase
    BY <1>1 DEF CodexTurn
  <2>2. codex' = [codex EXCEPT ![s] = turn]
    BY <1>11 DEF StartTool, TypeOK
  <2> HIDE DEF turn
  <2>3. "pre_tool_use" \in WithinTurn
    BY DEF WithinTurn
  <2>4. QED
    BY <1>11, <2>1, <2>2, <2>3, EventOfTurnKeeps DEF StartTool, CanMove, Free
<1>12. ASSUME NEW t \in Tools, Ask(s, t) PROVE Kept(s)
  <2> DEFINE turn == [codex[s] EXCEPT !.asking = t, !.askedAt = now + 1]
  <2>1. turn \in CodexTurn /\ turn.turn = codex[s].turn /\ turn.phase = codex[s].phase
    <3>1. now + 1 \in Nat
      BY <1>1
    <3>2. QED
      BY <1>1, <3>1 DEF CodexTurn
  <2>2. codex' = [codex EXCEPT ![s] = turn]
    BY <1>12 DEF Ask, TypeOK
  <2> HIDE DEF turn
  <2>3. "permission_request" \in WithinTurn
    BY DEF WithinTurn
  <2>4. QED
    BY <1>12, <2>1, <2>2, <2>3, EventOfTurnKeeps DEF Ask, CanMove, Free
<1>13. ASSUME NEW t \in Tools, EndTool(s, t) PROVE Kept(s)
  <2> DEFINE turn == [codex[s] EXCEPT !.tools = @ \ {t}]
  <2>1. turn \in CodexTurn /\ turn.turn = codex[s].turn /\ turn.phase = codex[s].phase
    BY <1>1 DEF CodexTurn
  <2>2. codex' = [codex EXCEPT ![s] = turn]
    BY <1>13 DEF EndTool, TypeOK
  <2> HIDE DEF turn
  <2>3. "post_tool_use" \in WithinTurn
    BY DEF WithinTurn
  <2>4. QED
    BY <1>13, <2>1, <2>2, <2>3, EventOfTurnKeeps DEF EndTool, CanMove, Free
<1>14. QED
  BY <1>2, <1>3, <1>4, <1>5, <1>6, <1>7, <1>8, <1>9, <1>10, <1>11, <1>12, <1>13 DEF CodexStep

-----------------------------------------------------------------------------
(* What the other steps keep of a session                                  *)

LEMMA HookEndsSpares ==
  ASSUME TypeOK, NEW s \in Sessions, Dated(s), HookEnds(s)
  PROVE  /\ TypeOK' /\ UNCHANGED <<process, monitor>>
         /\ \A r \in Sessions : Spares(r) /\ Events(r)' = Events(r)
<1>1. /\ setting' = setting /\ setting' \in Settings
      /\ openSome' \in BOOLEAN /\ openAll' \in SUBSET Sessions
  BY MovesFacts DEF HookEnds
<1>2. UNCHANGED <<process, monitor>>
  BY DEF HookEnds
<1>3. hook[s] \in HookEvent /\ hook[s] # NoEvent /\ hook[s].session = s
  BY DEF HookEnds, TypeOK, Dated
<1>4. /\ hook' \in [Sessions -> HookEvent \union {NoEvent}]
      /\ hook'[s] = NoEvent /\ \A r \in Sessions \ {s} : hook'[r] = hook[r]
  BY DEF HookEnds, TypeOK
<1>5. lost' \in Nat /\ log' \in SUBSET HookEvent /\ log' \in {log, log \union {hook[s]}}
  BY <1>3 DEF HookEnds, TypeOK
<1>6. TypeOK'
  BY <1>1, <1>2, <1>4, <1>5 DEF TypeOK, process, monitor
<1>7. setting.maxLost = 0 => log' = log \union {hook[s]}
  BY SettingFacts DEF HookEnds, TypeOK
<1>8. ASSUME NEW r \in Sessions
      PROVE  Known(r)' \subseteq Known(r) /\ (setting.maxLost = 0 => Known(r)' = Known(r))
  <2>1. CASE r = s
    BY <1>4, <1>5, <1>7, <2>1 DEF Known
  <2>2. CASE r # s
    <3>1. hook[s] \notin Known(r) /\ hook'[r] = hook[r]
      BY <1>3, <1>4, <2>2 DEF Known
    <3>2. \A e : e \in Known(r)' => e \in Known(r)
      BY <1>3, <1>5, <2>2, <3>1 DEF Known
    <3>3. \A e : e \in Known(r) => e \in Known(r)'
      BY <1>5, <3>1 DEF Known
    <3>4. QED
      BY <3>2, <3>3
  <2>3. QED
    BY <2>1, <2>2
<1>9. now' >= now /\ turns' + goals' >= turns + goals
  <2>1. now \in Nat /\ turns \in Nat /\ goals \in Nat
    BY DEF TypeOK
  <2>2. QED
    BY <1>2, <2>1 DEF process
<1>10. QED
  BY <1>1, <1>2, <1>4, <1>5, <1>6, <1>8, <1>9 DEF Spares, process, Events

LEMMA LaunchKeeps ==
  ASSUME TypeOK, \A s \in Sessions : SessionInv(s), NEW p \in Pids, Launch(p)
  PROVE  /\ TypeOK' /\ now' = now + 1 /\ proc'.startedAt = now' /\ proc' # NoRoot
         /\ \A s \in Sessions : /\ SessionInv(s)'
                                /\ Ordinary(setting) => Accounted(s)'
<1>1. /\ proc = NoRoot /\ now' = now + 1 /\ proc' = [pid |-> p, startedAt |-> now + 1]
      /\ UNCHANGED <<held, codex, turns, goals, outcome, rollout, hooks, monitor>>
  BY DEF Launch, Tick
<1>2. now \in Nat /\ now' \in Nat /\ turns' + goals' = turns + goals
  <2>1. now \in Nat
    BY DEF TypeOK
  <2>2. QED
    BY <1>1, <2>1
<1>3. /\ setting' = setting /\ setting' \in Settings
      /\ openSome' \in BOOLEAN /\ openAll' \in SUBSET Sessions
  BY MovesFacts DEF Launch
<1>4. proc' \in CodexProcess /\ proc'.startedAt = now' /\ proc'.pid = p
  BY <1>1, <1>2 DEF CodexProcess
<1>5. TypeOK'
  BY <1>1, <1>2, <1>3, <1>4 DEF TypeOK, hooks, monitor
<1>6. proc' # NoRoot
  BY <1>4, LifecycleAssumption
<1>7. ASSUME NEW s \in Sessions PROVE SessionInv(s)' /\ (Ordinary(setting) => Accounted(s)')
  <2>1. Known(s)' = Known(s) /\ Events(s)' = Events(s) /\ ~Busy(codex, s)
    BY <1>1 DEF Known, Events, hooks, SessionInv, Attached
  <2>2. \A e \in Known(s) : e.at \in 1 .. now
    BY DEF SessionInv, Dated
  <2>3. Dated(s)'
    <3>1. hook'[s] # NoEvent => hook'[s].session = s
      BY <1>1 DEF SessionInv, Dated, hooks
    <3>2. codex'[s].turn <= turns' + goals'
      BY <1>1, <1>2 DEF SessionInv, Dated
    <3>3. turns' + goals' \in {turns + goals, turns + goals + 1}
      BY <1>2
    <3>4. rollout'[s] = rollout[s] /\ Dated(s)
      BY <1>1 DEF SessionInv
    <3>5. QED
      BY <1>1, <1>3, <1>5, <2>1, <3>1, <3>2, <3>3, <3>4, DatedGrows
  <2>4. Mine(s, proc)' = {}
    BY <1>2, <1>4, <2>1, <2>2, <1>1 DEF Mine
  <2>5. Attached(s)'
    <3>1. \A r \in rollout'[s] : r.at < proc'.startedAt
      BY <1>1, <1>2, <1>4 DEF SessionInv, Dated
    <3>2. QED
      BY <1>1, <2>1, <2>4, <3>1 DEF Attached, Busy
  <2>6. NewTurnIsPrompted(s)' /\ OpenTurnIsRecorded(s)'
    BY <1>1, <2>1 DEF NewTurnIsPrompted, OpenTurnIsRecorded, Busy
  <2>7. ASSUME Ordinary(setting) PROVE Accounted(s)'
    <3>1. ASSUME ~setting.reuse, NEW e \in Known(s) PROVE e.pid # p
      BY <3>1 DEF Launch, Known
    <3>2. Announced(s, proc)'
      BY <1>3, <1>4, <2>1, <2>4, <3>1 DEF Announced
    <3>3. Active(LastOf(Events(s))) => LastOf(Events(s)).at < now'
      <4>1. ASSUME Active(LastOf(Events(s))) PROVE LastOf(Events(s)) \in Events(s)
        BY <4>1, EventFacts DEF SessionInv, Active
      <4>2. QED
        BY <1>1, <1>2, <4>1, EventFacts DEF SessionInv
    <3>4. Told(s, proc)'
      BY <1>4, <2>1, <2>4, <3>3 DEF Told
    <3>5. QED
      BY <1>1, <2>1, <3>2, <3>4 DEF Accounted, Busy
  <2>8. QED
    BY <2>3, <2>5, <2>6, <2>7 DEF SessionInv
<1>8. QED
  BY <1>1, <1>4, <1>5, <1>6, <1>7

LEMMA KillKeeps ==
  ASSUME TypeOK, \A s \in Sessions : SessionInv(s), Kill
  PROVE  /\ TypeOK' /\ proc' = NoRoot
         /\ \A s \in Sessions : SessionInv(s)' /\ Accounted(s)'
<1>1. /\ proc' = NoRoot /\ held' = {} /\ codex' = [s \in Sessions |-> Idle]
      /\ UNCHANGED <<now, turns, goals, rollout, hooks, monitor>>
  BY DEF Kill
<1>2. /\ setting' = setting /\ setting' \in Settings
      /\ openSome' \in BOOLEAN /\ openAll' \in SUBSET Sessions
  BY MovesFacts DEF Kill
<1>3. Idle \in CodexTurn /\ Idle.turn = None /\ Idle.phase = "idle"
  BY DEF Idle, CodexTurn, Phases, None
<1>4. codex' \in [Sessions -> CodexTurn] /\ \A s \in Sessions : codex'[s] = Idle
  BY <1>1, <1>3
<1>5. TypeOK'
  BY <1>1, <1>2, <1>4 DEF TypeOK, hooks, monitor
<1>6. ASSUME NEW s \in Sessions PROVE SessionInv(s)' /\ Accounted(s)'
  <2>1. Known(s)' = Known(s) /\ ~Busy(codex, s)' /\ codex'[s].phase = "idle"
    BY <1>1, <1>3, <1>4 DEF Known, hooks, Busy
  <2>2. None <= turns' + goals' /\ turns' + goals' = turns + goals
    <3>1. turns \in Nat /\ goals \in Nat
      BY DEF TypeOK
    <3>2. QED
      BY <1>1, <3>1 DEF None
  <2>3. Dated(s)'
    BY <1>1, <1>2, <1>3, <1>4, <2>1, <2>2 DEF SessionInv, Dated, hooks
  <2>4. Attached(s)' /\ NewTurnIsPrompted(s)' /\ OpenTurnIsRecorded(s)' /\ Accounted(s)'
    BY <1>1, <2>1 DEF Attached, NewTurnIsPrompted, OpenTurnIsRecorded, Accounted
  <2>5. QED
    BY <2>3, <2>4 DEF SessionInv
<1>7. QED
  BY <1>1, <1>5, <1>6

-----------------------------------------------------------------------------
(* What a running round knows stays true while Codex moves                 *)

LEMMA RoundIsKept ==
  ASSUME TypeOK, RoundInv, Moves, UNCHANGED monitor,
         mpc # "processes" /\ openAll' # {} => proc' = proc,
         \A s \in Sessions : codex[s].phase = "open" /\ codex'[s].phase = "open" =>
           codex'[s].turn = codex[s].turn /\ Events(s)' = Events(s)
  PROVE  RoundInv'
<1> SUFFICES ASSUME mpc # "processes" PROVE RoundInv'
  BY DEF RoundInv, monitor
<1>1. /\ mpc' = mpc /\ root' = root /\ states' = states /\ candidates' = candidates
      /\ setting' = setting
      /\ \A s \in openAll' : s \in openAll /\ s \in Sessions /\ codex'[s].phase = "open"
  BY MovesFacts DEF monitor
<1>2. root' # NoRoot
  BY <1>1 DEF RoundInv
<1>3. openAll' # {} => proc' = root' /\ \A s \in openAll' : codex'[s].phase = "open"
  BY <1>1 DEF RoundInv
<1>4. ASSUME NEW s \in openAll'
      PROVE  /\ codex'[s].turn = codex[s].turn /\ Events(s)' = Events(s) /\ s \in openAll
             /\ OnTurn(s)' <=> OnTurn(s)
             /\ Outdated(s)' <=> Outdated(s)
             /\ Displayable(s)' <=> Displayable(s)
  <2>1. codex'[s].turn = codex[s].turn /\ Events(s)' = Events(s) /\ s \in openAll
    BY <1>1 DEF RoundInv
  <2>2. OnTurn(s)' <=> OnTurn(s)
    BY <1>1, <2>1 DEF OnTurn
  <2>3. Outdated(s)' <=> Outdated(s)
    BY <1>1, <2>1 DEF Outdated
  <2>4. Displayable(s)' <=> Displayable(s)
    BY <1>1 DEF Displayable
  <2>5. QED
    BY <2>1, <2>2, <2>3, <2>4
<1>5. mpc' \in {"named", "held"} =>
        \A s \in openAll' : Displayable(s)' => OnTurn(s)' \/ Outdated(s)'
  BY <1>1, <1>4 DEF RoundInv
<1>6. mpc' = "held" =>
        \A s \in openAll' : Displayable(s)' /\ OnTurn(s)' =>
          \E c \in candidates' : c.status \in OpenStatuses
  BY <1>1, <1>4 DEF RoundInv
<1>7. QED
  BY <1>2, <1>3, <1>5, <1>6 DEF RoundInv

\* What a file tells of a process at rest is not changed by a step that adds
\* no record and no event.
LEMMA TracesAreKept ==
  ASSUME NEW s \in Sessions, NEW q, setting' = setting, rollout'[s] = rollout[s],
         Known(s)' \subseteq Known(s), setting.reuse => Known(s)' = Known(s),
         log \subseteq log'
  PROVE  /\ Told(s, q) => Told(s, q)'
         /\ Announced(s, q) => Announced(s, q)'
<1>1. Events(s)' = Events(s) /\ Mine(s, q)' \subseteq Mine(s, q)
  BY DEF Events, Mine
<1>2. setting.reuse => Mine(s, q)' = Mine(s, q)
  BY DEF Mine
<1>3. \A e : Ended(s, e) => Ended(s, e)'
  BY <1>1 DEF Ended, TurnEnded
<1>4. Told(s, q) => Told(s, q)'
  BY <1>1, <1>3 DEF Told
<1>5. Announced(s, q) => Announced(s, q)'
  BY <1>1, <1>2 DEF Announced
<1>6. QED
  BY <1>4, <1>5

LEMMA CalmIsKept ==
  ASSUME TypeOK, CalmInv, Moves, UNCHANGED monitor, log \subseteq log',
         \A s \in Sessions : ~Busy(codex, s) /\ ~Busy(codex', s) =>
           /\ rollout'[s] = rollout[s]
           /\ Known(s)' \subseteq Known(s)
           /\ setting.reuse => Known(s)' = Known(s)
  PROVE  CalmInv'
<1> SUFFICES ASSUME mpc # "processes", ~openSome' PROVE CalmInv'
  BY DEF CalmInv, monitor
<1>1. /\ mpc' = mpc /\ root' = root /\ states' = states /\ candidates' = candidates
      /\ setting' = setting /\ ~openSome
      /\ \A s \in Sessions : ~Busy(codex', s)
  BY MovesFacts DEF monitor
<1>2. \A s \in Sessions : ~Busy(codex, s) /\ Told(s, root) /\ Announced(s, root)
  BY <1>1 DEF CalmInv
<1>3. ASSUME NEW s \in Sessions PROVE Told(s, root)' /\ Announced(s, root)'
  <2>1. PICK q : q = root
    OBVIOUS
  <2>2. Told(s, q)' /\ Announced(s, q)'
    BY <1>1, <1>2, <2>1, TracesAreKept
  <2>3. QED
    BY <1>1, <2>1, <2>2
<1>4. ASSUME NEW s \in Sessions, Displayable(s)' /\ states'[s].inTurn, mpc \in {"named", "held"}
      PROVE  Over(s)'
  <2>1. Over(s) /\ Events(s)' = Events(s)
    BY <1>1, <1>2, <1>4 DEF CalmInv, Displayable, Events
  <2>2. QED
    BY <1>1, <2>1 DEF Over, TurnEnded
<1>5. QED
  BY <1>1, <1>3, <1>4 DEF CalmInv, Busy

-----------------------------------------------------------------------------
(* The steps of a round                                                    *)

Loaded(s) == {e \in log : e.pid = root.pid /\ e.session = s}

\* The state of a session that a round folds from the log.
LEMMA LoadedFacts ==
  ASSUME TypeOK, NEW s \in Sessions, SessionInv(s), root # NoRoot
  PROVE  LET h == Summary(Loaded(s), now) IN
         /\ Loaded(s) \subseteq Known(s) /\ DatedApart(Loaded(s), now)
         /\ Sound(h, Loaded(s), now)
         /\ h \in FoldState /\ h.updatedAt \in Nat /\ h.updatedAt <= now
         /\ h # NoState => \E l \in Loaded(s), q \in FoldState :
                             LastUpTo(l, Loaded(s), now) /\ h = Folded(q, l)
         /\ h # NoState => \E l \in Loaded(s) : LastUpTo(l, Loaded(s), now) /\ h.updatedAt = l.at
<1> DEFINE E == Loaded(s)
           h == Summary(E, now)
<1>1. E \subseteq Known(s) /\ E \in SUBSET HookEvent /\ now \in Nat
  BY LifecycleAssumption DEF Loaded, Known, TypeOK
<1>2. DatedApart(E, now)
  BY <1>1 DEF DatedApart, SessionInv, Dated
<1> HIDE DEF E
<1>3. Sound(h, E, now)
  BY <1>1, <1>2, SummaryFacts
<1> HIDE DEF h
<1>4. h # NoState => \E l \in E, q \in FoldState : LastUpTo(l, E, now) /\ h = Folded(q, l)
  BY <1>3 DEF Sound
<1>5. h # NoState => \E l \in E : LastUpTo(l, E, now) /\ h.updatedAt = l.at
  BY <1>1, <1>4, FoldedFacts
<1>6. h \in FoldState /\ h.updatedAt \in Nat
  BY <1>3 DEF Sound, FoldState
<1>7. h.updatedAt <= now
  <2>1. CASE h = NoState
    BY <1>1, <2>1 DEF NoState, None
  <2>2. CASE h # NoState
    BY <1>5, <2>2 DEF LastUpTo
  <2>3. QED
    BY <2>1, <2>2
<1>8. QED
  BY <1>1, <1>2, <1>3, <1>4, <1>5, <1>6, <1>7 DEF E, h

\* A state is either of the open turn or older than its record, and then it
\* knows nothing of it.
LEMMA OpenTurnIsLoaded ==
  ASSUME TypeOK, NEW s \in Sessions, SessionInv(s), root # NoRoot, proc = root,
         codex[s].phase = "open",
         NEW h, h = Summary(Loaded(s), now), h.active, h.updatedAt >= root.startedAt
  PROVE  LET e == LastOf(Events(s)) IN
         \/ h.inTurn /\ (setting.withIds => h.turn = codex[s].turn)
         \/ /\ h.updatedAt < e.at
            /\ e.turn # None => e.turn \notin {h.turn, h.stoppedTurn}
<1> DEFINE e == LastOf(Events(s))
           E == Loaded(s)
<1>1. /\ E \subseteq Known(s) /\ DatedApart(E, now) /\ Sound(h, E, now)
      /\ h \in FoldState /\ h.updatedAt \in Nat
  BY LoadedFacts
<1>2. h # NoState
  BY DEF NoState
<1>3. PICK l \in E, q \in FoldState : LastUpTo(l, E, now) /\ h = Folded(q, l)
  BY <1>2, LoadedFacts
<1>4. /\ l \in HookEvent /\ l \in Known(s) /\ l.pid = root.pid /\ l.at \in Nat
      /\ h.updatedAt = l.at
      /\ l.event \in Opening => h.inTurn /\ h.turn = TurnOf(q, l)
  <2>1. l \in HookEvent /\ l \in Known(s) /\ l.pid = root.pid /\ l.at \in Nat
    BY <1>1, <1>3 DEF DatedApart, Loaded
  <2>2. QED
    BY <1>3, <2>1, FoldedFacts
<1>5. /\ Active(e) /\ (setting.withIds => e.turn = codex[s].turn)
      /\ BegunBy(s, e) \/ ResumedFrom(s, e)
  BY DEF SessionInv, OpenTurnIsRecorded
<1>6. setting.withIds => codex[s].turn # None
  BY DEF SessionInv, Attached, Busy
<1>7. e.at \in Nat /\ (~setting.withIds => e.turn = None)
  <2>1. Dated(s) /\ e # NoEvent
    BY <1>5 DEF SessionInv, Active
  <2>2. e \in Events(s)
    BY <2>1, EventFacts
  <2>3. QED
    BY <2>1, <2>2, EventFacts DEF Dated, Events
<1> HIDE DEF e, E
<1>8. ASSUME l.event \in Opening, l.turn = codex[s].turn
      PROVE  h.inTurn /\ (setting.withIds => h.turn = codex[s].turn)
  BY <1>4, <1>6, <1>8 DEF TurnOf
<1>9. CASE ResumedFrom(s, e)
  <2>1. l \in Mine(s, proc)
    BY <1>4 DEF Mine
  <2>2. l.event \in Opening /\ l.turn = codex[s].turn
    BY <1>9, <2>1 DEF ResumedFrom, Opening
  <2>3. QED
    BY <1>8, <2>2 DEF e
<1>10. CASE BegunBy(s, e)
  <2>1. CASE l.at >= e.at
    <3>1. l.event \in Opening /\ l.turn = codex[s].turn
      BY <1>4, <1>10, <2>1 DEF BegunBy, Opening
    <3>2. QED
      BY <1>8, <3>1 DEF e
  <2>2. CASE l.at < e.at /\ l.turn = codex[s].turn
    <3>1. l.event \in Opening
      BY <1>4, <1>10, <2>2 DEF BegunBy, Opening
    <3>2. QED
      BY <1>8, <2>2, <3>1 DEF e
  <2>3. CASE l.at < e.at /\ l.turn # codex[s].turn
    <3>1. ASSUME NEW g \in E PROVE g.turn # codex[s].turn
      <4>1. /\ g \in Known(s) /\ g.at \in Nat /\ g.at <= l.at
            /\ g.at = l.at => g = l
        BY <1>1, <1>3 DEF LastUpTo, DatedApart
      <4>2. SUFFICES ASSUME g.turn = codex[s].turn PROVE FALSE
        OBVIOUS
      <4>3. g.at < e.at
        BY <1>4, <1>7, <2>3, <4>1
      <4>4. l.at <= g.at
        BY <1>4, <1>10, <2>3, <4>1, <4>2, <4>3 DEF BegunBy
      <4>5. g = l
        BY <1>4, <4>1, <4>4
      <4>6. QED
        BY <2>3, <4>2, <4>5
    <3>2. codex[s].turn # None
      BY <1>10 DEF BegunBy
    <3>3. codex[s].turn \notin {h.turn, h.stoppedTurn}
      BY <1>1, <3>1, <3>2 DEF Sound
    <3>4. e.turn # None => e.turn \notin {h.turn, h.stoppedTurn}
      BY <1>5, <1>7, <3>3
    <3>5. QED
      BY <1>4, <2>3, <3>4 DEF e
  <2>4. QED
    BY <1>4, <1>7, <2>1, <2>2, <2>3
<1>11. QED
  BY <1>5, <1>9, <1>10

\* The turn that a state of a process at rest says is open is over.
LEMMA OverIsLoaded ==
  ASSUME TypeOK, NEW s \in Sessions, SessionInv(s), root # NoRoot, Ordinary(setting),
         Told(s, root), Announced(s, root),
         NEW h, h = Summary(Loaded(s), now), h.inTurn, h.updatedAt >= root.startedAt
  PROVE  LET last == LastOf(Events(s)) IN
         /\ Terminal(last)
         /\ h.startedAt # None /\ h.startedAt <= last.at
         /\ setting.withIds => h.turn # None /\ TurnEnded(s, h.turn)
<1> DEFINE last == LastOf(Events(s))
           E == Loaded(s)
<1>1. /\ E \subseteq Known(s) /\ DatedApart(E, now) /\ Sound(h, E, now)
      /\ h \in FoldState /\ h.updatedAt \in Nat
  BY LoadedFacts
<1>2. h # NoState
  BY DEF NoState
<1>3. PICK l \in E : LastUpTo(l, E, now) /\ h.updatedAt = l.at
  BY <1>2, LoadedFacts
<1>4. \A e \in E : e.at >= root.startedAt => e \in Mine(s, root)
  BY <1>1 DEF Mine, Loaded
<1>5. l \in Mine(s, root)
  BY <1>3, <1>4
<1>6. Terminal(last) /\ \A e \in Known(s) : e.at < last.at
  BY <1>5 DEF Told
<1>7. last.at \in Nat
  <2>1. Dated(s) /\ last # NoEvent
    BY <1>6 DEF SessionInv, Terminal
  <2>2. last \in Events(s)
    BY <2>1, EventFacts
  <2>3. QED
    BY <2>1, <2>2, EventFacts
<1> HIDE DEF E, last
<1>8. h.startedAt # None /\ h.startedAt <= last.at
  <2>1. h.startedAt # None /\ h.startedAt \in {None} \union {e.at : e \in E}
    BY <1>1 DEF Sound
  <2>2. PICK e \in E : h.startedAt = e.at
    BY <2>1
  <2>3. e.at \in Nat /\ e.at < last.at
    BY <1>1, <1>6 DEF DatedApart
  <2>4. QED
    BY <1>7, <2>1, <2>2, <2>3
<1>9. ASSUME setting.withIds PROVE h.turn # None /\ TurnEnded(s, h.turn)
  <2>1. \A e \in E : e.at >= root.startedAt => e.turn # None /\ TurnEnded(s, e.turn)
    BY <1>4, <1>9 DEF Told, Ended
  <2>2. \A e \in E : e.event # "session_start"
    BY <1>1 DEF SessionInv, Dated, Ordinary
  <2>3. ASSUME NEW e \in E, e.event = "stop", e.at >= root.startedAt
        PROVE  \/ \E f \in E : f.at >= root.startedAt /\ f.at < e.at
               \/ \A f \in E : f.at >= root.startedAt
    <3>1. CASE setting.reuse
      <4>1. PICK f \in Mine(s, root) \intersect log : f.at < e.at
        BY <1>4, <2>3, <3>1 DEF Announced
      <4>2. f \in E /\ f.at >= root.startedAt
        BY <4>1 DEF Mine, Known, E, Loaded
      <4>3. QED
        BY <4>1, <4>2
    <3>2. CASE ~setting.reuse
      BY <1>1, <3>2 DEF Announced, E, Loaded
    <3>3. QED
      BY <3>1, <3>2
  <2>4. root.startedAt \in Nat /\ now \in Nat
    BY DEF TypeOK, CodexProcess
  <2>5. h = Summary(E, now)
    BY DEF E
  <2>6. \E e \in E : e.at >= root.startedAt /\ e.turn = h.turn
    BY <1>1, <2>1, <2>2, <2>3, <2>4, <2>5, OpenTurnIsRecent
  <2>7. QED
    BY <2>1, <2>6
<1>10. QED
  BY <1>6, <1>8, <1>9 DEF last

\* Reading changes nothing of what Codex and its hooks do.
LEMMA ReadingSpares ==
  ASSUME TypeOK, UNCHANGED <<process, hooks>>
  PROVE  \A s \in Sessions : Spares(s) /\ Events(s)' = Events(s)
<1>1. now \in Nat /\ turns \in Nat /\ goals \in Nat
  BY DEF TypeOK
<1>2. now' >= now /\ turns' + goals' >= turns + goals
  BY <1>1 DEF process
<1>3. ASSUME NEW s \in Sessions PROVE Known(s)' = Known(s) /\ Events(s)' = Events(s)
  BY DEF Known, Events, process, hooks
<1>4. QED
  BY <1>2, <1>3 DEF Spares, process, hooks

LEMMA ReadProcessesKeeps ==
  ASSUME LifecycleInv, ReadProcesses
  PROVE  TypeOK' /\ RoundInv' /\ (PhantomInv => PhantomInv')
<1>1. TypeOK /\ UNCHANGED <<process, hooks, states, candidates>> /\ root' = proc
  BY DEF LifecycleInv, ReadProcesses
<1>2. CASE proc = NoRoot
  <2>1. mpc' = "processes" /\ UNCHANGED history
    BY <1>2 DEF ReadProcesses
  <2>2. TypeOK' /\ RoundInv' /\ CalmInv'
    BY <1>1, <2>1 DEF TypeOK, RoundInv, CalmInv, process, hooks, history
  <2>3. PhantomInv => PhantomInv'
    BY <1>1, <2>2, ReadingSpares, SparedIsAccounted DEF PhantomInv, process
  <2>4. QED
    BY <2>2, <2>3
<1>3. CASE proc # NoRoot
  <2>1. /\ mpc' = "log" /\ openAll' = {s \in Sessions : codex[s].phase = "open"}
        /\ openSome' = (\E s \in Sessions : Busy(codex, s))
    BY <1>3 DEF ReadProcesses
  <2>2. TypeOK'
    BY <1>1, <2>1 DEF TypeOK, process, hooks
  <2>3. RoundInv'
    BY <1>1, <1>3, <2>1 DEF RoundInv, process
  <2>4. ASSUME PhantomInv PROVE PhantomInv'
    <3> SUFFICES ASSUME Ordinary(setting) PROVE PhantomInv'
      BY <1>1 DEF PhantomInv, process
    <3>1. \A s \in Sessions : Accounted(s) /\ Accounted(s)'
      BY <1>1, <2>4, ReadingSpares, SparedIsAccounted DEF PhantomInv
    <3>2. CalmInv'
      <4> SUFFICES ASSUME ~openSome' PROVE CalmInv'
        BY DEF CalmInv
      <4>1. ASSUME NEW s \in Sessions
            PROVE  ~Busy(codex', s) /\ Told(s, root)' /\ Announced(s, root)'
        <5>1. ~Busy(codex, s)
          BY <2>1
        <5>2. Told(s, proc)' /\ Announced(s, proc)' /\ ~Busy(codex', s)
          BY <1>1, <1>3, <3>1, <5>1 DEF Accounted, process, Busy
        <5>3. root' = proc'
          BY <1>1 DEF process
        <5>4. QED
          BY <5>2, <5>3 DEF Told, Announced, Mine, Known
      <4>2. QED
        BY <2>1, <4>1 DEF CalmInv, Busy
    <3>3. QED
      BY <3>1, <3>2 DEF PhantomInv
  <2>5. QED
    BY <2>2, <2>3, <2>4
<1>4. QED
  BY <1>2, <1>3

LEMMA LoadLogKeeps ==
  ASSUME LifecycleInv, LoadLog
  PROVE  /\ TypeOK' /\ RoundInv' /\ (PhantomInv => PhantomInv')
         /\ \A s \in Sessions : states'[s].updatedAt <= now'
<1>1. /\ TypeOK /\ UNCHANGED <<process, hooks, root, candidates, display, history>>
      /\ mpc = "log" /\ mpc' = "named" /\ root # NoRoot
      /\ states' = [s \in Sessions |-> Summary(Loaded(s), now)]
      /\ \A s \in Sessions : SessionInv(s)
  BY DEF LifecycleInv, LoadLog, Loaded, RoundInv
<1>2. \A s \in Sessions : states'[s] = Summary(Loaded(s), now)
  BY <1>1
<1>3. \A s \in Sessions : states'[s] \in FoldState /\ states'[s].updatedAt <= now
  BY <1>1, <1>2, LoadedFacts
<1>4. states' \in [Sessions -> FoldState]
  BY <1>1, <1>3
<1>5. TypeOK'
  BY <1>1, <1>4 DEF TypeOK, process, hooks, history
<1>6. \A s \in Sessions : Spares(s) /\ Events(s)' = Events(s)
  BY <1>1, ReadingSpares
<1>7. RoundInv'
  <2>1. ASSUME NEW s \in openAll', Displayable(s)' PROVE OnTurn(s)' \/ Outdated(s)'
    <3>1. s \in Sessions /\ proc = root /\ codex[s].phase = "open"
      BY <1>1 DEF RoundInv, LifecycleInv, TypeOK, history
    <3> PICK h : h = states'[s]
      OBVIOUS
    <3>2. h = Summary(Loaded(s), now) /\ h.active /\ h.updatedAt >= root.startedAt
      BY <1>1, <1>2, <2>1, <3>1 DEF Displayable
    <3> PICK e : e = LastOf(Events(s))
      OBVIOUS
    <3>3. \/ h.inTurn /\ (setting.withIds => h.turn = codex[s].turn)
          \/ /\ h.updatedAt < e.at
             /\ e.turn # None => e.turn \notin {h.turn, h.stoppedTurn}
      BY <1>1, <3>1, <3>2, OpenTurnIsLoaded
    <3>4. /\ LastOf(Events(s))' = e /\ setting' = setting /\ codex' = codex
      BY <1>1, <1>6, <3>1 DEF process
    <3>5. QED
      BY <3>3, <3>4 DEF OnTurn, Outdated
  <2>2. QED
    BY <1>1, <2>1 DEF RoundInv, LifecycleInv, process, history
<1>8. ASSUME PhantomInv, Ordinary(setting) PROVE PhantomInv'
  <2>1. \A s \in Sessions : Accounted(s)'
    BY <1>1, <1>6, <1>8, SparedIsAccounted DEF PhantomInv
  <2>2. CalmInv'
    <3> SUFFICES ASSUME ~openSome' PROVE CalmInv'
      BY DEF CalmInv
    <3>1. \A s \in Sessions : ~Busy(codex, s) /\ Told(s, root) /\ Announced(s, root)
      BY <1>1, <1>8 DEF PhantomInv, CalmInv, history
    <3>2. ASSUME NEW s \in Sessions
          PROVE  ~Busy(codex', s) /\ Told(s, root)' /\ Announced(s, root)'
      <4>1. PICK q : q = root
        OBVIOUS
      <4>2. Told(s, q)' /\ Announced(s, q)'
        BY <1>1, <3>1, <4>1, TracesAreKept DEF process, hooks, Known
      <4>3. QED
        BY <1>1, <3>1, <4>1, <4>2 DEF process
    <3>3. ASSUME NEW s \in Sessions, Displayable(s)', states'[s].inTurn PROVE Over(s)'
      <4> PICK h : h = states'[s]
        OBVIOUS
      <4>1. h = Summary(Loaded(s), now) /\ h.inTurn /\ h.updatedAt >= root.startedAt
        BY <1>1, <1>2, <3>3 DEF Displayable
      <4> PICK last : last = LastOf(Events(s))
        OBVIOUS
      <4>2. /\ Terminal(last)
            /\ h.startedAt # None /\ h.startedAt <= last.at
            /\ setting.withIds => h.turn # None /\ TurnEnded(s, h.turn)
        BY <1>1, <1>8, <3>1, <4>1, OverIsLoaded
      <4>3. LastOf(Events(s))' = last /\ setting' = setting
        BY <1>1, <1>6 DEF process
      <4>4. setting'.withIds => h.turn # None /\ TurnEnded(s, h.turn)'
        BY <1>6, <4>2, <4>3 DEF TurnEnded
      <4>5. QED
        BY <4>2, <4>3, <4>4 DEF Over
    <3>4. QED
      BY <1>1, <3>2, <3>3 DEF CalmInv, Busy
  <2>3. QED
    BY <2>1, <2>2 DEF PhantomInv
<1>9. PhantomInv => PhantomInv'
  BY <1>1, <1>8 DEF PhantomInv, process
<1>10. QED
  BY <1>1, <1>3, <1>5, <1>7, <1>9 DEF process

LEMMA ScanNamedFilesKeeps ==
  ASSUME LifecycleInv, ScanNamedFiles
  PROVE  /\ TypeOK' /\ RoundInv' /\ (PhantomInv => PhantomInv')
         /\ \A c \in candidates' : c.updatedAt <= now'
<1> DEFINE Named(s) == EventForHook(states[s], Events(s))
           Found(s) == HookCandidate(states[s], Named(s))
<1>1. /\ TypeOK /\ UNCHANGED <<process, hooks, root, states, display, history>>
      /\ mpc = "named" /\ mpc' = "held" /\ root # NoRoot
      /\ candidates' = {Found(s) : s \in {s \in Sessions : Displayable(s)}}
      /\ \A s \in Sessions : SessionInv(s)
  BY DEF LifecycleInv, ScanNamedFiles, RoundInv
<1>2. ASSUME NEW s \in Sessions PROVE Found(s) \in Candidate /\ Found(s).updatedAt <= now
  <2>1. Dated(s) /\ states[s] \in FoldState /\ states[s].updatedAt <= now
    BY <1>1 DEF LifecycleInv, SessionInv, TypeOK
  <2>2. QED
    BY <1>1, <2>1, EventForHookFacts
<1>3. \A s : Found(s).status = HookStatus(states[s], Named(s))
  BY DEF HookCandidate
<1> HIDE DEF Found
<1>4. candidates' \in SUBSET Candidate /\ \A c \in candidates' : c.updatedAt <= now'
  BY <1>1, <1>2 DEF process
<1>5. TypeOK'
  BY <1>1, <1>4 DEF TypeOK, process, hooks, history
<1>6. \A s \in Sessions : /\ Spares(s) /\ Events(s)' = Events(s)
                          /\ Displayable(s)' <=> Displayable(s)
                          /\ OnTurn(s)' <=> OnTurn(s)
                          /\ Outdated(s)' <=> Outdated(s)
                          /\ Over(s)' <=> Over(s)
  <2>1. ASSUME NEW s \in Sessions PROVE Spares(s) /\ Events(s)' = Events(s)
    BY <1>1, <2>1, ReadingSpares
  <2>2. ASSUME NEW s \in Sessions
        PROVE  /\ Displayable(s)' <=> Displayable(s)
               /\ OnTurn(s)' <=> OnTurn(s)
    BY <1>1 DEF Displayable, OnTurn, process
  <2>3. ASSUME NEW s \in Sessions
        PROVE  /\ Outdated(s)' <=> Outdated(s)
               /\ Over(s)' <=> Over(s)
    BY <1>1, <2>1 DEF Outdated, Over, TurnEnded, process
  <2>4. QED
    BY <2>1, <2>2, <2>3
<1>7. RoundInv'
  <2>1. ASSUME NEW s \in openAll, Displayable(s), OnTurn(s)
        PROVE  \E c \in candidates' : c.status \in OpenStatuses
    <3>1. s \in Sessions /\ codex[s].phase = "open" /\ Dated(s) /\ states[s] \in FoldState
      BY <1>1 DEF RoundInv, LifecycleInv, TypeOK, SessionInv
    <3>2. /\ Active(LastOf(Events(s)))
          /\ setting.withIds =>
               states[s].turn # None /\ LastOf(Events(s)).turn = states[s].turn
      BY <1>1, <2>1, <3>1
      DEF SessionInv, OpenTurnIsRecorded, Attached, Busy, OnTurn
    <3>3. Named(s) \in {LastOf(Events(s)), NoEvent}
      BY <1>1, <3>1, <3>2, OpenTurnMatches
    <3>4. ~Terminal(Named(s)) /\ states[s].inTurn
      BY <2>1, <3>2, <3>3 DEF Terminal, Active, OnTurn
    <3>5. HookStatus(states[s], Named(s)) \in OpenStatuses
      BY <3>4 DEF HookStatus, OpenStatuses
    <3>6. QED
      BY <1>1, <1>3, <2>1, <3>1, <3>5
  <2>2. \A s \in openAll : Displayable(s) => OnTurn(s) \/ Outdated(s)
    BY <1>1 DEF RoundInv, LifecycleInv
  <2>3. openAll' = openAll /\ openAll \subseteq Sessions
    BY <1>1 DEF history, TypeOK
  <2>4. \A s \in openAll' : Displayable(s)' => OnTurn(s)' \/ Outdated(s)'
    BY <1>6, <2>2, <2>3
  <2>5. \A s \in openAll' : Displayable(s)' /\ OnTurn(s)' =>
          \E c \in candidates' : c.status \in OpenStatuses
    BY <1>6, <2>1, <2>3
  <2>6. openAll' # {} => proc' = root' /\ \A s \in openAll' : codex'[s].phase = "open"
    BY <1>1, <2>3 DEF RoundInv, LifecycleInv, process
  <2>7. QED
    BY <1>1, <2>4, <2>5, <2>6 DEF RoundInv
<1>8. ASSUME PhantomInv, Ordinary(setting) PROVE PhantomInv'
  <2>1. \A s \in Sessions : Accounted(s)'
    BY <1>1, <1>6, <1>8, SparedIsAccounted DEF PhantomInv
  <2>2. CalmInv'
    <3> SUFFICES ASSUME ~openSome' PROVE CalmInv'
      BY DEF CalmInv
    <3>1. /\ \A s \in Sessions : ~Busy(codex, s) /\ Told(s, root) /\ Announced(s, root)
          /\ \A s \in Sessions : Displayable(s) /\ states[s].inTurn => Over(s)
      BY <1>1, <1>8 DEF PhantomInv, CalmInv, history
    <3>2. ASSUME NEW s \in Sessions
          PROVE  ~Busy(codex', s) /\ Told(s, root)' /\ Announced(s, root)'
      <4>1. PICK q : q = root
        OBVIOUS
      <4>2. Told(s, q)' /\ Announced(s, q)'
        BY <1>1, <3>1, <4>1, TracesAreKept DEF process, hooks, Known
      <4>3. QED
        BY <1>1, <3>1, <4>1, <4>2 DEF process
    <3>3. \A s \in Sessions : Displayable(s)' /\ states'[s].inTurn => Over(s)'
      BY <1>1, <1>6, <3>1
    <3>4. ASSUME NEW c \in candidates' PROVE c.status \notin OpenStatuses
      <4>1. PICK s \in Sessions : Displayable(s) /\ c = Found(s)
        BY <1>1
      <4>2. c.status = HookStatus(states[s], Named(s))
        BY <1>3, <4>1
      <4>3. Terminal(Named(s)) \/ ~states[s].inTurn
        <5>1. states[s].inTurn => Over(s) /\ Dated(s)
          BY <1>1, <3>1, <4>1 DEF SessionInv
        <5>2. QED
          BY <1>1, <5>1, OverMatches
      <4>4. QED
        BY <4>2, <4>3 DEF HookStatus, OpenStatuses
    <3>5. QED
      BY <1>1, <3>2, <3>3, <3>4 DEF CalmInv, Busy
  <2>3. QED
    BY <2>1, <2>2 DEF PhantomInv
<1>9. PhantomInv => PhantomInv'
  BY <1>1, <1>8 DEF PhantomInv, process
<1>10. QED
  BY <1>4, <1>5, <1>7, <1>9

LEMMA ScanHeldFilesKeeps ==
  ASSUME LifecycleInv, ScanHeldFiles
  PROVE  /\ TypeOK' /\ RoundInv' /\ (PhantomInv => PhantomInv') /\ candidates' = {}
         /\ \A s \in Sessions : states'[s].updatedAt <= now'
<1>1. /\ TypeOK /\ UNCHANGED <<process, hooks>> /\ mpc' = "processes" /\ root' = NoRoot
      /\ states' = [s \in Sessions |-> NoState] /\ candidates' = {}
      /\ openSome' = FALSE /\ openAll' = {}
  BY DEF LifecycleInv, ScanHeldFiles
<1>2. NoState \in FoldState /\ NoState.updatedAt = None
  BY DEF NoState, FoldState, None
<1>3. now \in Nat /\ now' = now
  BY <1>1 DEF TypeOK, process
<1>4. \A s \in Sessions : states'[s].updatedAt <= now'
  BY <1>1, <1>2, <1>3 DEF None
<1>5. states' \in [Sessions -> FoldState]
  BY <1>1, <1>2
<1>6. TypeOK'
  BY <1>1, <1>5 DEF TypeOK, process, hooks
<1>7. RoundInv' /\ CalmInv'
  BY <1>1 DEF RoundInv, CalmInv
<1>8. PhantomInv => PhantomInv'
  BY <1>1, <1>7, ReadingSpares, SparedIsAccounted DEF PhantomInv, process
<1>9. QED
  BY <1>1, <1>4, <1>6, <1>7, <1>8

-----------------------------------------------------------------------------
(* The theorems                                                            *)

LEMMA Beginning ==
  ASSUME Init
  PROVE  LifecycleInv /\ PhantomInv
<1>1. /\ now = 0 /\ turns = 0 /\ goals = 0 /\ lost = 0 /\ proc = NoRoot /\ root = NoRoot
      /\ held = {} /\ log = {} /\ candidates = {} /\ openSome = FALSE /\ openAll = {}
      /\ mpc = "processes" /\ setting \in Settings
      /\ codex = [s \in Sessions |-> Idle] /\ rollout = [s \in Sessions |-> {}]
      /\ hook = [s \in Sessions |-> NoEvent] /\ states = [s \in Sessions |-> NoState]
  BY DEF Init
<1>2. Idle \in CodexTurn /\ Idle.turn = None /\ Idle.phase = "idle"
  BY DEF Idle, CodexTurn, Phases, None
<1>3. NoState \in FoldState /\ NoState.updatedAt = None
  BY DEF NoState, FoldState, None
<1>4. /\ codex \in [Sessions -> CodexTurn] /\ states \in [Sessions -> FoldState]
      /\ rollout \in [Sessions -> SUBSET RolloutRecord]
      /\ hook \in [Sessions -> HookEvent \union {NoEvent}]
  BY <1>1, <1>2, <1>3
<1>5. TypeOK
  BY <1>1, <1>4 DEF TypeOK
<1>6. ASSUME NEW s \in Sessions
      PROVE  SessionInv(s) /\ Accounted(s) /\ states[s].updatedAt <= now
  <2>1. Known(s) = {} /\ rollout[s] = {} /\ hook[s] = NoEvent /\ codex[s] = Idle
    BY <1>1 DEF Known
  <2>2. 0 <= turns + goals
    BY <1>1
  <2>3. Dated(s)
    BY <1>2, <2>1, <2>2 DEF Dated, None
  <2>4. Attached(s) /\ NewTurnIsPrompted(s) /\ OpenTurnIsRecorded(s) /\ Accounted(s)
    BY <1>1, <1>2, <2>1 DEF Attached, NewTurnIsPrompted, OpenTurnIsRecorded, Accounted, Busy
  <2>5. states[s].updatedAt <= now
    BY <1>1, <1>3 DEF None
  <2>6. QED
    BY <2>3, <2>4, <2>5 DEF SessionInv
<1>7. RoundInv /\ CalmInv
  BY <1>1 DEF RoundInv, CalmInv
<1>8. QED
  BY <1>1, <1>5, <1>6, <1>7 DEF LifecycleInv, PhantomInv

\* A step of Codex or of a hook that keeps the sessions keeps the rounds.
LEMMA MoveKeepsRounds ==
  ASSUME LifecycleInv, TypeOK', Moves, UNCHANGED monitor, now' >= now, log \subseteq log',
         proc' # NoRoot => proc'.startedAt \in 1 .. now',
         \A s \in Sessions : SessionInv(s)',
         mpc # "processes" /\ openAll' # {} => proc' = proc,
         \A s \in Sessions : codex[s].phase = "open" /\ codex'[s].phase = "open" =>
           codex'[s].turn = codex[s].turn /\ Events(s)' = Events(s),
         \A s \in Sessions : Ordinary(setting) /\ Accounted(s) => Accounted(s)',
         \A s \in Sessions : Ordinary(setting) /\ ~Busy(codex, s) /\ ~Busy(codex', s) =>
           /\ rollout'[s] = rollout[s]
           /\ Known(s)' \subseteq Known(s)
           /\ setting.reuse => Known(s)' = Known(s)
  PROVE  LifecycleInv' /\ (PhantomInv => PhantomInv')
<1>1. TypeOK /\ RoundInv /\ states' = states /\ candidates' = candidates /\ setting' = setting
  BY MovesFacts DEF LifecycleInv, monitor
<1>2. RoundInv'
  BY <1>1, RoundIsKept
<1>3. now \in Nat /\ now' \in Nat
  BY DEF TypeOK, LifecycleInv
<1>4. \A k \in Nat : k <= now => k <= now'
  BY <1>3
<1>5. /\ \A s \in Sessions : states[s].updatedAt \in Nat
      /\ \A c \in candidates : c.updatedAt \in Nat
  BY <1>1 DEF TypeOK, FoldState, Candidate
<1>6. LifecycleInv'
  BY <1>1, <1>2, <1>4, <1>5 DEF LifecycleInv
<1>7. ASSUME PhantomInv, Ordinary(setting) PROVE PhantomInv'
  <2>1. CalmInv'
    BY <1>1, <1>7, CalmIsKept DEF PhantomInv
  <2>2. QED
    BY <1>1, <1>7, <2>1 DEF PhantomInv
<1>8. QED
  BY <1>1, <1>6, <1>7 DEF PhantomInv

LEMMA NextKeeps ==
  ASSUME LifecycleInv, [Next]_vars
  PROVE  LifecycleInv' /\ (PhantomInv => PhantomInv')
<1>1. /\ TypeOK /\ RoundInv /\ now \in Nat
      /\ proc # NoRoot => proc.startedAt \in 1 .. now
      /\ \A s \in Sessions : SessionInv(s) /\ Dated(s)
  BY DEF LifecycleInv, TypeOK, SessionInv
<1>2. ASSUME NEW s \in Sessions, CodexStep(s)
      PROVE  LifecycleInv' /\ (PhantomInv => PhantomInv')
  <2>1. Kept(s) /\ Advances(s)
    BY <1>1, <1>2, CodexStepKeeps DEF Kept
  <2>2. TypeOK' /\ proc' = proc /\ log' = log /\ now' >= now /\ now' \in Nat
    BY <2>1 DEF Advances, TypeOK
  <2>3. Moves /\ UNCHANGED monitor
    BY <1>2 DEF CodexStep, OpenSession, Submit, StartGoal, ResumeTurn, TaskStarted,
                Answer, Stop, Complete, Abort, StartTool, Ask, EndTool
  <2>4. \A r \in Sessions \ {s} : Spares(r) /\ SessionInv(r)'
    BY <1>1, <2>1, <2>2, SparedIsKept DEF Advances
  <2>5. \A r \in Sessions \ {s} : Events(r)' = Events(r)
    BY <2>4 DEF Spares, Events
  <2>6. \A r \in Sessions : SessionInv(r)'
    BY <2>1, <2>4 DEF Kept
  <2>7. proc' # NoRoot => proc'.startedAt \in 1 .. now'
    BY <1>1, <2>2
  <2>8. \A r \in Sessions : codex[r].phase = "open" /\ codex'[r].phase = "open" =>
          codex'[r].turn = codex[r].turn /\ Events(r)' = Events(r)
    BY <2>1, <2>4, <2>5 DEF Kept, Spares
  <2>9. \A r \in Sessions : Ordinary(setting) /\ Accounted(r) => Accounted(r)'
    BY <1>1, <2>1, <2>4, SparedIsAccounted DEF Kept
  <2>10. \A r \in Sessions : Ordinary(setting) /\ ~Busy(codex, r) /\ ~Busy(codex', r) =>
           /\ rollout'[r] = rollout[r]
           /\ Known(r)' \subseteq Known(r)
           /\ setting.reuse => Known(r)' = Known(r)
    BY <2>1, <2>4 DEF Kept, Spares, Ordinary
  <2>11. QED
    BY <2>2, <2>3, <2>6, <2>7, <2>8, <2>9, <2>10, MoveKeepsRounds
<1>3. ASSUME NEW s \in Sessions, HookEnds(s)
      PROVE  LifecycleInv' /\ (PhantomInv => PhantomInv')
  <2>1. /\ TypeOK' /\ UNCHANGED <<process, monitor>>
        /\ \A r \in Sessions : Spares(r) /\ Events(r)' = Events(r)
    BY <1>1, <1>3, HookEndsSpares
  <2>2. Moves /\ log \subseteq log'
    BY <1>3 DEF HookEnds
  <2>3. \A r \in Sessions : SessionInv(r)'
    BY <1>1, <2>1, SparedIsKept
  <2>4. \A r \in Sessions : Ordinary(setting) /\ Accounted(r) => Accounted(r)'
    BY <1>1, <2>1, SparedIsAccounted
  <2>5. /\ proc' = proc /\ now' = now /\ now' >= now
        /\ \A r \in Sessions : codex'[r].turn = codex[r].turn /\ rollout'[r] = rollout[r]
    BY <1>1, <2>1 DEF process
  <2>6. \A r \in Sessions : Ordinary(setting) =>
          /\ Known(r)' \subseteq Known(r)
          /\ setting.reuse => Known(r)' = Known(r)
    BY <2>1 DEF Spares, Ordinary
  <2>7. QED
    BY <1>1, <2>1, <2>2, <2>3, <2>4, <2>5, <2>6, MoveKeepsRounds
<1>4. ASSUME NEW p \in Pids, Launch(p)
      PROVE  LifecycleInv' /\ (PhantomInv => PhantomInv')
  <2>1. /\ TypeOK' /\ now' = now + 1 /\ proc'.startedAt = now' /\ proc' # NoRoot
        /\ \A s \in Sessions : /\ SessionInv(s)'
                               /\ Ordinary(setting) => Accounted(s)'
    BY <1>1, <1>4, LaunchKeeps
  <2>2. /\ Moves /\ proc = NoRoot /\ log' = log
        /\ UNCHANGED <<codex, rollout, hook, monitor, mpc>>
    BY <1>4 DEF Launch, hooks, monitor
  <2>3. mpc # "processes" => openAll' = {}
    BY <1>1, <2>2, MovesFacts DEF RoundInv
  <2>4. now' >= now /\ proc'.startedAt \in 1 .. now'
    BY <1>1, <2>1
  <2>5. /\ \A r \in Sessions : codex'[r].turn = codex[r].turn /\ Events(r)' = Events(r)
        /\ \A r \in Sessions : rollout'[r] = rollout[r] /\ Known(r)' = Known(r)
    BY <1>4, <2>2 DEF Launch, hooks, Known, Events
  <2>6. QED
    BY <2>1, <2>2, <2>3, <2>4, <2>5, MoveKeepsRounds
<1>5. CASE Kill
  <2>1. TypeOK' /\ proc' = NoRoot /\ \A s \in Sessions : SessionInv(s)' /\ Accounted(s)'
    BY <1>1, <1>5, KillKeeps
  <2>2. /\ Moves /\ now' = now /\ codex' = [s \in Sessions |-> Idle]
        /\ UNCHANGED <<rollout, hooks, monitor>>
    BY <1>5 DEF Kill
  <2>3. \A s \in Sessions : codex'[s].phase = "idle"
    BY <2>2 DEF Idle
  <2>4. mpc # "processes" => openAll' = {}
    BY <2>3, <1>1, MovesFacts, <2>2 DEF TypeOK
  <2>5. /\ now' >= now /\ log' = log
        /\ \A r \in Sessions : rollout'[r] = rollout[r] /\ Known(r)' = Known(r)
    BY <1>1, <2>2 DEF hooks, Known
  <2>6. QED
    BY <2>1, <2>2, <2>3, <2>4, <2>5, MoveKeepsRounds
<1>6. ASSUME UNCHANGED <<process, hooks>>, TypeOK', RoundInv', PhantomInv => PhantomInv',
             \A s \in Sessions : states'[s].updatedAt <= now',
             \A c \in candidates' : c.updatedAt <= now'
      PROVE  LifecycleInv' /\ (PhantomInv => PhantomInv')
  <2>1. \A s \in Sessions : SessionInv(s)'
    BY <1>1, <1>6, ReadingSpares, SparedIsKept
  <2>2. proc' # NoRoot => proc'.startedAt \in 1 .. now'
    BY <1>1, <1>6 DEF process
  <2>3. QED
    BY <1>6, <2>1, <2>2 DEF LifecycleInv
<1>7. now' = now => /\ states' = states => \A s \in Sessions : states'[s].updatedAt <= now'
                    /\ candidates' = candidates => \A c \in candidates' : c.updatedAt <= now'
  BY DEF LifecycleInv
<1>8. CASE ReadProcesses
  <2>1. UNCHANGED <<process, hooks, states, candidates>> /\ now' = now
    BY <1>8 DEF ReadProcesses, process
  <2>2. QED
    BY <1>6, <1>7, <1>8, <2>1, ReadProcessesKeeps
<1>9. CASE LoadLog
  <2>1. UNCHANGED <<process, hooks, candidates>> /\ now' = now
    BY <1>9 DEF LoadLog, process
  <2>2. QED
    BY <1>6, <1>7, <1>9, <2>1, LoadLogKeeps
<1>10. CASE ScanNamedFiles
  <2>1. UNCHANGED <<process, hooks, states>> /\ now' = now
    BY <1>10 DEF ScanNamedFiles, process
  <2>2. QED
    BY <1>6, <1>7, <1>10, <2>1, ScanNamedFilesKeeps
<1>11. CASE ScanHeldFiles
  <2>1. UNCHANGED <<process, hooks>>
    BY <1>11 DEF ScanHeldFiles
  <2>2. QED
    BY <1>6, <1>11, <2>1, ScanHeldFilesKeeps
<1>12. CASE UNCHANGED vars
  <2>1. UNCHANGED <<process, hooks, monitor, history>> /\ now' = now
    BY <1>12 DEF vars, process
  <2>2. TypeOK'
    BY <1>1, <2>1 DEF TypeOK, process, hooks, monitor, history
  <2>3. \A s \in Sessions : Events(s)' = Events(s)
    BY <2>1 DEF Events, process
  <2>4. RoundInv'
    BY <1>1, <2>1, <2>3 DEF RoundInv, OnTurn, Outdated, Displayable, process, monitor, history,
                            TypeOK
  <2>5. PhantomInv => PhantomInv'
    <3>1. \A s \in Sessions : Known(s)' = Known(s)
      BY <2>1 DEF Known, hooks
    <3>2. CalmInv => CalmInv'
      <4>1. ASSUME NEW s \in Sessions, Told(s, root), Announced(s, root)
            PROVE  Told(s, root)' /\ Announced(s, root)'
        <5>1. PICK q : q = root
          OBVIOUS
        <5>2. Told(s, q)' /\ Announced(s, q)'
          BY <2>1, <3>1, <4>1, <5>1, TracesAreKept DEF process, hooks
        <5>3. QED
          BY <2>1, <5>1, <5>2 DEF monitor
      <4>2. ASSUME NEW s \in Sessions, Over(s) PROVE Over(s)'
        BY <2>1, <2>3, <4>2 DEF Over, TurnEnded, process, monitor
      <4>3. QED
        BY <2>1, <4>1, <4>2 DEF CalmInv, Displayable, Busy, process, monitor, history
    <3>3. QED
      BY <1>1, <2>1, <3>2, ReadingSpares, SparedIsAccounted DEF PhantomInv, process
  <2>6. QED
    BY <1>6, <1>7, <2>1, <2>2, <2>4, <2>5 DEF monitor
<1>13. QED
  BY <1>2, <1>3, <1>4, <1>5, <1>8, <1>9, <1>10, <1>11, <1>12 DEF Next, Monitor

\* What a round knows of Codex holds whatever happens between its reads: an open
\* turn is recorded in its file, and the fold is of it or older than the record.
THEOREM LifecycleInvariant == Spec => []LifecycleInv
<1>1. Init => LifecycleInv
  BY Beginning
<1>2. LifecycleInv /\ [Next]_vars => LifecycleInv'
  BY NextKeeps
<1>3. QED
  BY <1>1, <1>2, PTL DEF Spec

\* A turn that stays open during a whole round is displayed as open: nothing
\* that is lost, read late or done in another session hides it.
THEOREM NoTurnIsHidden == Spec => NoHiddenTurn
<1>1. ASSUME LifecycleInv, [Next]_vars, RoundEnds, openAll # {}
      PROVE  display' \in OpenStatuses
  <2>1. /\ TypeOK /\ RoundInv /\ mpc = "held" /\ \A s \in Sessions : SessionInv(s) /\ Dated(s)
        /\ \A c \in candidates : c.updatedAt <= now
    BY <1>1 DEF LifecycleInv, RoundEnds, SessionInv
  <2>2. ScanHeldFiles
    BY <1>1, <2>1
    DEF Next, Monitor, vars, monitor, RoundEnds, CodexStep, OpenSession, Submit, StartGoal,
        ResumeTurn, TaskStarted, Answer, Stop, Complete, Abort, StartTool, Ask, EndTool,
        HookEnds, Launch, Kill, ReadProcesses, LoadLog, ScanNamedFiles
  <2> DEFINE all == candidates \union FileCandidates
  <2>3. /\ all \in SUBSET Candidate /\ now \in Nat /\ \A c \in all : c.updatedAt <= now
        /\ display' = IF all = {} THEN "none" ELSE Selected(all)
    BY <2>1, <2>2, FileCandidateFacts DEF TypeOK, ScanHeldFiles
  <2>4. \E c \in all : c.status \in OpenStatuses
    <3>1. PICK s \in openAll : s \in Sessions /\ codex[s].phase = "open" /\ proc = root
      BY <1>1, <2>1 DEF RoundInv, TypeOK
    <3>2. CASE Displayable(s) /\ OnTurn(s)
      BY <2>1, <3>1, <3>2 DEF RoundInv
    <3>3. CASE Displayable(s) => Outdated(s)
      <4> DEFINE e == LastOf(Events(s))
      <4>1. /\ Active(e) /\ proc # NoRoot /\ s \in held
            /\ e.at >= proc.startedAt \/ setting.tmux
        BY <2>1, <3>1
        DEF SessionInv, OpenTurnIsRecorded, BegunBy, ResumedFrom, Attached, Busy
      <4>2. Dated(s) /\ e # NoEvent /\ ~Terminal(e)
        BY <2>1, <3>1, <4>1 DEF Active, Terminal
      <4>3. Events(s) # {} /\ e \in Events(s)
        BY <2>1, <3>1, <4>2, EventFacts
      <4>4. e.at \in 1 .. now
        BY <2>1, <3>1, <4>2, <4>3, EventFacts
      <4>5. TurnStart(Events(s), e) = e.at /\ e.at # None
        BY <2>3, <4>1, <4>4 DEF TurnStart, None
      <4>6. Displayable(s) =>
              /\ e.turn # None => e.turn \notin {states[s].turn, states[s].stoppedTurn}
              /\ e.at > states[s].updatedAt
        <5>1. states[s].updatedAt \in Nat /\ e.at \in Nat
          BY <2>1, <3>1, <2>3, <4>4 DEF TypeOK, FoldState
        <5>2. QED
          BY <3>3, <5>1 DEF Outdated
      <4>7. IsNewLifecycle(s, Events(s))
        BY <3>1, <4>1, <4>2, <4>5, <4>6 DEF IsNewLifecycle
      <4>8. FileStatus(e) = "running"
        BY <4>1 DEF FileStatus
      <4>9. [status |-> FileStatus(e), updatedAt |-> e.at] \in FileCandidates
        BY <3>1, <4>1, <4>3, <4>7 DEF FileCandidates
      <4>10. QED
        BY <4>8, <4>9 DEF OpenStatuses
    <3>4. QED
      BY <2>1, <3>1, <3>2, <3>3 DEF RoundInv
  <2> HIDE DEF all
  <2>5. all # {}
    BY <2>4
  <2>6. QED
    BY <2>3, <2>4, <2>5, SelectedFacts
<1>2. LifecycleInv /\ [Next]_vars =>
        [RoundEnds /\ openAll # {} => display' \in OpenStatuses]_vars
  BY <1>1
<1>3. QED
  BY <1>2, LifecycleInvariant, PTL DEF Spec, NoHiddenTurn

\* On a host whose pids come back only if every turn is hooked, a round during
\* which no turn is open displays none, whatever was left behind in the log and
\* in the files by turns that were aborted, killed or lost.
THEOREM NoPhantoms ==
  ASSUME \A x \in Settings : Ordinary(x)
  PROVE  Spec => NoPhantomTurn
<1>1. ASSUME LifecycleInv, PhantomInv, [Next]_vars, RoundEnds, display' \in OpenStatuses,
             ~openSome
      PROVE  setting.tmux /\ \E s \in Sessions : Active(LastOf(Events(s)))
  <2>1. /\ TypeOK /\ mpc = "held" /\ \A s \in Sessions : SessionInv(s) /\ Dated(s)
        /\ root # NoRoot
        /\ \A c \in candidates : c.updatedAt <= now
    BY <1>1 DEF LifecycleInv, RoundEnds, SessionInv, RoundInv
  <2>2. ScanHeldFiles
    BY <1>1, <2>1
    DEF Next, Monitor, vars, monitor, RoundEnds, CodexStep, OpenSession, Submit, StartGoal,
        ResumeTurn, TaskStarted, Answer, Stop, Complete, Abort, StartTool, Ask, EndTool,
        HookEnds, Launch, Kill, ReadProcesses, LoadLog, ScanNamedFiles
  <2> DEFINE all == candidates \union FileCandidates
  <2>3. /\ all \in SUBSET Candidate /\ now \in Nat /\ \A c \in all : c.updatedAt <= now
        /\ display' = IF all = {} THEN "none" ELSE Selected(all)
    BY <2>1, <2>2, FileCandidateFacts DEF TypeOK, ScanHeldFiles
  <2>4. CalmInv
    BY <2>1, <1>1 DEF PhantomInv, TypeOK
  <2>5. /\ \A s \in Sessions : Told(s, root)
        /\ \A c \in candidates : c.status \notin OpenStatuses
    BY <1>1, <2>1, <2>4 DEF CalmInv
  <2>6. PICK c \in all : c.status \in OpenStatuses
    <3> HIDE DEF all
    <3>1. all # {}
      BY <1>1, <2>3 DEF OpenStatuses
    <3>2. QED
      BY <1>1, <2>3, <3>1, SelectedFacts
  <2>7. PICK s \in held : /\ Events(s) # {} /\ IsNewLifecycle(s, Events(s))
                          /\ c.status = FileStatus(LastOf(Events(s)))
    BY <2>5, <2>6 DEF FileCandidates
  <2> DEFINE e == LastOf(Events(s))
  <2>8. s \in Sessions /\ Active(e) /\ ~Terminal(e)
    BY <2>1, <2>6, <2>7 DEF TypeOK, FileStatus, OpenStatuses, Active, Terminal
  <2>9. setting.tmux
    <3>1. SUFFICES ASSUME ~setting.tmux PROVE FALSE
      OBVIOUS
    <3>2. TurnStart(Events(s), e) = e.at
      BY <2>8 DEF TurnStart
    <3>3. e.at >= root.startedAt
      BY <2>7, <2>8, <3>1, <3>2 DEF IsNewLifecycle
    <3>4. e.at < root.startedAt
      BY <2>5, <2>8 DEF Told
    <3>5. e.at \in Nat /\ root.startedAt \in Nat
      BY <2>1, <2>7, <2>8, EventFacts DEF TypeOK, CodexProcess
    <3>6. QED
      BY <3>3, <3>4, <3>5
  <2>10. QED
    BY <2>8, <2>9
<1>2. LifecycleInv /\ PhantomInv /\ [Next]_vars =>
        [RoundEnds /\ display' \in OpenStatuses
           => \/ openSome
              \/ setting.tmux /\ \E s \in Sessions : Active(LastOf(Events(s)))]_vars
  BY <1>1
<1>3. Spec => [](LifecycleInv /\ PhantomInv)
  <2>1. Init => LifecycleInv /\ PhantomInv
    BY Beginning
  <2>2. LifecycleInv /\ PhantomInv /\ [Next]_vars => (LifecycleInv /\ PhantomInv)'
    BY NextKeeps
  <2>3. QED
    BY <2>1, <2>2, PTL DEF Spec
<1>4. QED
  BY <1>2, <1>3, PTL DEF Spec, NoPhantomTurn

=============================================================================
