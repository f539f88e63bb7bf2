--------------------------- MODULE SharedSessions ---------------------------
(***************************************************************************)
(* Codex terminals of one directory that share a managed app-server.       *)
(*                                                                         *)
(* The terminals (external) attach to sessions, run turns in them, detach  *)
(* and exit.  The app-server's rollout files and hooks name no terminal:   *)
(* what is left of an attachment is the date of the session's writer lock, *)
(* and the monitor allocates the sessions to the live terminals by these   *)
(* dates.  The allocation is a function of what one discovery round reads, *)
(* here taken as one snapshot.  Definitions named Bug... are wrong         *)
(* variants of the definition after them, used only as mutants.            *)
(*                                                                         *)
(* Times are positive integers, 0 stands for None, and no two processes    *)
(* start and no two sessions are dated at the same time.                   *)
(***************************************************************************)
EXTENDS Integers, FiniteSets

CONSTANTS
  Terminals,  \* Codex processes of the directory
  Sessions,   \* sessions of the shared app-server in this directory
  Grace,      \* SHARED_SESSION_REFERENCE_GRACE_SECONDS
  MaxClock,   \* bound on the clock
  NoTerminal

None == 0

ASSUME SharedAssumption ==
  /\ Grace \in Nat
  /\ MaxClock \in Nat
  /\ NoTerminal \notin Terminals
  /\ IsFiniteSet(Terminals) /\ IsFiniteSet(Sessions)

VARIABLES
  now,
  startedAt,  \* terminal -> start time, None when it is not running
  createdAt,  \* session -> creation time, None before
  attachedAt, \* session -> date of its writer lock, None without one
  worked,     \* sessions with a lifecycle event, in a hook state or file
  openTurn,   \* session -> is its lifecycle open?
  driver      \* session -> the terminal really attached to it

sharedVars == <<now, startedAt, createdAt, attachedAt, worked, openTurn, driver>>

SharedInit ==
  /\ now = 0
  /\ startedAt = [p \in Terminals |-> None]
  /\ createdAt = [s \in Sessions |-> None]
  /\ attachedAt = [s \in Sessions |-> None]
  /\ worked = {}
  /\ openTurn = [s \in Sessions |-> FALSE]
  /\ driver = [s \in Sessions |-> NoTerminal]

-----------------------------------------------------------------------------
(* The terminals                                                           *)

Live(p) == startedAt[p] # None

Drives(p, s) == driver[s] = p

Tick == now < MaxClock /\ now' = now + 1

Launch(p) ==
  /\ ~Live(p)
  /\ Tick
  /\ startedAt' = [startedAt EXCEPT ![p] = now + 1]
  /\ UNCHANGED <<createdAt, attachedAt, worked, openTurn, driver>>

\* The terminal leaves whatever session it was attached to, and its lock goes.
Left(p) == {s \in Sessions : Drives(p, s)}

LockDates(s, p) ==
  [r \in Sessions |->
     IF r = s THEN now + 1 ELSE IF r \in Left(p) THEN None ELSE attachedAt[r]]

Drivers(s, p) ==
  [r \in Sessions |-> IF r = s THEN p ELSE IF r \in Left(p) THEN NoTerminal ELSE driver[r]]

Attach(p, s) ==
  /\ Live(p) /\ driver[s] = NoTerminal
  /\ \A r \in Left(p) : ~openTurn[r]
  /\ Tick
  /\ createdAt' = [createdAt EXCEPT ![s] = IF @ = None THEN now + 1 ELSE @]
  /\ attachedAt' = LockDates(s, p)
  /\ driver' = Drivers(s, p)
  /\ UNCHANGED <<startedAt, worked, openTurn>>

StartTurn(s) ==
  /\ driver[s] # NoTerminal /\ ~openTurn[s]
  /\ openTurn' = [openTurn EXCEPT ![s] = TRUE]
  /\ worked' = worked \union {s}
  /\ UNCHANGED <<now, startedAt, createdAt, attachedAt, driver>>

EndTurn(s) ==
  /\ openTurn[s]
  /\ openTurn' = [openTurn EXCEPT ![s] = FALSE]
  /\ UNCHANGED <<now, worked, startedAt, createdAt, attachedAt, driver>>

\* Codex interrupts the turn of a terminal that exits.
Exit(p) ==
  /\ Live(p)
  /\ startedAt' = [startedAt EXCEPT ![p] = None]
  /\ attachedAt' = [s \in Sessions |-> IF Drives(p, s) THEN None ELSE attachedAt[s]]
  /\ openTurn' = [s \in Sessions |-> openTurn[s] /\ ~Drives(p, s)]
  /\ driver' = [s \in Sessions |-> IF Drives(p, s) THEN NoTerminal ELSE driver[s]]
  /\ UNCHANGED <<now, createdAt, worked>>

SharedNext ==
  \/ \E p \in Terminals : Launch(p) \/ Exit(p) \/ \E s \in Sessions : Attach(p, s)
  \/ \E s \in Sessions : StartTurn(s) \/ EndTurn(s)

SharedSpec == SharedInit /\ [][SharedNext]_sharedVars

-----------------------------------------------------------------------------
(* The monitor                                                             *)

ReferenceAt(s) == IF attachedAt[s] # None THEN attachedAt[s] ELSE createdAt[s]

\* Sessions with a reference date, from the newest to the oldest: the rank of
\* a session is the number of sessions up to it in that order.
Records == {s \in worked : ReferenceAt(s) # None}
Rank(s) == Cardinality({r \in Records : ReferenceAt(r) >= ReferenceAt(s)})

Roots == {p \in Terminals : Live(p)}

\* Terminals that were running when the session was last attached or created.
Eligible(s) == {p \in Roots : startedAt[p] <= ReferenceAt(s) + Grace}

Newest(P) == CHOOSE p \in P : \A q \in P : startedAt[q] <= startedAt[p]

Preferring(P, Q) == IF P \intersect Q # {} THEN P \intersect Q ELSE P

\* Which of the eligible terminals gets a session, when some have sessions
\* already (claimed) and some of these an open turn (busy).
BugOwnerNewest(P, open, claimed, busy) == Newest(P)

OwnerAmong(P, open, claimed, busy) ==
  Newest(Preferring(IF open THEN Preferring(P, Roots \ busy) ELSE P, Roots \ claimed))

\* One round of the loop: what the sessions before this one were given decides.
AllocatedNext(owners, s) ==
  LET claimed == {owners[r] : r \in Sessions}
      busy    == {owners[r] : r \in {r \in Sessions : openTurn[r]}}
  IN  IF Eligible(s) = {} THEN owners
      ELSE [owners EXCEPT ![s] = OwnerAmong(Eligible(s), openTurn[s], claimed, busy)]

\* _allocate_shared_sessions: Allocated[n] are the owners of the n newest.
RecordAt(n) == CHOOSE s \in Records : Rank(s) = n

Allocation ==
  LET Allocated[n \in 0 .. Cardinality(Records)] ==
        IF n = 0 THEN [s \in Sessions |-> NoTerminal]
        ELSE AllocatedNext(Allocated[n - 1], RecordAt(n))
  IN  Allocated[Cardinality(Records)]

\* _shared_lifecycle_sources_for_roots: a lone terminal owns every session.
SessionsOf(p) ==
  IF Roots = {p} THEN Records ELSE {s \in Sessions : Allocation[s] = p}

-----------------------------------------------------------------------------
InTurn(s) == driver[s] # NoTerminal /\ openTurn[s]

\* When every terminal of the directory has worked in the session it is
\* attached to, each has a row: the newest-first order starves none.
EveryDriverHasARow ==
  (\A p \in Roots : Left(p) \intersect worked # {}) =>
    \A p \in Roots : SessionsOf(p) # {}

\* A terminal runs one turn at a time, so the open turns are shown on as many
\* rows as there are when none hides behind another.
OpenTurnsSpread ==
  Cardinality({p \in Roots : \E s \in SessionsOf(p) : openTurn[s]})
    = Cardinality({s \in Sessions : InTurn(s)})

\* They are as long as no session is left behind by a terminal that has exited
\* or moved on: such a session takes a row of its own, and two open turns may
\* then share one.
AttendedTurnsSpread ==
  (\A s \in worked : driver[s] # NoTerminal) => OpenTurnsSpread

=============================================================================
