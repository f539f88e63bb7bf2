---------------------------- MODULE OpenCodeScan ----------------------------
(* Reading the turns of OpenCode from its database (opencode_state.py):     *)
(* separate queries, no transaction around them, while OpenCode commits,    *)
(* and a cache of what they found under a signature of the files that was   *)
(* taken before.  A time is the number of the commit that wrote it.         *)
EXTENDS Naturals, FiniteSets

CONSTANTS
  Chats,        \* ids of session rows
  MaxCommits,   \* bound: commits of OpenCode
  NoCache       \* the database was not read yet

ASSUME ScanAssumption == MaxCommits \in Nat

VARIABLES
  commits,    \* counted by the change counter and the files' stat together
  database,   \* per chat: what its session, message and part rows hold
  turn,       \* per chat: how its last turn goes, as OpenCode knows it
  reading,    \* the scan in progress
  cached      \* _STATE_CACHE

scanVars == <<commits, database, turn, reading, cached>>

Continues == {"none", "tool-calls", "unknown"}
Finishes == Continues \union {"stop", "length"}
Roles == {"user", "assistant"}

NoStep == [created |-> 0, completed |-> FALSE, finish |-> "none", failed |-> FALSE]
NoScan ==
  [step |-> "idle", signature |-> 0, ids |-> {}, left |-> {},
   user |-> [s \in Chats |-> 0], assistant |-> [s \in Chats |-> NoStep],
   tool |-> [s \in Chats |-> FALSE]]

\* _build_state: the step of the latest assistant message, unless a prompt came
\* after it, and whether a tool of it runs.
StatusOf(user, step, tool) ==
  IF \/ step.created = 0
     \/ user > step.created
     \/ ~step.completed
     \/ ~step.failed /\ (tool \/ step.finish \in Continues)
  THEN "running"
  ELSE IF step.failed \/ step.finish # "stop" THEN "failure" ELSE "success"

-----------------------------------------------------------------------------
ScanInit ==
  /\ commits = 0
  /\ database = [s \in Chats |-> [recorded |-> FALSE, user |-> 0, assistant |-> NoStep,
                                  tool |-> FALSE]]
  /\ turn = [s \in Chats |-> "running"]
  /\ reading = NoScan
  /\ cached = NoCache

\* OpenCode commits a change of one chat.
Commits(s, row, state) ==
  /\ commits < MaxCommits
  /\ commits' = commits + 1
  /\ database' = [database EXCEPT ![s] = row]
  /\ turn' = [turn EXCEPT ![s] = state]
  /\ UNCHANGED <<reading, cached>>

ChatCreated(s) ==
  /\ ~database[s].recorded
  /\ Commits(s, [database[s] EXCEPT !.recorded = TRUE], "running")

\* A prompt opens a turn, also while the last step of another is not completed.
UserAsks(s) ==
  /\ database[s].recorded
  /\ Commits(s, [database[s] EXCEPT !.user = commits + 1], "running")

\* The next model step is a new message; an orphaned tool of an older one stays
\* behind with it.
StepStarts(s) ==
  /\ database[s].recorded /\ turn[s] = "running"
  /\ Commits(s, [database[s] EXCEPT !.assistant = [NoStep EXCEPT !.created = commits + 1],
                                    !.tool = FALSE], "running")

IsInStep(s) ==
  /\ database[s].assistant.created > 0
  /\ database[s].assistant.created > database[s].user
  /\ turn[s] = "running"

ToolRuns(s, running) ==
  /\ IsInStep(s)
  /\ Commits(s, [database[s] EXCEPT !.tool = running], "running")

\* A step ends its turn when it failed or says that it is the last one, which
\* it does not while its tool runs.
StepCompletes(s, finish, failed) ==
  /\ IsInStep(s)
  /\ database[s].tool => failed \/ finish \in Continues
  /\ Commits(s, [database[s] EXCEPT !.assistant.completed = TRUE, !.assistant.finish = finish,
                                    !.assistant.failed = failed],
             IF failed THEN "failure"
             ELSE IF finish \in Continues THEN "running"
             ELSE IF finish = "stop" THEN "success" ELSE "failure")

-----------------------------------------------------------------------------
\* _db_signature: with the write-ahead log and the change counter it changes
\* with every commit.
BugSignature == commits \div 2
Signature == commits

SignatureTaken ==
  /\ reading.step = "idle"
  /\ cached # NoCache => cached.signature # Signature
  /\ reading' = [NoScan EXCEPT !.step = "sessions", !.signature = Signature]
  /\ UNCHANGED <<commits, database, turn, cached>>

SessionsQueried ==
  /\ reading.step = "sessions"
  /\ LET ids == {s \in Chats : database[s].recorded}
     IN  reading' = [reading EXCEPT !.step = "messages", !.ids = ids, !.left = ids \X Roles]
  /\ UNCHANGED <<commits, database, turn, cached>>

\* The latest message of one role of one chat per query, in any order.
MessageQueried(s, role) ==
  /\ reading.step = "messages"
  /\ <<s, role>> \in reading.left
  /\ reading' = IF role = "user"
                THEN [reading EXCEPT !.left = @ \ {<<s, role>>}, !.user[s] = database[s].user]
                ELSE [reading EXCEPT !.left = @ \ {<<s, role>>},
                                     !.assistant[s] = database[s].assistant]
  /\ UNCHANGED <<commits, database, turn, cached>>

\* Only tools of the messages found before count.
ToolsQueried ==
  /\ reading.step = "messages" /\ reading.left = {}
  /\ reading' = [reading EXCEPT !.step = "built", !.tool =
       [s \in Chats |-> /\ s \in reading.ids
                        /\ reading.assistant[s].created = database[s].assistant.created
                        /\ database[s].tool]]
  /\ UNCHANGED <<commits, database, turn, cached>>

Remembered(found, ids, status) ==
  /\ cached' = [signature |-> reading.signature, found |-> found, ids |-> ids, status |-> status]
  /\ reading' = NoScan
  /\ UNCHANGED <<commits, database, turn>>

StatesBuilt ==
  /\ reading.step = "built"
  /\ Remembered(TRUE, reading.ids,
       [s \in Chats |-> StatusOf(reading.user[s], reading.assistant[s], reading.tool[s])])

\* An error of any query leaves no states, which is cached like an answer.
QueryFails ==
  /\ reading.step \in {"sessions", "messages"}
  /\ Remembered(FALSE, {}, [s \in Chats |-> "running"])

ScanWrites ==
  \E s \in Chats :
    \/ ChatCreated(s) \/ UserAsks(s) \/ StepStarts(s)
    \/ \E running \in BOOLEAN : ToolRuns(s, running)
    \/ \E finish \in Finishes, failed \in BOOLEAN : StepCompletes(s, finish, failed)
ScanReads ==
  \/ SignatureTaken \/ SessionsQueried \/ ToolsQueried \/ StatesBuilt \/ QueryFails
  \/ \E s \in Chats, role \in Roles : MessageQueried(s, role)
ScanNext == ScanWrites \/ ScanReads
ScanSpec == ScanInit /\ [][ScanNext]_scanVars

-----------------------------------------------------------------------------
\* What the cache would answer now, under the present signature, is the truth
\* of every chat, though the queries saw different moments of the database: a
\* mixture of two moments never outlives the scan that built it.  (Or it is the
\* empty answer of a failed query.)
CacheIsTrue ==
  cached # NoCache /\ cached.signature = Signature /\ cached.found =>
    /\ cached.ids = {s \in Chats : database[s].recorded}
    /\ \A s \in cached.ids : cached.status[s] = turn[s]
=============================================================================
