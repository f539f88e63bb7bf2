# A verification of codex-cli-monitor

The monitor watches the coding CLIs (Codex, Claude Code, OpenCode, Qoder) that
run on one or several Linux servers and shows, for each, whether it is running
(运行中), waiting for a decision (待确认), successful (成功) or failed (失败).
Nothing tells it so directly: it infers the status from short-lived hook
processes that log events, from rollout files the CLIs write, from `/proc`, and
from the dates of lock files, all of which change while they are read.  This
directory holds TLA+ modules of the parts where that is hard, TLC runs that
check them on small instances, and TLAPS proofs for every instance.

Paths without a directory are under `src/src/codex_cli_monitor/`.

Contents: 1 the system, 2 the modules, 3 the runs, 4 fairness, 5 the proofs,
6 disagreements found, 7 abstractions and limits, 8 what is not modelled,
9 the plan, 10 how to run it.

## 1. The system

### Components

| component | source | state | operations |
|---|---|---|---|
| hook event log | `hook_state.py`, `opencode_hook_state.py`, `hooks.py` | live file, two rotated generations, lock file, load cache of the monitor | append (lock, rotate, write), cached load |
| hook state fold | `hook_state.py:314-431` | per (pid, session): current turn, pending question, running tools, last stop | one update per event kind |
| rollout reader | `terminal_state.py` | per file: offset, carry, recent lifecycle events | windowed scan, incremental tail, match with a hook turn |
| discovery and display | `monitor.py` | nothing beyond one round | `discover_sessions`: processes, hook states, named files, held files, selection |
| shared app-server allocation | `monitor.py:1183-1293` | nothing beyond one round | sessions by lock date to terminals by start date |
| local provider | `api.py:77-108` | sessions, age | `get` |
| WebSocket push | `websocket_sync.py`, `api.py:427-577` | client registry, pending-sync set, last hash, a queue per client | upgrade handler, register, unregister, broadcast, send and receive loops |
| collector push | `collector.py` | health counters, time of the last attempt, inotify watch | `post_once`, event-driven loop, polling loop |
| snapshot store | `aggregation.py`, `api.py:347-403` | server id -> snapshot and time of receipt | `ingest`, `active` |
| REST interface | `api.py`, `web.py` | none | serialise provider and store |
| OpenCode discovery | `opencode_state.py`, `opencode_decisions.py`, `monitor.py:424-724`, the plugin `assets/opencode/codex-monitor-decisions.js` | scan cache under a signature of the database, decision log | scan, bind processes to conversations, relabel rows that wait |
| Claude discovery | `claude_state.py` | transcript cache, latch of the sessions with work | registration, proof of work, outcome |
| Qoder discovery | `qoder_state.py` | per segment: offset, carry, state of the turn | incremental read, fold |
| process discovery | `procfs.py`, `classify.py`, `models.py` | none | parse `/proc`, classify |
| Web panel | `web_assets/client.mjs`, `dashboard.js` | instance id, age of the view, socket | poll, socket, expiry |
| Windows widget | `windows/CodexMonitorWidget/src/` | connection generation, view | fetch threads, WebSocket thread |
| service control | `cli.py` | pid file | serve, start, stop, status |
| installers | `install_*.py` | configuration files of the CLIs | read, modify, replace |
| launch shim | `shim.py` | none | log one record, exec |

### How they interact

A CLI runs a hook process per event and waits for it; the hook appends one line
to the log and exits.  Any thread of the server that needs the sessions asks the
provider, which answers from its cache for 50 ms and otherwise runs a discovery
round under its lock.  The round reads the process table, then the log (through
the load cache), then the rollout files.  Three kinds of threads ask: REST
handlers, WebSocket handlers (for the initial frame) and the broadcast thread
(every round).  A collector server has a fourth, its pusher, whose POST makes a
handler thread of the aggregator replace the entry of that server in the store;
all frames and answers combine the local sessions with the entries younger than
30 s.  Clients combine REST polling and WebSocket frames.

### Where it is hard, and what makes it correct

* **Hook processes run concurrently and may be killed at any call**, with 15 ms
  to get the lock; readers take no lock.  The newest events must survive
  rotations, disk use must stay bounded, no hook may hang because another does,
  and a load that raced with a rotation must not stay in the cache.
* **A round reads four sources at four moments** while Codex goes on; events get
  lost, pids are reused, turns abort without a hook, resume without a prompt.
  A round must not show a turn that is not open, nor hide one that is.
* **Nothing names the terminal of a shared session**: allocation by dates must
  give every terminal its row and show two open turns on two rows.
* **A client registers in the middle of a broadcast round** and the hash says
  "nothing changed": it must still come to the current state, in order, and leave
  no trace when it goes.
* **The readers of foreign files** remember where they stopped, or what they found
  under a signature, while the program appends, commits, truncates or replaces.
  No record may be lost or read twice, and no mixture of two moments may stay.
* **OpenCode and Claude processes are recognised by traces** that outlive them: a
  registration named by a pid, a marker of a prompt, an open turn in a database.
  What a dead process left must not be shown as another's.
* **The configuration files belong to the user** and two installers or the user may
  write them at once; a killed installer must leave them whole.
* **The pid file has no lock** and killed servers leave it behind: the server that
  runs must remain the one that it names.
* **A push may be debounced, refused, time out or arrive late**, and either side
  may restart: attempts must stay spaced, the view must converge and a server
  that stopped must leave it.

`PROJECT.json` lists the hazards one by one, at the line where each bites, with
the properties that cover it.

## 2. The modules

| module | models | composes |
|---|---|---|
| `HookLog` | append, rotation and cached load of the hook log, each system call a step | |
| `BoundedLog` | abstract: newest events are never evicted | refined by `HookLog` |
| `HookState` | `summarize_hook_events` for one (pid, session) | |
| `CodexLifecycle` | Codex (external), its hooks, its rollout files, a discovery round, the displayed status | EXTENDS `HookState` |
| `SharedSessions` | terminals of a shared app-server (external) and the allocation to them | |
| `WsBroadcast` | provider cache, WebSocket handlers, send threads, broadcast thread | |
| `StatusBoard` | abstract: each watcher is shown the world, eventually the current one | refined by `WsBroadcast` |
| `SnapshotPush` | pusher thread, POST, handler on the aggregator, snapshot store | |
| `WebClient` | the Web panel: polls, answers, socket, expiry, page events; the server as it can notice it | |
| `TailReader` | the incremental reading of a rollout file | |
| `QoderSession` | a Qoder process, the reading of its segments, the fold to a status | |
| `OpenCodeScan` | the scan of OpenCode's database and its cache | |
| `OpenCodeRows` | OpenCode processes, conversations and prompts; binding and decision markers | |
| `ClaudeSession` | a Claude process, its two files, a refresh | |
| `HookInstaller` | two installers and the user on a configuration | |
| `MonitorService` | `--serve`, `--daemon`, `--stop` and the pid file | |
| `MCReaders` | `TailReader`, `QoderSession`, `OpenCodeScan`, `OpenCodeRows` side by side | EXTENDS the four |
| `MCHost` | `ClaudeSession`, `HookInstaller`, `MonitorService`, `SharedSessions` side by side | EXTENDS the four |
| other `MC...` | values of the constants for TLC | EXTENDS its module |
| `HookLog_proofs`, `WsBroadcast_proofs`, `SnapshotPush_proofs`, `WebClient_proofs`, `CodexLifecycle_proofs` | the theorems of one module | EXTENDS it |
| `Readers_proofs`, `Host_proofs` | the theorems of the four readers; of the four parts of `MCHost` | EXTENDS them |
| `RecursionLemmas` | what the proofs need of recursive functions, folds and finite sets | |

Definitions whose name begins with `Bug` are wrong variants of the definition
after them, such as a plausible slip in that code: each property of a passing
run has one that breaks it.  They take no part in any specification.

### HookLog

`gen` maps the three generation names to inodes, `files` holds the events of an
inode; events are numbered in the order they are written.  A hook goes
`Start`, `Acquire` or `LockTimeout` (the 15 ms are over: the event is dropped),
`StatLog` (size check), `UnlinkOldest`, `ExistsCheck`, `Replace` or
`ReplaceFails` for each of the two shifts, `OpenLog`, `WriteEvent`, `Unlock`;
`Fail` kills it or fails its call at any of these.  A reader goes `ListFile`,
`StatFile` per file (the signature), `LoadFromCache` or `CacheMiss` followed by
`ReadFile` per file, `LoadEnd` (which stores the entry under the signature taken
*before* the reads).  `lock` is `NoHook` when free and `NoLock` for the OpenCode
log, which opens and unlocks its lock file and never locks it.

### HookState and CodexLifecycle

`HookState` has one operator per event: `OnPrompt`, `OnPermission`, `OnPreTool`,
`OnPostTool`, `OnStop`; `Summary` folds the events of one session in the order of
their times.  In `CodexLifecycle`, `codex[s]` is what Codex really does in session
`s`; its actions (`Submit`, `StartTool`, `Ask`, `Answer`, `EndTool`, `Stop`,
`Complete`, `Abort`, `Kill`, `StartGoal`, `ResumeTurn`, ...) add dated records
to `rollout[s]` and leave a hook process in `hook[s]`, for which the session waits,
as the hardening plan requires (`src/docs/codex-hook-hardening-plan.md:32`).
`HookEnds` logs the event or loses it.  A round of the monitor takes four steps,
`ReadProcesses`, `LoadLog`, `ScanNamedFiles`, `ScanHeldFiles`; between any two,
Codex moves.  The last one selects the newest candidate and sets `display`.
`openSome`, `openAll` and `steady` are history variables about the round: was a
turn open at some moment of it, which were open all along, did nothing move.

### SharedSessions

Terminals start, attach to sessions (creating or resuming them), run turns and
exit; the allocation (`Records`, `Rank`, `Eligible`, `OwnerAmong`, `Allocation`)
is a function of dates, as `_allocate_shared_sessions` is.  `Allocation` goes through
the records in the order of their rank; `AllocatedNext` is one turn of that loop.
`driver` is the attachment the monitor cannot see; the properties compare the two.

### WsBroadcast

`hpc[c]` is the handler thread of connection `c`: authentication, `HandlerReadLocal`,
`HandlerReadRemote`, `Register`, `RecvEnds`, `Unregister`, `HandlerClose`.  The
broadcast thread goes `BroadcastReadLocal`, `BroadcastReadRemote`,
`BroadcastLock` (hash comparison and choice of targets under the lock),
`BroadcastSend` per client (outside the lock), `BroadcastEnd` (removes the dead).
`SenderDelivers`, `SenderFails`, `SenderStops` are the send thread.  The world is
two version counters, one for the local sessions and one for the store; a frame
is the pair it was built from, `Hash` what `_compute_state_hash` sees of it.
`Encodable` marks the versions that hold a working directory that is not UTF-8,
for which `send_text` raises.  `StatusBoard` is what a reader of the README would
expect of all this: watchers join, are shown some state that the world has had, and
leave, several at once when a round finds them gone.

### SnapshotPush

`ppc` is the pusher thread: `wait` (inotify), `tick` (periodic test), `post`,
`send`, `await`, `sleep` (polling).  `AttemptEnds` is what the end of a POST does,
good or bad: the health counters and `last_push_time`.  `request` follows the
POST through the aggregator (`StoreCurrent`, `Answer`); a POST that the client
gave up is in `late` and may still be stored (`StoreLate`) or not (`DropLate`).
`store` is the entry of this server in `RemoteSnapshotStore`, `fresh` while its
time to live runs.  The store is keyed by server id and its entries share
nothing, so one collector is enough.

### WebClient

`panel` is the `MonitorClient`; `Expired`, `Accepted`, `Closed`, `Connecting`,
`RetryingSocket`, `Ticked`, `Refreshed`, `Calibrated`, `Failed` say what its methods
do to it, and the actions are the handlers of the page: `Beat` (a second passes
and the tick runs), `AnswerArrives`, `RequestFails`, `RequestTimesOut`,
`ConnectionReset`, `Unauthorized`, `SocketOpens`, `SocketFails`, `FrameArrives`,
`PageShow`, `PageHide`, `Refresh`.  Of the server there is what the panel can
notice: `RestReads` and `RestStamps` are two steps since a handler reads the
sessions before it takes the time (`api.py:320-321`), and so are `PushReads` and
`PushSends` (`api.py:561`, `websocket_sync.py:233-238`), so that a frame with a later
stamp may hold older sessions; `Restart` and `ClockSetBack` change the instance and
the clock.

### The readers (`MCReaders`)

These components share no state, so `MCReaders` gives each a behaviour of its own:
`world` says which one moves, and the others stay as they began.

* `TailReader`: record k of a rollout file is its units 2k-1 and 2k, so that a file is
  an inode and a length and any read may end inside a line.  `StatRollout` and
  `ReadRollout` are the two moments of `_terminal_events`: the cases `IsReset`,
  `IsGap`, neither, and for each where the read starts (`StartOfRead`), from where a
  torn line is carried (`CarryStart`) and what was known before (`PriorEvents`, for a
  reset the prefix and the back scan).  `since` is a history variable: where the
  reading without gaps began.
* `QoderSession`: `qoder` is what the process does, `segment` the records that are not
  read yet and whether the last is torn, `parsed` the cache entry.  `ApplyRecord`
  and `QoderStatus` are `_apply_record` and `_derive_status`; `ReadSegment` is a
  refresh.  `parsed.run` is 0 before the first one.  `qoder.crowded` and `IsCrowded`
  say that more requests wait, or more subagents have run, than the reader keeps.
* `OpenCodeScan`: every query of a scan is a step between which OpenCode commits;
  `turn` is how each turn really goes.
* `OpenCodeRows`: `Rows` binds the live processes one by one in the order of the code
  (`Bind` with `StateForRoot`, those with an open anchor first), `FoundDecision` looks for their open prompts in the markers.
  `worker` and `prompts` are the truth, which no file tells.

### One host (`MCHost`)

* `ClaudeSession`: the process decides, then writes the record and the registration
  one after the other in either order; a refresh takes four steps,
  `ProcessesListed`, `RegistrationRead`, `TranscriptStat`, `RowShown`.
* `HookInstaller`: a configuration is a set of groups with the user's handlers and
  the monitor's.  `ConfigRead` computes what `BackedUp` and `ConfigReplaced` write
  later; `InstallerDies` at any point.  `wanted` is what the user wrote last, `raced`
  where the user wrote between the read and the replace of an installer.
* `MonitorService`: `program[p]` says what pid p is: nothing, another program, or a
  server and how far it has come.  `overlapped` tells whether two commands were ever
  run at once, or on a server that was still starting.

## 3. The runs

| run | instance | shows |
|---|---|---|
| `WsBroadcast` | 1 connection, 3 local and 1 remote changes, statuses that alternate, one version that cannot be encoded | safety, convergence, release, `StatusBoard` |
| `HookLogWriters` | 3 concurrent hooks, 8 in all, 2 events per generation, 1 kill, 1 hook that may hang | retention, bound, no blocking, `BoundedLog` |
| `HookLogLoads` | 2 hooks, 3 in all, 1 event per generation, 1 reader, with and without lock | the load cache |
| `HookLogUnlocked` | 2 hooks, no lock | violation: a recent event is lost |
| `CodexLifecycle` | five hosts: two sessions, parallel tools, lost hooks with a Goal turn, tmux, records without turn ids; clock to 8 or 9 | what a round displays |
| `CodexLive` | one session, default hooks | the display comes to rest on the truth |
| `CodexPinned` | one session, default hooks | violation: waiting although the turn went on |
| `SnapshotPush` | 2 changes, 3 faults, expiry after 2 failed attempts | pushes, store and time to live |
| `WebClient` | polls every beat, answers within 2, expiry after 4; 1 change, 1 restart, 1 fault, clock 0..1 | the Web panel |
| `Readers` | a file of 6 records and windows of 2 to 3, 2 files, 1 failed read; 5 Qoder records in 2 runs, 1 subagent; 2 chats, 4 commits; 3 OpenCode processes, 3 conversations, 2 markers | no record lost or read twice, no stale answer, no foreign row |
| `QoderSubagents` | 2 subagents, of which 1 is kept | violation: the end of a subagent changes the outcome |
| `Host` | 2 Claude sessions, 2 launches, 3 records; 2 installers, 2 checkouts, 2 files, 2 edits; 3 pids, 3 servers, 2 commands; 3 terminals, 3 shared sessions, clock to 6, grace 1 | Claude rows, configurations, the pid file, the allocation |

### The properties

* `RegistryInv`: a registered client that owes nothing to a round was last
  offered what the broadcaster remembers, so silence is harmless; the registry
  holds live connections only.
* `InitialFrameFirst`, `BroadcastsNeverGoBack`: order of what a client is sent.
* `WatchersConverge`, `LostPeersAreReleased`: liveness of the connection.
* `RetainsRecent`, `SizeBounded`, `HooksFinish`, `CacheHonest`, `LoadsCatchUp`: the
  log.
* `NoPhantomTurn`, `NoHiddenTurn`: relate the status at the end of a round to
  what was open during it.  `QuietRoundsTellTheTruth`, `QuestionsStayShown`,
  `ToolEventsReleaseWaiting`, `DisplayCatchesUp`: what a round during which
  nothing moves displays.
* `EveryDriverHasARow`, `AttendedTurnsSpread`: compare the allocation with the
  attachments it cannot see.
* `AttemptsAreSpaced`, `HealthyServersAreShown`, `PushesConverge`,
  `StoppedServersLeave`: the pusher and the store.
* `StaleRowsLeave`, `OneBackend`, `NothingComesBack`, `LabelsAreHonest`: what the
  panel displays, and claims, whatever overtakes what.  `ViewConverges`: even if
  sockets never work, an open page comes to the state of the server.
* `RecordsAreReadOnce`: what is kept of a rollout file are records of it, each once,
  in order and without holes, however reads cut lines.  `FactsSurviveGaps`: a refresh
  that jumps forgets nothing it knew.  `ReadersCatchUp`: a file that rests gets read
  to its end.
* `QoderTellsTheTruth`: once all was read, the row says what the process does; when
  it was crowded, still whether it works.  `SubagentsAreIgnored`: what the source
  promises of the outcome, crowded or not.
* `CacheIsTrue`: what the OpenCode cache would answer now is true of every chat.
* `OpenTurnsAreBound`, `WaitingIsOwn`: compare the rows with who really works on, and
  waits in, which conversation.
* `ClaudeTellsTheTruth`: a refresh during which nothing moved shows the truth,
  whatever earlier refreshes cached and earlier processes left.
* `ForeignHooksSurvive`, `LastOperationHolds`: of the user's part and of the monitor's
  part of a configuration.
* `RunningServerIsRecorded`: the server that serves is the one `--stop` would find.

### The bounds and why they are enough

* `WsBroadcast`: connections touch each other only through the broadcaster's
  sets and hash; the proofs of section 5 hold for any number of them.  Three
  local changes give a change, a change back (equal hashes) and one more while a
  round runs, around the version that cannot be encoded.
* `HookLog`: 8 events over generations of 2 rotate three times, so that every
  generation is filled, moved twice and unlinked; the third hook can rotate while
  one hangs and one is killed between the renames.  The proofs cover all sizes.
* `CodexLifecycle`: two turns with a clock of 9 let a turn end or abort, a second
  one start, ask and be answered, a process die and its pid come back; each host
  adds one difficulty so that the state space (4.8 million states) stays small.
* `SnapshotPush`: three faults allow a timed-out POST, a second one and a restart
  in one behaviour, so that an old snapshot can be stored last.
* `WebClient`: the least times in the order of the real ones (a poll and its time
  limit end before the rows expire; a socket is replaced after its time limit).
  One change, restart, clock step back and lost answer are enough to have a frame
  or an answer of the previous state, instance or time on its way.  The delay of a
  retry of the socket is bounded by one beat: no property depends on its length,
  and the wrong variant without the bound is found at once.

* `Readers`: files of 12 units against a first window of 5 and later ones of 3 give
  prefix, back scan and tail that touch, overlap and leave a hole, a record on each
  boundary, and two gaps in a row.  Five records of Qoder hold a turn that asks, is
  answered and ends, beside a subagent or before a second run; three OpenCode
  processes are one more than compete for one conversation; four commits give a
  chat whose turn ends while another's is read.
* `QoderSubagents`: with room for one subagent two are enough; with the 64 of the code
  it takes 65 in one run, since none is ever forgotten.
* `Host`: transcripts are read by one record at each end, the least window, so that
  bookkeeping records can fill both while work lies between.  Two launches on one pid
  and two sessions are what a reused pid and a resumed transcript need.  Two installers of two checkouts give every order of two
  overlapping operations, and the third pid and server of the service a killed one,
  its successor and a start that fails.  Three terminals and sessions are the least at
  which a session left behind competes with two live ones, and six dates let each start
  and attach.  Checkouts and installers are symmetric (the run checks invariants only).
  The proofs hold for every number.

`CHECK_DEADLOCK FALSE` is set where a model stops at its bounds: all hook
processes have been started (`HookLogWriters`, `HookLogUnlocked`), or a
program or clock has used up its steps (`Readers`, `Host`, `QoderSubagents`).

## 4. Fairness

Weak fairness is assumed of what the program itself schedules, and of nothing a
user or a network decides.

* `WsBroadcast`: the handler and send threads of open connections, the broadcast
  thread, and the ageing of the provider cache.  The broadcast thread is an
  endless loop that catches every exception (`api.py:557-571`); handlers and send
  threads are threads of the server.  Nobody has to connect, leave or change.
* `HookLog`: a hook that has started takes its steps, unless it is in `Stalling`;
  the resident monitor keeps loading.  Nobody has to start a hook.
* `CodexLifecycle`: the monitor takes its rounds, and a hook process ends (it gives
  the lock 15 ms).  Codex and its user need not do anything.
* `SnapshotPush`: the pusher thread, the handler of a request that arrived, the
  passing of time, and that what is in flight arrives or is dropped.  Faults,
  restarts, changes and the start or stop of a collector are not forced; they are
  bounded by `MaxFaults` and `MaxVersion`, so that "eventually always" means: once
  they cease.
* `WebClient`: timers fire, requests are answered, lost (`RequestLost` is a fault) or
  time out, and the server's clock goes on.  Nothing is asked of the WebSocket, which
  a proxy may block for ever, and nobody has to show the page: `ViewConverges`
  speaks of pages that stay open.
* `Readers`: the monitor refreshes for ever (`StatRollout` and `ReadRollout`,
  `ReadSegment`), and a record that was begun is written to its end
  (`RecordCompleted`).  The programs need not write; failed reads are bounded by
  `MaxErrors`.  `OpenCodeScan`, `OpenCodeRows` and `Host` have safety properties only
  and assume no fairness.

## 5. The proofs

All by `tlapm`, for every value of the constants that satisfies the assumptions named
in the modules.  They say no more than that bounds are natural numbers, that
the windows of the readers are not empty and later ones not larger than the first
(`WindowsAssumption`), that the special values differ from the ordinary ones, that
terminals, sessions and tools are finite sets (`SharedAssumption`,
`LifecycleAssumption`), and that a poll of the panel and its time limit fit into the
expiry (5 + 8 s of 15, `PanelAssumption`).  Where a theorem needs more, such as the lock
of the hook log or an ordinary host, it says so.

**`WsBroadcast_proofs`**
* `TypeCorrect`: `Spec => []TypeOK`.
* `RegistryInvariant`: `Spec => []RegistryInv`.  "A settled client has last been
  offered what the broadcaster remembers" is not inductive: a round that runs must
  still know that the hash it stored is that of the frame it sends, and that all
  it owes was registered before it began (`RoundConsistent`).  With that and
  `NoDeadRegistration` it is.  `SettledClientsAreCurrent` and
  `RegistryHoldsLiveConnections` are its parts.
* `InitialFrameComesFirst` from the invariant `ReachedAfterInitial`.
* `NoClientGoesBack` from the invariant `ViewsInOrder` (theorem `ViewsAreInOrder`):
  what a client was offered <= what the broadcaster read <= what the provider
  would answer.
* `StepsFollowStatusBoard`: `Spec => Board!Init /\ [][Board!Next]_(Board!vars)`, the
  safety half of `ImplementsStatusBoard`: every step of the threads joins, shows,
  drops or changes what the board may, or is a stutter, since frames only hold
  versions that the world has had (`TypeCorrect`).

**`HookLog_proofs`** (with the lock: `Locks = {NoHook}`)
* `TypeCorrect`, for both logs.
* `LockedLogInvariant`: `LogInv` is inductive.  That the newest events are on disk
  is not: one must know where a rotation in progress has put the two older chunks
  (`OlderChunks`), what the hook in the critical section has seen (`HolderKnows`),
  and that it is the only one (`MutualExclusion`).
* `LockedLogRetainsRecent`: `LogInv => RetainsRecent`.
* `LockedLogIsBounded`: the log implements `BoundedLog` under the mapping
  `log <- OnDisk`: every step appends, evicts old events, or stutters.
* `LockedLogIsSmall`: `Spec => []SizeBounded`: only the live file grows, within
  `LiveFile`, and rotation moves files that were within the limit.
* `LockedCacheIsHonest`: `Spec => []CacheHonest`, with the lock and as long as no append
  fails.  The argument looks back in time: files only move up the generations and only
  grow (`FilesMoveUp`), and an entry of a signature was never taken of a younger
  generation than its place says (`Traced`, `Sourced`).  So a signature that is that of
  all the files now (`Whole`) was so ever since it was taken, with the same contents
  (`WholeBefore`), and what was read meanwhile is right (`Loading`, `CacheSound`).
  Between rotations the files are all there, without a gap (`Layout`), so the
  signature of the disk is a whole one.  A hook killed between the two renames leaves
  a gap, and then the cache may serve a wrong answer until the next append: the
  assumption `MaxFailures = 0` is needed.

**`SnapshotPush_proofs`**
* `TypeCorrect`, one lemma per part of the type invariant.
* `SpacedAttempts`: `Spec => AttemptsAreSpaced`, from `SinceIsRest` (the loop's own
  clock is the time since the last attempt ended, whichever way it ended) and
  `LoopStarts` (only the two tests of the loop start an attempt from it).
* `HealthyIsShown`: `Spec => []HealthyServersAreShown`, from `StoredIsShown`: while
  the last attempt succeeded, or is stored and not yet answered, no failed attempt
  has used up the time to live.

**`WebClient_proofs`**
* `TypeCorrect`, from one lemma per method of `MonitorClient`.
* `PanelInvariant`: `Spec => []PanelInv`.  That rows are fresh and of one backend is
  not inductive: one must know that they are the last frame that was accepted and
  have the stamp that later ones are compared with (`RowsAreAccepted`), that a page
  that is not fresh has expired (`DisplaySound`), that a hidden page has neither a
  request nor a socket (`HiddenPageRests`), and that the instance in an answer on its
  way is not older than that of the panel (`InstancesGrow`).  Most methods either
  keep the rows or clear them, never change them (`KeepsDisplay`); only
  `Accepted` and `Calibrated` need an argument of their own.
* `StaleRowsAlwaysLeave`, `RowsOfOneBackend`, `NothingEverComesBack` follow from it.
* `LabelsAreAlwaysHonest`: `Spec => []LabelsAreHonest`, from `LabelInv`: as long as the
  last answer was good, the next request is sent at most `Poll` after it and ends
  `Request` later (`Punctual`), before the rows expire; an answer fills a page that
  expired (`CalibratedFills`); a bad answer changes the label (`FailedIsHonest`).

**`CodexLifecycle_proofs`**
* `LifecycleInvariant`: `Spec => []LifecycleInv`, for all processes, sessions, tools and
  settings.  Of each session (`SessionInv`): an open turn is the last record of its
  file, and the hook events since are its own, even if its prompt was lost or the turn
  resumed by another process (`OpenTurnIsRecorded`); a process has left no trace in a
  session it does not hold (`Attached`).  Of a round (`RoundInv`): what it folded from
  the log either has the turn that stays open all along (`OnTurn`) or is older than its
  record and names another turn (`Outdated`), however Codex moves between the reads; in
  either case the files, read later, give an open candidate, and an open one wins.
* `NoTurnIsHidden`: `Spec => NoHiddenTurn`: a fold that has the turn gives the candidate
  with the files it names (`OpenTurnIsLoaded`, `OpenTurnMatches`), and one that is older
  leaves it to the files held open.  That the fold is of the events in the order of their dates whatever their order in the log
  (`FoldsAreSound`, `SummaryFacts`) comes from `RecursionLemmas`.
* `NoPhantoms`: `Spec => NoPhantomTurn` if every setting is `Ordinary`: no `session_start`
  hook, which the installer removes (`src/README.md:883-884`), and a pid comes back
  only where no hook is lost and every turn has a prompt.  The invariant `PhantomInv` says
  of the process (`Accounted`) that each turn of which it emitted events has its end in
  the file (`Told`), and that its first event is a prompt, by which a fold that it
  inherited with its pid forgets the turn of its predecessor (`Announced`); and of a
  round (`CalmInv`) that a turn the fold takes for open is over in the file, later than
  it started (`Over`).  Without a part of `Ordinary` TLC finds phantoms, see section 7.

**`Host_proofs`: `SharedSessions`**
* `SharedInvariant`: `Spec => []SharedInv`: no two processes start and no two sessions
  are dated at one time (`MomentsDiffer`), and who drives a session has attached to it
  since it started, drives no other, and only driven sessions have open turns
  (`DriversAreReal`).
* `EveryDriverIsShown`: `Spec => []EveryDriverHasARow`.  The allocation is a recursive
  function over the ranks of the records; that it exists and what each turn of the loop
  does (`AllocationOf`) comes from `RecursionLemmas`.  The terminal that no session was
  given could have had the one it drives: it is eligible, and the loop gives a session
  to someone eligible before it gives it to none (`NoneIsStarved`).
* `OpenTurnsNeverHide`: `Spec => []AttendedTurnsSpread`.  While every worked session is
  driven there are no more records than terminals, each finds one free
  (`EachFindsOneFree`), and no owner is given two (`GivenApart`).

**`Host_proofs`: `MonitorService`**
* `RecordedServer`: `ServiceSpec => []RunningServerIsRecorded`.  Not inductive: a server
  can serve only because it found no other while it was alone.  The invariant says,
  for behaviours without overlap, that one command or one start at a time is under
  way (`OneAtATime`), that what a command read is still the record unless a server
  that left removed it (`ReadsAreFresh`), and that a server that is about to serve is
  alone (`StartersAreAlone`).

**`Host_proofs`: `HookInstaller`**
* `UserKeepsHooks`: `InstallerSpec => []ForeignHooksSurvive`, from the invariant that the
  contents an installer is about to write hold the user's part too, unless the name
  is raced (`InHandIsForeign`), and the lemmas that removing and adding the monitor's
  handlers keep it (`WithoutOursKeepsForeign`).
* `InstallationsHold`: `InstallerSpec => []LastOperationHolds`, from `ResultInv`: the
  contents about to be written have the result of their operation (`Done`), and no
  group holds the monitor's handlers for an event it does not know
  (`OursAreKnown`), which is why an installation need not look at them.

**`Host_proofs`: `ClaudeSession`**
* `ClaudeIsShownTruly`: `ClaudeSpec => []ClaudeTellsTheTruth`, from `ClaudeInv`: a
  registration that matches the process is its own and, once both files are written,
  current (`RegistrationIsTrue`); the outcome of each session is that of the newest work
  in its transcript and in what is still to be written (`OutcomesAreTrue`); what was
  latched or remembered of a transcript was true of a prefix of it (`MemoryIsTrue`), and
  a remembered length says which (`SignatureIsOld`); and a refresh that was not disturbed
  saw what is there now (`CalmIsNow`).  The tail of a transcript gives that outcome
  whenever it holds any work, however long it is (`TailOfTranscript`).  The attempt to
  prove it refuted an earlier form: when head and tail hold only bookkeeping records, the
  row may be hidden while a resumed process starts up, which `Truths` now says
  (`unclear`) and TLC finds with windows of one record.

**`Readers_proofs`: `TailReader`**
* `RolloutInvariant`: `RolloutSpec => []RolloutInv`.  What was stat'ed and cached is of a
  prefix of the file or of an earlier one (`KnowsPrefix`); the events are records of that
  prefix in order, the carry starts where the last whole record ended, and nothing since
  the gapless reading began is missing (`EntryIsTrue`).  Its core is `ReadStep`, over the
  lemmas that a window yields the records that end in it (`LinesAreRecords`), that the
  merge of overlapping windows keeps each once (`AscendingRises`) and that the cap drops
  the oldest (`CappedKeeps`).
* `EveryRecordIsReadOnce`, `JumpsForgetNothing`: `[]RecordsAreReadOnce` and
  `FactsSurviveGaps`, from it.

**`Readers_proofs`: `QoderSession`**
* `QoderIsShownTruly`: `QoderSpec => []QoderTellsTheTruth`, from `QoderInv`: what the fold
  would come to if the rest of the segment were read (`Caught`) agrees with the process
  (`Agrees`: its turn, as many requests as calls wait, the question, the subagents that
  were kept).  A write extends the rest by one record, one lemma per kind
  (`RequestAgrees`, `ReplyAgrees`, ...), and a refresh moves records from the rest to the
  state without changing what it comes to (`FoldInTwo`), wherever its window ends.
  `SubagentsAgree` holds only up to the bound of the reader: the attempt to prove the
  outcome without it led to finding 3.

**`Readers_proofs`: `OpenCodeScan`**
* `CachedAnswerIsTrue`: `ScanSpec => []CacheIsTrue`, from `ScanInv`: rows tell how their
  turn goes (`RowsTellTheTurn`), and what a scan has read so far (`ReadSoFar`) agrees
  with the database as long as its signature is still that of the database
  (`ReadingIsTrue`); a commit in between changes the signature and makes its answer
  harmless.

**`Readers_proofs`: `OpenCodeRows`**
* `NoForeignWaiting`: `RowsSpec => []WaitingIsOwn`, from `RowsInv`: a marker whose process
  lives and which nobody answered stands for a prompt that this process has open in
  that conversation (`MarkersAreTrue`), and a process works on one conversation at a
  time (`WorkIsOne`).  The rotation of the decision log only drops the oldest markers
  (`AsksRotated`), which can hide a prompt and never invents one.

* `NoOpenTurnIsHidden`: `RowsSpec => []OpenTurnsAreBound`, from `BindingInv`: `RowsInv`
  and that processes start at different times and an open conversation was active after
  its process started (`TimesAreTrue`).  `Rows` is a fold over the processes; `Serves`
  is its loop invariant: a process that comes later still finds the conversation it
  works on free, or that one already has a row (`BindServes`), and no conversation is
  given twice (`BindKeepsApart`).

**`RecursionLemmas`**
The library's induction theorems take an operator as parameter, which the provers cannot
instantiate.  `LeastNatural` is stated of a set, and gives by contradiction what the other
modules need: `UpwardInduction` and `RemovalInduction` over sets of numbers and of finite
sets, `IteratesExist` and `FoldExists`: the functions that a recursive definition and a
fold ask for exist and satisfy their equations.  `Steps` and `Picks` are the step and the
choice as functions, so that no lemma has an operator for a parameter.

The type invariants are proved (`TypeCorrect`, or a part of the invariants above), so
the runs do not check them again.

**Only model-checked.** Liveness, and with it the other half of the implementation of
`StatusBoard` (`ENABLED` and fairness are out of the prover's reach); `CacheHonest` of
the OpenCode log, which takes no lock; and of `CodexLifecycle` what is displayed when
nothing moves (`QuietRoundsTellTheTruth`, `QuestionsStayShown`, `ToolEventsReleaseWaiting`):
its `Truth` depends on which tool of which session asked last, of which the invariant
above knows nothing yet.

## 6. Disagreements found

1. `opencode_hook_state.py:218`: the OpenCode log opens and unlocks its lock file
   without ever locking it; the docstring says it is concurrency-safe through
   `flock`.  Run `HookLogUnlocked`: two hooks that rotate at once discard recent
   events.
2. `monitor.py:1007`: with the hooks installed by default, a turn that was approved
   stays displayed as waiting until it stops, since `last_record_at` is the time of
   lifecycle events only; the docstring says any later record releases the row.
   Run `CodexPinned`.
3. `qoder_state.py:498`: the turn ids of at most 64 subagents of a run are kept, and none
   is forgotten before the run ends.  The end of a later one that arrives between turns is
   taken for the end of a turn of the main conversation and replaces its outcome; the
   docstring (`qoder_state.py:13-14`) says that subagent turns are ignored.  Run
   `QoderSubagents`.

Section 7 lists what else the models brought to light and no run shows.

## 7. Abstractions and limits

* `HookLog`: sizes are counted in events, inodes are not reused (the signature also
  holds the modification time), a line is written whole.
* `CodexLifecycle`: the log is one step (its own behaviour is `HookLog`, and a lost
  event stands for its failures); rollout files stay below the size at which they
  are read in windows; tools have ids; labels are left out.  A file is the set of its
  dated records: whatever happens takes a tick of the clock, so their dates order them.
  No run installs the `session_start` hook, which only older versions did.
* `SharedSessions`: a round reads one snapshot; a terminal that exits interrupts its
  turn; builds without writer locks are left out; dates are distinct.
* `WsBroadcast`: ping, pong and close frames carry no state.  The store is a version
  that grows.
* `WebClient`: timers fire on the beat (a browser that throttles the timers of a
  hidden tab keeps expired rows until the next tick, frame or poll); at most one
  frame is on its way; the server may send the same sessions again.  The
  stamps stop at `MaxClock`, where all later ones are equal.
* `SnapshotPush`: the time since the last attempt is kept in the three classes the
  loop tests.  The entry of a running collector expires only after `Patience`
  attempts that failed: an attempt lasts at most about 5 s and starts every 0.5 s,
  against a time to live of 30 s; with an interval set longer than the time to
  live, or a discovery that takes so long, the assumption does not hold.

* `TailReader`: a record is known by its place and is an event; timestamps grow.  A
  file that is replaced gets another inode, or is shorter than what was read.
* `QoderSession`: of the unread part of a segment only the records past the last one
  read to its end are kept, since no read goes back; a process asks one question at a
  time; the segment is the newest of its session.
* `OpenCodeScan`: the key of the cache and the LIMIT of the queries are left out; one
  commit changes one chat; there is one part row for the tools of a message.
* `OpenCodeRows`: all processes run in one directory; pids are not reused; the clock
  ticks with every step, and the two seconds of grace are one tick; an answered
  prompt answers all of its conversation.
* `ClaudeSession`: `procStart` and the start of the process are compared exactly, as
  they are when both sides have them.
* `HookInstaller`: the groups of a file are a set, and a user copies no handler of the
  monitor into a group of its own; a configuration without `hooks` is one with none;
  the contents of backups are left out.
* `MonitorService`: the read, the check and the unlink of a stale file by a starting
  server are one step; printing and logging are left out.

Known limits of the code that no property states:
* a Goal turn (no prompt) that completes after an aborted turn leaves the failure of
  the aborted one displayed, since a stop of another turn does not replace the turn
  of the state (`hook_state.py:395`; `src/README.md:88` promises the latest turn);
* a session left behind by a terminal that exited takes the row of a live one, and
  two open turns end up on one row (`monitor.py:1286`;
  `src/tests/test_monitor.py:359-360` says that they must be on two): this is why
  `AttendedTurnsSpread` excludes sessions left behind;
* a process that inherits the pid of one that died in the middle of a turn, and whose
  first event there does not begin a turn (a `session_start` of an old installation, or
  the stop of a turn that was resumed, is a Goal, or had no prompt logged), makes the old
  turn look its own: a stop of another turn does not close it (`hook_state.py:395`), and
  an idle terminal is displayed as running, although `SessionStart` alone is said to
  create no row (`src/README.md:97`).  `Ordinary` excludes it, and the hosts of the run
  are ordinary;
* a rollout file that is truncated in place and grows past the cached offset before
  the next refresh is read on from there; a prefix or back scan that fails alone
  loses the facts in it; a file replaced between the stat and the open is kept under
  the old inode until the next refresh (`terminal_state.py:381-459`);
* in Qoder, a prompt of a subagent is not shown as waiting (`qoder_state.py:492-520`);
* a Claude process that died in the middle of a turn and is resumed shows the outcome
  that its transcript ends with; a tail full of bookkeeping records hides the row, also
  while a resumed process starts up (`unclear` in `Truths`); a
  prompt submitted between the reads of registration and transcript shows a failure
  until the next refresh;
* an OpenCode turn abandoned by a process that died can be shown on the row of a live
  one for as long as it is the open one most recently active in the directory, and a
  process started with `-s` on a conversation another works on takes its row
  (`monitor.py:595-680`; `Abandoned` and `NamesAreTrue` exclude both); a prompt that is
  interrupted without a reply stays waiting while its turn is open;
* an sqlite error is cached as an empty answer: after one on a database at rest, its
  rows stay hidden until the next commit (`opencode_state.py:217-219`, `283-307`);
* commands that overlap can leave a server that serves without its pid file: two
  starts, or a stop whose server is replaced before it unlinks, since `--stop` unlinks
  whatever the file holds (`cli.py:462-467`);
* a write of the user between an installer's read and its replace is lost
  (`install_hooks.py:157-192`);
* the plugin installer takes a file that it cannot read for none and replaces it,
  although it promises never to overwrite a file that is not its own
  (`install_opencode_plugin.py:13`);
* a client to which a frame could not be encoded is dropped from the registry but
  its connection stays open without updates (`websocket_sync.py:247-251`);
  `WatchersConverge` speaks of registered clients;
* a hook that dies between the two renames costs the log one generation;
* with parallel tools, the end of any tool clears the pending question of another
  (`hook_state.py:382-384`), so `QuestionsStayShown` excludes them;
* an abandoned POST that is stored late shows an older snapshot until the next one;
* an idle client of a shared app-server may be given a session left behind by
  another;
* the first scan of a large rollout file loses the record that straddles the
  window boundary (`terminal_state.py:446-447`, `523-524`);
* the send queue of a client that stops reading is unbounded;
* after the server's clock was set back, the panel ignores answers and frames until
  the clock has caught up (`client.mjs:138`), and yet every answer makes the rows
  fresh and the label live; a page that was hidden and shown meanwhile stays empty
  (the exception in `LabelsAreHonest`).

## 8. Not modelled, and why

* Windows widget: drawing, settings and tray handling are user interface, and the
  state of its protocol (generations of connections, fetch threads) lives among
  them; the questions it raises are those that `WebClient` answers for the Web panel.
  Nor is the drawing of the Web panel.
* `install_opencode_plugin.py`: one file that is copied and compared.
* `--status` and the diagnostics of the readers: they only read.
* Process discovery, the legacy state scan, the REST interface and the launch shim:
  parsing, formatting or a single write, with no state of their own.  Their results
  are the inputs of `CodexLifecycle`, `SharedSessions` and `WsBroadcast`.

## 9. The plan

Done, in this order: the push path (`WsBroadcast`, `StatusBoard`), the hook log
(`HookLog`, `BoundedLog`), the fold and the display (`HookState`, `CodexLifecycle`),
the allocation (`SharedSessions`), the collector (`SnapshotPush`), the Web panel
(`WebClient`), the readers (`TailReader`, `QoderSession`, `OpenCodeScan`,
`OpenCodeRows`), the host (`ClaudeSession`, `HookInstaller`, `MonitorService`), and the
proofs of section 5.

What could follow:
1. `Widget`: the connection generations and fetch threads of the Windows widget
   (`websocket.c`): no frame of a replaced connection is applied, and the view
   converges as that of the panel does.
2. Proofs of the properties of quiet rounds of `CodexLifecycle`: `LifecycleInv` extended by
   what the events since the last record say of the tool that asks.

## 10. How to run it

    tlc -workers 2 -config SnapshotPush.cfg MCSnapshotPush
    tlapm Readers_proofs.tla

`PROJECT.json` names, for each run, the module, the configuration and the
properties; for each property the wrong variant that breaks it; and for each
definition the lines of the source it models.
