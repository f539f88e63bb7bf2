------------------------------ MODULE HookLog ------------------------------
(***************************************************************************)
(* The hook event log: short-lived hook processes append one event each to *)
(* a file that rotates through two older generations, and the resident     *)
(* monitor loads the generations through a cache keyed by the files'       *)
(* signature.  Every system call is a step of its own: hooks run           *)
(* concurrently with each other and with the loads, may be killed or get   *)
(* an error from any call, and the loads take no lock.                     *)
(*                                                                         *)
(* Two logs share this protocol: the Codex log takes an exclusive flock    *)
(* (its lock is NoHook while it is free), the OpenCode log opens and       *)
(* unlocks the same lock file without ever locking it (its lock is always  *)
(* NoLock).  Definitions named Bug... are wrong variants of the definition *)
(* after them, used only as mutants.                                       *)
(*                                                                         *)
(* Events are numbered in the order they reach the log, and a file is the  *)
(* set of its events.  Sizes are counted in events, so the byte limit is   *)
(* MaxLen events per generation.  An inode is never reused: a file that    *)
(* reuses a number differs in the modification time that the signature     *)
(* also holds.                                                             *)
(***************************************************************************)
EXTENDS Integers, Sequences, FiniteSets

CONSTANTS
  Hooks,       \* slots for hook processes that run at the same time
  Readers,     \* threads of the monitor that load the log
  Locks,       \* {NoHook}, {NoLock} or both: the logs considered
  MaxLen,      \* events that fit a generation (the byte limit)
  FileLimit,   \* lines read from the end of each file
  ReadLimit,   \* events returned by a load
  MaxHooks,    \* bound on the number of hook processes started
  MaxFailures, \* bound on hooks killed or failed in mid-append
  Stalling,    \* hooks that may hang in mid-append (a slow or dead disk)
  NoFile, NoHook, NoLock

Generations == 0 .. 2

ASSUME HookLogAssumption ==
  /\ Locks \subseteq {NoHook, NoLock}
  /\ MaxLen \in Nat \ {0}
  /\ FileLimit \in Nat \ {0}
  /\ ReadLimit \in Nat \ {0}
  /\ MaxHooks \in Nat
  /\ MaxFailures \in Nat
  /\ Stalling \subseteq Hooks
  /\ NoFile \notin Nat
  /\ NoHook \notin Hooks
  /\ NoLock \notin Hooks \union {NoHook}

VARIABLES
  gen,       \* directory: generation -> inode or NoFile (0 is the live log)
  files,     \* inode -> events, in order of creation
  written,   \* number of events appended
  lock,      \* holder of the exclusive lock, NoHook or NoLock
  started,   \* hook processes started
  failures,  \* hooks killed or failed
  pc,        \* hook -> program counter
  shift,     \* hook -> generation its rotation moves up
  fd,        \* hook -> inode it opened
  rpc,       \* reader -> program counter
  rfiles,    \* reader -> generations found by is_file, newest first
  rsig,      \* reader -> signature taken before reading
  rnext,     \* reader -> position in the list being worked on
  revents,   \* reader -> events read
  cache,     \* the shared cache entry: a signature and its events
  loaded     \* reader -> result of its last load

disk    == <<gen, files, written>>
hooks   == <<lock, started, failures, pc, shift, fd>>
readers == <<rpc, rfiles, rsig, rnext, revents, cache, loaded>>
vars    == <<disk, hooks, readers>>

Inodes == 1 .. Len(files)

Content(g) == IF gen[g] = NoFile THEN {} ELSE files[gen[g]]

OnDisk == Content(0) \union Content(1) \union Content(2)

Newest(S, n) == {e \in S : Cardinality({f \in S : f > e}) < n}
FileView(g) == Newest(Content(g), FileLimit)

Init ==
  /\ gen = [g \in Generations |-> NoFile] /\ files = <<>> /\ written = 0
  /\ lock \in Locks /\ started = 0 /\ failures = 0
  /\ pc = [h \in Hooks |-> "idle"]
  /\ shift = [h \in Hooks |-> 1]
  /\ fd = [h \in Hooks |-> NoFile]
  /\ rpc = [r \in Readers |-> "list"]
  /\ rfiles = [r \in Readers |-> <<>>]
  /\ rsig = [r \in Readers |-> <<>>]
  /\ rnext = [r \in Readers |-> 0]
  /\ revents = [r \in Readers |-> {}]
  /\ cache = [sig |-> <<>>, events |-> {}]
  /\ loaded = [r \in Readers |-> {}]

-----------------------------------------------------------------------------
(* A hook process: append_hook_event and _append_encoded_event             *)

Goto(h, at) == pc' = [pc EXCEPT ![h] = at]

Release(h) == lock' = IF lock = h THEN NoHook ELSE lock

Start(h) ==
  /\ pc[h] = "idle"
  /\ started < MaxHooks
  /\ started' = started + 1
  /\ Goto(h, "lock")
  /\ UNCHANGED <<disk, lock, failures, shift, fd, readers>>

BugAcquireAnyway(h) ==
  /\ pc[h] = "lock"
  /\ lock' = h
  /\ Goto(h, "stat")
  /\ UNCHANGED <<disk, started, failures, shift, fd, readers>>

Acquire(h) ==
  /\ pc[h] = "lock"
  /\ lock \in {NoHook, NoLock}
  /\ lock' = IF lock = NoHook THEN h ELSE lock
  /\ Goto(h, "stat")
  /\ UNCHANGED <<disk, started, failures, shift, fd, readers>>

BugLockTimeoutNever(h) ==
  /\ pc[h] = "lock"
  /\ FALSE
  /\ UNCHANGED vars

\* The lock stayed busy until the deadline: the event is dropped.
LockTimeout(h) ==
  /\ pc[h] = "lock"
  /\ lock \in Hooks
  /\ Goto(h, "idle")
  /\ UNCHANGED <<disk, lock, started, failures, shift, fd, readers>>

BugNeedsRotation == Cardinality(Content(0)) > MaxLen
NeedsRotation == Content(0) # {} /\ Cardinality(Content(0)) + 1 > MaxLen

StatLog(h) ==
  /\ pc[h] = "stat"
  /\ Goto(h, IF NeedsRotation THEN "unlink" ELSE "open")
  /\ UNCHANGED <<disk, lock, started, failures, shift, fd, readers>>

\* _rotate_hook_log: drop the oldest generation ...
UnlinkOldest(h) ==
  /\ pc[h] = "unlink"
  /\ gen' = [gen EXCEPT ![2] = NoFile]
  /\ shift' = [shift EXCEPT ![h] = 1]
  /\ Goto(h, "exists")
  /\ UNCHANGED <<files, written, lock, started, failures, fd, readers>>

AfterShift(h) ==
  /\ shift' = [shift EXCEPT ![h] = 0]
  /\ Goto(h, IF shift[h] = 1 THEN "exists" ELSE "open")

\* ... and move generation 1, then the live log, one generation up.
ExistsCheck(h) ==
  /\ pc[h] = "exists"
  /\ IF gen[shift[h]] # NoFile
     THEN Goto(h, "replace") /\ UNCHANGED shift
     ELSE AfterShift(h)
  /\ UNCHANGED <<disk, lock, started, failures, fd, readers>>

Replace(h) ==
  /\ pc[h] = "replace"
  /\ gen[shift[h]] # NoFile
  /\ gen' = [gen EXCEPT ![shift[h] + 1] = gen[shift[h]], ![shift[h]] = NoFile]
  /\ AfterShift(h)
  /\ UNCHANGED <<files, written, lock, started, failures, fd, readers>>

\* The source vanished since the check: the append fails and drops its event.
ReplaceFails(h) ==
  /\ pc[h] = "replace"
  /\ gen[shift[h]] = NoFile
  /\ Release(h)
  /\ Goto(h, "idle")
  /\ UNCHANGED <<disk, started, failures, shift, fd, readers>>

OpenLog(h) ==
  /\ pc[h] = "open"
  /\ IF gen[0] = NoFile
     THEN /\ files' = Append(files, {})
          /\ gen' = [gen EXCEPT ![0] = Len(files) + 1]
          /\ fd' = [fd EXCEPT ![h] = Len(files) + 1]
     ELSE /\ fd' = [fd EXCEPT ![h] = gen[0]]
          /\ UNCHANGED <<files, gen>>
  /\ Goto(h, "write")
  /\ UNCHANGED <<written, lock, started, failures, shift, readers>>

WriteEvent(h) ==
  /\ pc[h] = "write"
  /\ written' = written + 1
  /\ files' = [files EXCEPT ![fd[h]] = @ \union {written + 1}]
  /\ Goto(h, "unlock")
  /\ UNCHANGED <<gen, lock, started, failures, shift, fd, readers>>

Unlock(h) ==
  /\ pc[h] = "unlock"
  /\ Release(h)
  /\ Goto(h, "idle")
  /\ UNCHANGED <<disk, started, failures, shift, fd, readers>>

\* The process is killed, or a call raises (disk full, permission): the
\* kernel or the finally clause gives the lock back, the event is dropped
\* unless it was already written, and a rotation stays where it was.
Fail(h) ==
  /\ pc[h] \in {"stat", "unlink", "exists", "replace", "open", "write", "unlock"}
  /\ failures < MaxFailures
  /\ failures' = failures + 1
  /\ Release(h)
  /\ Goto(h, "idle")
  /\ UNCHANGED <<disk, started, shift, fd, readers>>

HookStep(h) ==
  \/ Acquire(h) \/ LockTimeout(h) \/ StatLog(h) \/ UnlinkOldest(h)
  \/ ExistsCheck(h) \/ Replace(h) \/ ReplaceFails(h)
  \/ OpenLog(h) \/ WriteEvent(h) \/ Unlock(h)

-----------------------------------------------------------------------------
(* A load: load_hook_events                                                *)

BugStatOfSizeOnly(g) == <<0, Cardinality(files[gen[g]])>>
StatOf(g) == <<gen[g], Cardinality(files[gen[g]])>>

\* The local variables of a finished load are gone; the next load starts.
NextLoad(r) ==
  /\ rpc' = [rpc EXCEPT ![r] = "list"]
  /\ rfiles' = [rfiles EXCEPT ![r] = <<>>]
  /\ rsig' = [rsig EXCEPT ![r] = <<>>]
  /\ rnext' = [rnext EXCEPT ![r] = 0]
  /\ revents' = [revents EXCEPT ![r] = {}]

\* _hook_log_files: one is_file per generation.
ListFile(r) ==
  /\ rpc[r] = "list"
  /\ rfiles' = [rfiles EXCEPT ![r] =
                  IF gen[rnext[r]] = NoFile THEN @ ELSE Append(@, rnext[r])]
  /\ rnext' = [rnext EXCEPT ![r] = IF @ = 2 THEN 1 ELSE @ + 1]
  /\ rpc' = [rpc EXCEPT ![r] = IF rnext[r] = 2 THEN "stat" ELSE "list"]
  /\ UNCHANGED <<disk, hooks, rsig, revents, cache, loaded>>

\* _file_signature: one stat per listed path; one that vanished is skipped.
StatFile(r) ==
  /\ rpc[r] = "stat"
  /\ rnext[r] <= Len(rfiles[r])
  /\ LET g == rfiles[r][rnext[r]]
     IN  rsig' = [rsig EXCEPT ![r] = IF gen[g] = NoFile THEN @ ELSE Append(@, StatOf(g))]
  /\ rnext' = [rnext EXCEPT ![r] = @ + 1]
  /\ UNCHANGED <<disk, hooks, rpc, rfiles, revents, cache, loaded>>

\* Nothing there, or the cache entry has this signature.
LoadFromCache(r) ==
  /\ rpc[r] = "stat"
  /\ rnext[r] > Len(rfiles[r])
  /\ rsig[r] = <<>> \/ rsig[r] = cache.sig
  /\ loaded' = [loaded EXCEPT ![r] = IF rsig[r] = <<>> THEN {} ELSE cache.events]
  /\ NextLoad(r)
  /\ UNCHANGED <<disk, hooks, cache>>

CacheMiss(r) ==
  /\ rpc[r] = "stat"
  /\ rnext[r] > Len(rfiles[r])
  /\ rsig[r] # <<>> /\ rsig[r] # cache.sig
  /\ rpc' = [rpc EXCEPT ![r] = "read"]
  /\ rnext' = [rnext EXCEPT ![r] = Len(rfiles[r])]
  /\ UNCHANGED <<disk, hooks, rfiles, rsig, revents, cache, loaded>>

\* _read_tail_lines on the listed paths, oldest first; a path that vanished
\* reads as empty.
ReadFile(r) ==
  /\ rpc[r] = "read"
  /\ rnext[r] > 0
  /\ revents' = [revents EXCEPT ![r] = @ \union FileView(rfiles[r][rnext[r]])]
  /\ rnext' = [rnext EXCEPT ![r] = @ - 1]
  /\ UNCHANGED <<disk, hooks, rpc, rfiles, rsig, cache, loaded>>

\* The cache entry a load leaves: its events under a signature of its files.
BugEntryResigned(r) ==
  [sig |-> [i \in 1 .. Len(SelectSeq(rfiles[r], LAMBDA g : gen[g] # NoFile)) |->
              StatOf(SelectSeq(rfiles[r], LAMBDA g : gen[g] # NoFile)[i])],
   events |-> Newest(revents[r], ReadLimit)]
Entry(r) == [sig |-> rsig[r], events |-> Newest(revents[r], ReadLimit)]

LoadEnd(r) ==
  /\ rpc[r] = "read"
  /\ rnext[r] = 0
  /\ cache' = Entry(r)
  /\ loaded' = [loaded EXCEPT ![r] = Newest(revents[r], ReadLimit)]
  /\ NextLoad(r)
  /\ UNCHANGED <<disk, hooks>>

ReaderStep(r) ==
  \/ ListFile(r) \/ StatFile(r) \/ LoadFromCache(r)
  \/ CacheMiss(r) \/ ReadFile(r) \/ LoadEnd(r)

-----------------------------------------------------------------------------
Next ==
  \/ \E h \in Hooks : Start(h) \/ HookStep(h) \/ Fail(h)
  \/ \E r \in Readers : ReaderStep(r)

Spec == Init /\ [][Next]_vars

\* A hook runs unless it is killed or hangs in a system call; the monitor
\* keeps loading.  Nobody has to start a hook.
Fairness ==
  /\ \A h \in Hooks \ Stalling : WF_vars(HookStep(h))
  /\ \A r \in Readers : WF_vars(ReaderStep(r))

FairSpec == Spec /\ Fairness

-----------------------------------------------------------------------------
Critical == {"stat", "unlink", "exists", "replace", "open", "write", "unlock"}

DiskTypes ==
  /\ written \in Nat
  /\ files \in Seq(SUBSET (1 .. written))
  /\ gen \in [Generations -> Inodes \union {NoFile}]

HookTypes ==
  /\ lock \in Hooks \union {NoHook} \union Locks
  /\ started \in 0 .. MaxHooks
  /\ failures \in 0 .. MaxFailures
  /\ pc \in [Hooks -> {"idle", "lock"} \union Critical]
  /\ shift \in [Hooks -> {0, 1}]
  /\ fd \in [Hooks -> Inodes \union {NoFile}]
  /\ \A h \in Hooks : pc[h] = "write" => fd[h] # NoFile

ReaderTypes ==
  /\ rpc \in [Readers -> {"list", "stat", "read"}]
  /\ rfiles \in [Readers -> Seq(Generations)]
  /\ rsig \in [Readers -> Seq(Nat \X Nat)]
  /\ rnext \in [Readers -> Nat]
  /\ revents \in [Readers -> SUBSET (1 .. written)]
  /\ cache \in [sig : Seq(Nat \X Nat), events : SUBSET (1 .. written)]
  /\ loaded \in [Readers -> SUBSET (1 .. written)]
  /\ \A r \in Readers :
       /\ rpc[r] = "list" => rnext[r] \in Generations
       /\ rpc[r] = "stat" => rnext[r] \in 1 .. Len(rfiles[r]) + 1
       /\ rpc[r] = "read" => rnext[r] \in 0 .. Len(rfiles[r])

TypeOK == DiskTypes /\ HookTypes /\ ReaderTypes

-----------------------------------------------------------------------------
(* Safety                                                                  *)

\* What a load of the files as they are now would return, and their signature.
LogView == Newest(FileView(0) \union FileView(1) \union FileView(2), ReadLimit)

PathSignature(g) == IF gen[g] = NoFile THEN <<>> ELSE <<StatOf(g)>>
DiskSignature == PathSignature(0) \o PathSignature(1) \o PathSignature(2)

\* The log keeps what README promises, the two generations before the live
\* one: rotation never discards one of the newest 2 * MaxLen events.  A hook
\* that dies between the two renames costs one generation, never the newest.
Kept == IF failures = 0 THEN 2 * MaxLen ELSE MaxLen

RetainsRecent == \A e \in 1 .. written : e > written - Kept => e \in OnDisk

\* No generation outgrows the limit, so three of them bound the disk usage:
\* the size is still the one checked when the event is written.
SizeBounded == \A g \in Generations : Cardinality(Content(g)) <= MaxLen

\* One hook at a time between the size check and the end of its write.
MutualExclusion == \A h \in Hooks : pc[h] \in Critical => lock = h

DistinctFiles ==
  \A f, g \in Generations : gen[f] # NoFile /\ gen[f] = gen[g] => f = g

\* The live file holds the newest events; Before is the last one older.
Before == written - Cardinality(Content(0))

LiveFile ==
  /\ Before \in Nat
  /\ Content(0) = Before + 1 .. written
  /\ Cardinality(Content(0)) <= MaxLen

\* What the hook in the critical section knows of the live file.
HolderKnows ==
  \A h \in Hooks :
    /\ pc[h] \in {"unlink", "exists", "replace"} => Cardinality(Content(0)) = MaxLen
    /\ pc[h] = "replace" => gen[shift[h]] # NoFile
    /\ pc[h] \in {"open", "write"} => Cardinality(Content(0)) < MaxLen
    /\ pc[h] = "write" => fd[h] = gen[0] /\ gen[0] # NoFile

\* The MaxLen events up to event t, and where the two older generations keep
\* theirs while a rotation moves them.
Chunk(t) == {e \in 1 .. t : e > t - MaxLen}

MovingLive == \E h \in Hooks : pc[h] \in {"exists", "replace"} /\ shift[h] = 0

OlderChunks ==
  /\ Cardinality(Content(0)) < MaxLen => Chunk(Before) \subseteq Content(1)
  /\ failures = 0 =>
       /\ Chunk(Before) \subseteq (IF MovingLive THEN Content(2) ELSE Content(1))
       /\ Cardinality(Content(0)) < MaxLen => Chunk(Before - MaxLen) \subseteq Content(2)

\* RetainsRecent is not inductive: a full live file alone does not say that
\* the next rotation will find its predecessors where it looks for them.
LogInv == MutualExclusion /\ DistinctFiles /\ LiveFile /\ HolderKnows /\ OlderChunks

\* What the log keeps for as many generations as hooks that die in mid-rotation
\* leave it.
KeptAlways == IF MaxFailures = 0 THEN 2 * MaxLen ELSE MaxLen

Promise == INSTANCE BoundedLog WITH Keep <- KeptAlways, log <- OnDisk

\* Nothing recent leaves the log, nothing that left it returns.
ImplementsBoundedLog == Promise!Spec

Rotating(h) ==
  \/ pc[h] \in {"exists", "replace"}
  \/ pc[h] = "open" /\ gen[0] = NoFile

\* Once a rotation is over, a cache entry is served only if it is what the
\* files hold: although a load takes the signature first and reads later,
\* and although a rotation moves the files between any two of its steps, what
\* it read wrongly is never found again under the signature of the new files.
CacheHonest ==
  (\A h \in Hooks : ~Rotating(h)) /\ cache.sig = DiskSignature /\ cache.sig # <<>>
    => cache.events = LogView

-----------------------------------------------------------------------------
(* Liveness                                                                *)

\* Every hook ends, even when another one hangs while it holds the lock: a
\* hook never blocks the Codex turn that waits for it.
HooksFinish == \A h \in Hooks \ Stalling : pc[h] # "idle" ~> pc[h] = "idle"

\* When no more hooks run, every load comes to return the log as it is: the
\* loads that ran into a rotation leave nothing wrong behind in the cache.
LoadsCatchUp == \A r \in Readers : <>[](loaded[r] = LogView)

=============================================================================
