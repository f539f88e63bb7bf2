--------------------------- MODULE HookLog_proofs ---------------------------
(* The hook log keeps its newest events, for every number of hooks, of     *)
(* readers and of events and every size limit: the inductive invariant     *)
(* LogInv, what follows from it, the refinement of BoundedLog, and that    *)
(* the cache serves what the files hold.                                   *)
EXTENDS HookLog, FiniteSetTheorems, SequenceTheorems, TLAPS

-----------------------------------------------------------------------------
(* Types                                                                   *)

LEMMA ReaderLeavesDisk ==
  ASSUME NEW r \in Readers, ReaderStep(r)
  PROVE  UNCHANGED <<disk, hooks>>
BY DEF ReaderStep, ListFile, StatFile, LoadFromCache, CacheMiss, ReadFile, LoadEnd

\* The types of the disk and of the hooks do not depend on the readers.
LEMMA DiskStep ==
  ASSUME DiskTypes, HookTypes, NEW h \in Hooks, Start(h) \/ HookStep(h) \/ Fail(h)
  PROVE  (DiskTypes /\ HookTypes)'
<1> USE HookLogAssumption DEF DiskTypes, HookTypes, Inodes, Critical, disk, Goto
<1>1. CASE Start(h) \/ Acquire(h) \/ LockTimeout(h) \/ StatLog(h)
  BY <1>1 DEF Start, Acquire, LockTimeout, StatLog
<1>2. CASE Unlock(h) \/ Fail(h) \/ ReplaceFails(h)
  BY <1>2 DEF Unlock, Fail, ReplaceFails, Release
<1>3. CASE UnlinkOldest(h)
  BY <1>3 DEF UnlinkOldest
<1>4. CASE ExistsCheck(h)
  BY <1>4 DEF ExistsCheck, AfterShift
<1>5. CASE Replace(h)
  <2>1. gen[shift[h]] \in Inodes /\ shift[h] + 1 \in Generations
    BY <1>5 DEF Replace, Generations
  <2>2. gen' \in [Generations -> Inodes \union {NoFile}]
    BY <1>5, <2>1 DEF Replace
  <2>3. QED
    BY <1>5, <2>2 DEF Replace, AfterShift
<1>6. CASE OpenLog(h)
  <2>1. CASE gen[0] = NoFile
    <3>1. /\ files' = Append(files, {}) /\ Len(files') = Len(files) + 1
          /\ files' \in Seq(SUBSET (1 .. written))
      <4>1. {} \in SUBSET (1 .. written)
        OBVIOUS
      <4>2. files' = Append(files, {})
        BY <1>6, <2>1 DEF OpenLog
      <4>3. QED
        BY <4>1, <4>2, AppendProperties
    <3>2. Len(files) + 1 \in 1 .. Len(files') /\ 1 .. Len(files) \subseteq 1 .. Len(files')
      BY <3>1
    <3>3. gen' \in [Generations -> Inodes' \union {NoFile}]
      BY <1>6, <2>1, <3>2 DEF OpenLog, Generations
    <3>4. fd' \in [Hooks -> Inodes' \union {NoFile}] /\ fd'[h] # NoFile
      BY <1>6, <2>1, <3>2 DEF OpenLog
    <3>5. \A k \in Hooks \ {h} : fd'[k] = fd[k]
      BY <1>6, <2>1 DEF OpenLog
    <3>6. QED
      BY <1>6, <3>1, <3>3, <3>4, <3>5 DEF OpenLog
  <2>2. CASE gen[0] # NoFile
    BY <1>6, <2>2 DEF OpenLog, Generations
  <2>3. QED
    BY <2>1, <2>2
<1>7. CASE WriteEvent(h)
  <2>1. fd[h] \in 1 .. Len(files)
    BY <1>7 DEF WriteEvent
  <2>2. files[fd[h]] \union {written + 1} \in SUBSET (1 .. written')
    BY <1>7, <2>1 DEF WriteEvent
  <2>3. \A i \in 1 .. Len(files) : files[i] \in SUBSET (1 .. written')
    BY <1>7 DEF WriteEvent
  <2>4. files' \in Seq(SUBSET (1 .. written')) /\ Len(files') = Len(files)
    BY <1>7, <2>1, <2>2, <2>3 DEF WriteEvent
  <2>5. QED
    BY <1>7, <2>4 DEF WriteEvent
<1>8. QED
  BY <1>1, <1>2, <1>3, <1>4, <1>5, <1>6, <1>7 DEF HookStep


\* A file is a finite set of events, so its size is a number.
LEMMA FileFacts ==
  ASSUME DiskTypes, NEW g \in Generations
  PROVE  /\ Content(g) \in SUBSET (1 .. written)
         /\ IsFiniteSet(Content(g))
         /\ Cardinality(Content(g)) \in Nat
         /\ gen[g] # NoFile => StatOf(g) \in Nat \X Nat
<1>1. Content(g) \in SUBSET (1 .. written)
  BY DEF DiskTypes, Content, Inodes
<1>2. written \in Nat
  BY DEF DiskTypes
<1>3. IsFiniteSet(1 .. written)
  BY <1>2, FS_Interval
<1>4. IsFiniteSet(Content(g))
  BY <1>1, <1>3, FS_Subset
<1>5. Cardinality(Content(g)) \in Nat
  BY <1>4, FS_CardinalityType
<1>6. gen[g] # NoFile => StatOf(g) \in Nat \X Nat
  BY <1>5 DEF Content, StatOf, DiskTypes, Inodes
<1>7. QED
  BY <1>1, <1>4, <1>5, <1>6

LEMMA ReaderTypeStep ==
  ASSUME DiskTypes, ReaderTypes, NEW r \in Readers, ReaderStep(r)
  PROVE  ReaderTypes'
<1>1. written' = written
  BY ReaderLeavesDisk DEF disk
<1> USE <1>1 DEF ReaderTypes, Generations
<1>2. CASE ListFile(r)
  <2>1. rnext[r] \in Generations /\ rfiles[r] \in Seq(Generations)
    BY <1>2 DEF ListFile
  <2>2. Append(rfiles[r], rnext[r]) \in Seq(Generations)
    BY <2>1
  <2>3. rfiles' \in [Readers -> Seq(Generations)]
    BY <1>2, <2>2 DEF ListFile
  <2>4. Len(rfiles'[r]) \in Nat
    BY <2>3
  <2>5. \A q \in Readers \ {r} :
          rpc'[q] = rpc[q] /\ rnext'[q] = rnext[q] /\ rfiles'[q] = rfiles[q]
    BY <1>2 DEF ListFile
  <2>6. /\ rpc'[r] \in {"list", "stat"} /\ rnext'[r] \in Nat
        /\ rpc'[r] = "list" => rnext'[r] \in 0 .. 2
        /\ rpc'[r] = "stat" => rnext'[r] = 1
    BY <1>2, <2>1 DEF ListFile
  <2>7. rpc' \in [Readers -> {"list", "stat", "read"}] /\ rnext' \in [Readers -> Nat]
    BY <1>2, <2>1 DEF ListFile
  <2>8. QED
    BY <1>2, <2>3, <2>4, <2>5, <2>6, <2>7 DEF ListFile
<1>3. CASE StatFile(r)
  <2>1. rfiles[r][rnext[r]] \in Generations
    BY <1>3 DEF StatFile
  <2>2. rsig' \in [Readers -> Seq(Nat \X Nat)]
    <3> DEFINE g == rfiles[r][rnext[r]]
    <3>1. gen[g] # NoFile => Append(rsig[r], StatOf(g)) \in Seq(Nat \X Nat)
      BY <2>1, FileFacts, AppendProperties
    <3> DEFINE sig == IF gen[g] = NoFile THEN rsig[r] ELSE Append(rsig[r], StatOf(g))
    <3>2. sig \in Seq(Nat \X Nat)
      BY <3>1
    <3>3. rsig' = [rsig EXCEPT ![r] = sig]
      BY <1>3 DEF StatFile
    <3> HIDE DEF sig
    <3>4. QED
      BY <3>2, <3>3
  <2>3. /\ UNCHANGED <<rpc, rfiles, revents, cache, loaded>>
        /\ rnext' = [rnext EXCEPT ![r] = rnext[r] + 1]
        /\ rpc[r] = "stat" /\ rnext[r] \in 1 .. Len(rfiles[r])
    BY <1>3 DEF StatFile
  <2>4. rnext' \in [Readers -> Nat]
    BY <2>3
  <2>5. Len(rfiles[r]) \in Nat
    OBVIOUS
  <2>6. \A q \in Readers :
          /\ rpc[q] = "list" => rnext'[q] \in Generations
          /\ rpc[q] = "stat" => rnext'[q] \in 1 .. Len(rfiles[q]) + 1
          /\ rpc[q] = "read" => rnext'[q] \in 0 .. Len(rfiles[q])
    BY <2>3, <2>5
  <2>7. QED
    BY <2>2, <2>3, <2>4, <2>6
<1>4. CASE LoadFromCache(r)
  BY <1>4 DEF LoadFromCache, NextLoad
<1>5. CASE CacheMiss(r)
  BY <1>5 DEF CacheMiss
<1>6. CASE ReadFile(r)
  <2>1. rfiles[r][rnext[r]] \in Generations
    BY <1>6 DEF ReadFile
  <2>2. FileView(rfiles[r][rnext[r]]) \subseteq 1 .. written
    BY <2>1, FileFacts DEF FileView, Newest
  <2>3. QED
    BY <1>6, <2>2 DEF ReadFile
<1>7. CASE LoadEnd(r)
  <2>1. Newest(revents[r], ReadLimit) \subseteq 1 .. written
    BY DEF Newest
  <2>2. QED
    BY <1>7, <2>1 DEF LoadEnd, NextLoad, Entry
<1>8. QED
  BY <1>2, <1>3, <1>4, <1>5, <1>6, <1>7 DEF ReaderStep

LEMMA TypeStep ==
  ASSUME TypeOK, [Next]_vars
  PROVE  TypeOK'
<1>1. ASSUME NEW h \in Hooks, Start(h) \/ HookStep(h) \/ Fail(h) PROVE TypeOK'
  <2>1. (DiskTypes /\ HookTypes)'
    BY <1>1, DiskStep DEF TypeOK
  <2>2. UNCHANGED readers /\ (written' = written \/ written' = written + 1)
    BY <1>1 DEF Start, HookStep, Fail, Acquire, LockTimeout, StatLog, UnlinkOldest,
       ExistsCheck, Replace, ReplaceFails, OpenLog, WriteEvent, Unlock, disk
  <2>3. 1 .. written \subseteq 1 .. written'
    BY <2>2 DEF TypeOK, DiskTypes
  <2>4. ReaderTypes'
    BY <2>2, <2>3 DEF TypeOK, ReaderTypes, readers
  <2>5. QED
    BY <2>1, <2>4 DEF TypeOK
<1>2. ASSUME NEW r \in Readers, ReaderStep(r) PROVE TypeOK'
  <2>1. ReaderTypes'
    BY <1>2, ReaderTypeStep DEF TypeOK
  <2>2. QED
    BY <1>2, <2>1, ReaderLeavesDisk DEF TypeOK, DiskTypes, HookTypes, disk, hooks, Inodes
<1>3. CASE UNCHANGED vars
  BY <1>3 DEF TypeOK, DiskTypes, HookTypes, ReaderTypes, vars, disk, hooks,
     readers, Inodes
<1>4. QED
  BY <1>1, <1>2, <1>3 DEF Next

\* Type correctness; in particular no load indexes past the files it found.
THEOREM TypeCorrect == Spec => []TypeOK
<1>1. Init => TypeOK
  BY HookLogAssumption DEF Init, TypeOK, DiskTypes, HookTypes, ReaderTypes,
     Inodes, Generations, Critical
<1>2. QED
  BY <1>1, TypeStep, PTL DEF Spec

LEMMA IntervalFacts ==
  /\ \A n \in Nat : n + 1 .. n = {}
  /\ \A m, n \in Nat : m <= n => (m + 1 .. n) \union {n + 1} = m + 1 .. n + 1
OBVIOUS

-----------------------------------------------------------------------------
(* The inductive invariant, when the lock is taken                         *)

\* Steps that leave the files as they are keep what is said of the files.
LEMMA SameDisk ==
  ASSUME TypeOK, LogInv, UNCHANGED disk
  PROVE  /\ DistinctFiles' /\ LiveFile'
         /\ \A g \in Generations : Content(g)' = Content(g)
         /\ Before' = Before
         /\ \A t \in Int : Chunk(t)' = Chunk(t)
BY DEF LogInv, DistinctFiles, LiveFile, Content, Before, Chunk, disk, Generations

\* A hook that is in the critical section is alone there.
LEMMA Alone ==
  ASSUME LogInv, Locks = {NoHook}, NEW h \in Hooks, pc[h] \in Critical
  PROVE  \A k \in Hooks \ {h} : pc[k] \notin Critical
BY DEF LogInv, MutualExclusion

\* Steps outside the files: taking and giving back the lock, giving up.
LEMMA QuietStep ==
  ASSUME TypeOK, LogInv, Locks = {NoHook}, NEW h \in Hooks,
         \/ Start(h) \/ Acquire(h) \/ LockTimeout(h) \/ StatLog(h)
         \/ ReplaceFails(h) \/ Unlock(h) \/ Fail(h)
  PROVE  LogInv'
<1> USE DEF TypeOK, HookTypes, Goto
<1>1. UNCHANGED disk /\ UNCHANGED <<shift, fd>>
  BY DEF Start, Acquire, LockTimeout, StatLog, ReplaceFails, Unlock, Fail
<1>2. /\ DistinctFiles' /\ LiveFile'
      /\ \A g \in Generations : Content(g)' = Content(g)
      /\ Before' = Before
      /\ \A t \in Int : Chunk(t)' = Chunk(t)
  BY <1>1, SameDisk
<1>3. \A k \in Hooks \ {h} : pc'[k] = pc[k]
  BY DEF Start, Acquire, LockTimeout, StatLog, ReplaceFails, Unlock, Fail
<1>4. MutualExclusion'
  BY <1>3, HookLogAssumption DEF LogInv, MutualExclusion, Critical, Start, Acquire,
     LockTimeout, StatLog, ReplaceFails, Unlock, Fail, Release
<1>5. Content(0)' = Content(0) /\ Content(1)' = Content(1) /\ Content(2)' = Content(2)
  BY <1>2 DEF Generations
<1>6. HolderKnows'
  <2>1. CASE StatLog(h)
    <3>1. Cardinality(Content(0)) \in Nat /\ IsFiniteSet(Content(0))
      BY FileFacts DEF Generations
    <3>2. Content(0) = {} => Cardinality(Content(0)) = 0
      BY FS_EmptySet
    <3>3. NeedsRotation => Cardinality(Content(0)) = MaxLen
      BY <3>1, HookLogAssumption DEF NeedsRotation, LogInv, LiveFile
    <3>4. ~NeedsRotation => Cardinality(Content(0)) < MaxLen
      BY <3>1, <3>2, HookLogAssumption DEF NeedsRotation
    <3>5. pc'[h] = IF NeedsRotation THEN "unlink" ELSE "open"
      BY <2>1 DEF StatLog
    <3>6. QED
      BY <1>1, <1>3, <1>5, <3>3, <3>4, <3>5 DEF LogInv, HolderKnows, disk
  <2>2. CASE ~StatLog(h)
    <3>1. pc'[h] \in {"idle", "lock", "stat"}
      BY <2>2 DEF Start, Acquire, LockTimeout, ReplaceFails, Unlock, Fail
    <3>2. QED
      BY <1>1, <1>3, <1>5, <3>1 DEF LogInv, HolderKnows, disk
  <2>3. QED
    BY <2>1, <2>2
<1>7. Before \in Nat /\ MaxLen \in Nat
  BY HookLogAssumption DEF LogInv, LiveFile
<1>8. Chunk(Before)' = Chunk(Before) /\ Chunk(Before - MaxLen)' = Chunk(Before - MaxLen)
  BY <1>2, <1>7
<1>9. failures' = 0 => failures = 0
  BY DEF Start, Acquire, LockTimeout, StatLog, ReplaceFails, Unlock, Fail
<1>10. failures' = 0 => (MovingLive' <=> MovingLive)
  <2>1. CASE pc[h] \notin {"exists", "replace"}
    <3>1. pc'[h] \notin {"exists", "replace"}
      BY <2>1 DEF Start, Acquire, LockTimeout, StatLog, ReplaceFails, Unlock, Fail
    <3>2. QED
      BY <1>1, <1>3, <2>1, <3>1 DEF MovingLive
  <2>2. CASE ReplaceFails(h)
    \* impossible: the lock keeps the file where exists() saw it
    BY <2>2 DEF ReplaceFails, LogInv, HolderKnows
  <2>3. CASE Fail(h)
    BY <2>3 DEF Fail
  <2>4. QED
    BY <2>1, <2>2, <2>3 DEF Start, Acquire, LockTimeout, StatLog, Unlock
<1>11. OlderChunks'
  BY <1>5, <1>8, <1>9, <1>10 DEF LogInv, OlderChunks
<1>12. QED
  BY <1>2, <1>4, <1>6, <1>11 DEF LogInv


\* Where the hook that rotates is alone, only its own step matters.
LEMMA MovingAlone ==
  ASSUME LogInv, Locks = {NoHook}, NEW h \in Hooks, pc[h] \in Critical
  PROVE  MovingLive <=> pc[h] \in {"exists", "replace"} /\ shift[h] = 0
BY Alone DEF MovingLive, Critical

LEMMA CriticalStep ==
  ASSUME TypeOK, LogInv, Locks = {NoHook}, NEW h \in Hooks,
         pc[h] \in Critical, pc'[h] \in Critical, UNCHANGED lock,
         \A k \in Hooks \ {h} : pc'[k] = pc[k] /\ shift'[k] = shift[k]
  PROVE  /\ MutualExclusion'
         /\ \A k \in Hooks \ {h} : pc'[k] \notin Critical
         /\ MovingLive' <=> pc'[h] \in {"exists", "replace"} /\ shift'[h] = 0
BY Alone DEF LogInv, MutualExclusion, MovingLive, Critical

LEMMA FullLive ==
  ASSUME TypeOK, LogInv, NEW h \in Hooks, pc[h] \in {"unlink", "exists", "replace"}
  PROVE  gen[0] # NoFile /\ Cardinality(Content(0)) = MaxLen
<1>1. Cardinality(Content(0)) = MaxLen /\ MaxLen \in Nat \ {0}
  BY HookLogAssumption DEF LogInv, HolderKnows
<1>2. Content(0) # {}
  BY <1>1, FS_EmptySet
<1>3. QED
  BY <1>1, <1>2 DEF Content

LEMMA UnlinkStep ==
  ASSUME TypeOK, LogInv, Locks = {NoHook}, NEW h \in Hooks, UnlinkOldest(h)
  PROVE  LogInv'
<1> USE DEF TypeOK, DiskTypes, HookTypes, Goto, Generations
<1>1. /\ pc[h] = "unlink" /\ pc'[h] = "exists" /\ shift'[h] = 1
      /\ UNCHANGED <<files, written, lock, failures, fd>>
      /\ \A k \in Hooks \ {h} : pc'[k] = pc[k] /\ shift'[k] = shift[k]
      /\ gen' = [gen EXCEPT ![2] = NoFile]
  BY DEF UnlinkOldest
<1>2. /\ MutualExclusion'
      /\ \A k \in Hooks \ {h} : pc'[k] \notin Critical
      /\ ~MovingLive'
  BY <1>1, CriticalStep DEF Critical
<1>3. ~MovingLive
  BY <1>1, MovingAlone DEF Critical
<1>4. /\ Content(0)' = Content(0) /\ Content(1)' = Content(1)
      /\ Before' = Before
      /\ Chunk(Before)' = Chunk(Before)
  BY <1>1 DEF Content, Before, Chunk
<1>5. Cardinality(Content(0)) = MaxLen /\ gen[0] # NoFile
  BY <1>1, FullLive
<1>6. DistinctFiles'
  BY <1>1 DEF LogInv, DistinctFiles
<1>7. LiveFile'
  BY <1>1, <1>4 DEF LogInv, LiveFile
<1>8. HolderKnows'
  BY <1>1, <1>2, <1>4, <1>5 DEF HolderKnows, Critical
<1>9. OlderChunks'
  BY <1>1, <1>2, <1>3, <1>4, <1>5, HookLogAssumption DEF LogInv, OlderChunks
<1>10. QED
  BY <1>2, <1>6, <1>7, <1>8, <1>9 DEF LogInv

LEMMA ExistsStep ==
  ASSUME TypeOK, LogInv, Locks = {NoHook}, NEW h \in Hooks, ExistsCheck(h)
  PROVE  LogInv'
<1> USE DEF TypeOK, DiskTypes, HookTypes, Goto, Generations
<1>1. /\ pc[h] = "exists" /\ UNCHANGED <<disk, lock, failures, fd>>
      /\ \A k \in Hooks \ {h} : pc'[k] = pc[k] /\ shift'[k] = shift[k]
  BY DEF ExistsCheck, AfterShift
<1>2. Cardinality(Content(0)) = MaxLen /\ gen[0] # NoFile
  BY <1>1, FullLive
<1>3. \/ gen[shift[h]] # NoFile /\ pc'[h] = "replace" /\ shift'[h] = shift[h]
      \/ gen[1] = NoFile /\ shift[h] = 1 /\ pc'[h] = "exists" /\ shift'[h] = 0
  BY <1>1, <1>2 DEF ExistsCheck, AfterShift
<1>4. /\ DistinctFiles' /\ LiveFile'
      /\ Content(0)' = Content(0) /\ Content(1)' = Content(1) /\ Content(2)' = Content(2)
      /\ Before' = Before
      /\ \A t \in Int : Chunk(t)' = Chunk(t)
  BY <1>1, SameDisk
<1>5. /\ MutualExclusion'
      /\ \A k \in Hooks \ {h} : pc'[k] \notin Critical
      /\ MovingLive' <=> shift'[h] = 0
  BY <1>1, <1>3, CriticalStep DEF Critical
<1>6. MovingLive <=> shift[h] = 0
  BY <1>1, MovingAlone DEF Critical
<1>7. HolderKnows'
  BY <1>1, <1>2, <1>3, <1>4, <1>5 DEF HolderKnows, Critical, disk
<1>8. Before \in Nat /\ MaxLen \in Nat
  BY HookLogAssumption DEF LogInv, LiveFile
<1>9. OlderChunks'
  <2>1. CASE shift'[h] = shift[h]
    BY <1>1, <1>2, <1>4, <1>5, <1>6, <1>8, <2>1 DEF LogInv, OlderChunks
  <2>2. CASE gen[1] = NoFile /\ shift[h] = 1 /\ shift'[h] = 0
    <3>1. Content(1) = {}
      BY <2>2 DEF Content
    <3>2. QED
      BY <1>1, <1>2, <1>4, <1>5, <1>6, <1>8, <2>2, <3>1 DEF LogInv, OlderChunks
  <2>3. QED
    BY <1>3, <2>1, <2>2
<1>10. QED
  BY <1>4, <1>5, <1>7, <1>9 DEF LogInv


LEMMA ReplaceStep ==
  ASSUME TypeOK, LogInv, Locks = {NoHook}, NEW h \in Hooks, Replace(h)
  PROVE  LogInv'
<1> USE DEF TypeOK, DiskTypes, HookTypes, Goto, Generations
<1>1. /\ pc[h] = "replace" /\ shift'[h] = 0 /\ gen[shift[h]] # NoFile
      /\ UNCHANGED <<files, written, lock, failures, fd>>
      /\ \A k \in Hooks \ {h} : pc'[k] = pc[k] /\ shift'[k] = shift[k]
      /\ pc'[h] = IF shift[h] = 1 THEN "exists" ELSE "open"
      /\ gen' = [gen EXCEPT ![shift[h] + 1] = gen[shift[h]], ![shift[h]] = NoFile]
  BY DEF Replace, AfterShift
<1>2. /\ MutualExclusion'
      /\ \A k \in Hooks \ {h} : pc'[k] \notin Critical
      /\ MovingLive' <=> pc'[h] = "exists"
  BY <1>1, CriticalStep DEF Critical
<1>3. MovingLive <=> shift[h] = 0
  BY <1>1, MovingAlone DEF Critical
<1>4. Cardinality(Content(0)) = MaxLen /\ gen[0] # NoFile
  BY <1>1, FullLive
<1>5. /\ Before \in Nat /\ written \in Nat /\ MaxLen \in Nat \ {0}
      /\ Before = written - MaxLen
      /\ Content(0) = Before + 1 .. written
  BY <1>4, HookLogAssumption DEF LogInv, LiveFile, Before
<1>6. \A t \in Int : Chunk(t)' = Chunk(t)
  BY DEF Chunk
<1>7. DistinctFiles'
  BY <1>1 DEF LogInv, DistinctFiles
<1>8. CASE shift[h] = 1
  <2>1. gen'[0] = gen[0] /\ gen'[1] = NoFile /\ gen'[2] = gen[1]
    BY <1>1, <1>8
  <2>2. Content(0)' = Content(0) /\ Content(2)' = Content(1) /\ Before' = Before
    BY <1>1, <2>1 DEF Content, Before
  <2>3. LiveFile'
    BY <1>1, <2>2 DEF LogInv, LiveFile
  <2>4. HolderKnows'
    BY <1>1, <1>2, <1>4, <1>8, <2>2 DEF HolderKnows, Critical
  <2>5. OlderChunks'
    BY <1>1, <1>2, <1>3, <1>4, <1>5, <1>6, <1>8, <2>2 DEF LogInv, OlderChunks
  <2>6. QED
    BY <1>2, <1>7, <2>3, <2>4, <2>5 DEF LogInv
<1>9. CASE shift[h] = 0
  <2>1. gen'[0] = NoFile /\ gen'[1] = gen[0] /\ gen'[2] = gen[2]
    BY <1>1, <1>9
  <2>2. Content(0)' = {} /\ Content(1)' = Content(0) /\ Content(2)' = Content(2)
    BY <1>1, <2>1 DEF Content
  <2>3. Cardinality(Content(0)') = 0
    BY <2>2, FS_EmptySet
  <2>4. Before' = written
    BY <1>1, <1>5, <2>3 DEF Before
  <2>5. LiveFile'
    <3>1. written' = written /\ written \in Nat /\ MaxLen \in Nat
      BY <1>1, <1>5
    <3>2. written + 1 .. written = {}
      BY <3>1, IntervalFacts
    <3>3. Content(0)' = Before' + 1 .. written'
      BY <2>2, <2>4, <3>1, <3>2
    <3>4. QED
      BY <2>3, <2>4, <3>1, <3>3 DEF LiveFile
  <2>6. HolderKnows'
    BY <1>1, <1>2, <1>5, <1>9, <2>3 DEF HolderKnows, Critical
  <2>7. Chunk(written) \subseteq Content(0)
    BY <1>5 DEF Chunk
  <2>8. failures = 0 => Chunk(written - MaxLen) \subseteq Content(2)
    BY <1>3, <1>5, <1>9 DEF LogInv, OlderChunks
  <2>9. ~MovingLive'
    BY <1>1, <1>2, <1>9
  <2>10. OlderChunks'
    BY <1>1, <1>5, <1>6, <2>2, <2>3, <2>4, <2>7, <2>8, <2>9 DEF OlderChunks
  <2>11. QED
    BY <1>2, <1>7, <2>5, <2>6, <2>10 DEF LogInv
<1>10. QED
  BY <1>8, <1>9

\* Opening may create the live file, which changes no generation's content.
LEMMA OpenKeepsContent ==
  ASSUME TypeOK, LogInv, NEW h \in Hooks, OpenLog(h)
  PROVE  DistinctFiles' /\ \A g \in Generations : Content(g)' = Content(g)
<1> USE DEF TypeOK, DiskTypes, HookTypes, Generations, Inodes
<1>1. CASE gen[0] # NoFile
  BY <1>1 DEF OpenLog, LogInv, DistinctFiles, Content
<1>2. CASE gen[0] = NoFile
  <2>1. /\ files' = Append(files, {})
        /\ gen' = [gen EXCEPT ![0] = Len(files) + 1]
    BY <1>2 DEF OpenLog
  <2>2. /\ files'[Len(files) + 1] = {} /\ Len(files) \in Nat
        /\ \A i \in 1 .. Len(files) : files'[i] = files[i]
    <3>1. {} \in SUBSET (1 .. written)
      OBVIOUS
    <3>2. QED
      BY <2>1, <3>1, AppendProperties, LenProperties
  <2>3. \A g \in Generations \ {0} : gen'[g] = gen[g]
    BY <2>1
  <2>4. Len(files) + 1 \notin Inodes /\ Len(files) + 1 # NoFile
    BY <2>2, HookLogAssumption
  <2>5. DistinctFiles'
    BY <2>1, <2>3, <2>4 DEF LogInv, DistinctFiles
  <2>6. \A g \in Generations : Content(g)' = Content(g)
    BY <1>2, <2>1, <2>2, <2>3, <2>4 DEF Content
  <2>7. QED
    BY <2>5, <2>6
<1>3. QED
  BY <1>1, <1>2

LEMMA OpenStep ==
  ASSUME TypeOK, LogInv, Locks = {NoHook}, NEW h \in Hooks, OpenLog(h)
  PROVE  LogInv'
<1> USE DEF TypeOK, DiskTypes, HookTypes, Goto, Generations, Inodes
<1>1. /\ pc[h] = "open" /\ pc'[h] = "write"
      /\ UNCHANGED <<written, lock, failures, shift>>
      /\ \A k \in Hooks \ {h} : pc'[k] = pc[k] /\ fd'[k] = fd[k]
      /\ fd'[h] = gen'[0] /\ gen'[0] # NoFile
  BY HookLogAssumption DEF OpenLog
<1>2. /\ MutualExclusion'
      /\ \A k \in Hooks \ {h} : pc'[k] \notin Critical
      /\ ~MovingLive'
  BY <1>1, CriticalStep DEF Critical
<1>3. ~MovingLive
  BY <1>1, MovingAlone DEF Critical
<1>4. Cardinality(Content(0)) < MaxLen
  BY <1>1 DEF LogInv, HolderKnows
<1>5. DistinctFiles' /\ \A g \in Generations : Content(g)' = Content(g)
  BY OpenKeepsContent
<1>6. Content(0)' = Content(0) /\ Content(1)' = Content(1) /\ Content(2)' = Content(2)
  BY <1>5
<1>7. Before' = Before /\ \A t \in Int : Chunk(t)' = Chunk(t)
  BY <1>1, <1>6 DEF Before, Chunk
<1>8. Before \in Nat /\ MaxLen \in Nat
  BY HookLogAssumption DEF LogInv, LiveFile
<1>9. LiveFile'
  BY <1>1, <1>6, <1>7 DEF LogInv, LiveFile
<1>10. HolderKnows'
  BY <1>1, <1>2, <1>4, <1>6 DEF HolderKnows, Critical
<1>11. OlderChunks'
  BY <1>1, <1>2, <1>3, <1>6, <1>7, <1>8 DEF LogInv, OlderChunks
<1>12. QED
  BY <1>2, <1>5, <1>9, <1>10, <1>11 DEF LogInv

LEMMA WriteStep ==
  ASSUME TypeOK, LogInv, Locks = {NoHook}, NEW h \in Hooks, WriteEvent(h)
  PROVE  LogInv'
<1> USE DEF TypeOK, DiskTypes, HookTypes, Goto, Generations, Inodes
<1>1. /\ pc[h] = "write" /\ pc'[h] = "unlock"
      /\ UNCHANGED <<gen, lock, failures, shift, fd>>
      /\ \A k \in Hooks \ {h} : pc'[k] = pc[k]
      /\ written' = written + 1
      /\ files' = [files EXCEPT ![fd[h]] = @ \union {written + 1}]
  BY DEF WriteEvent
<1>2. /\ MutualExclusion'
      /\ \A k \in Hooks \ {h} : pc'[k] \notin Critical
      /\ ~MovingLive'
  BY <1>1, CriticalStep DEF Critical
<1>3. ~MovingLive
  BY <1>1, MovingAlone DEF Critical
<1>4. /\ fd[h] = gen[0] /\ gen[0] # NoFile
      /\ Cardinality(Content(0)) < MaxLen
  BY <1>1 DEF LogInv, HolderKnows
<1>5. /\ Content(0)' = Content(0) \union {written + 1}
      /\ Content(1)' = Content(1) /\ Content(2)' = Content(2)
  BY <1>1, <1>4 DEF Content, LogInv, DistinctFiles
<1>6. /\ Before \in Nat /\ written \in Nat /\ MaxLen \in Nat
      /\ Content(0) = Before + 1 .. written
      /\ Cardinality(Content(0)) \in Nat /\ IsFiniteSet(Content(0))
  BY HookLogAssumption, FileFacts DEF LogInv, LiveFile
<1>7. Cardinality(Content(0)') = Cardinality(Content(0)) + 1
  <2>1. written + 1 \notin Content(0)
    BY <1>6
  <2>2. Cardinality(Content(0) \union {written + 1}) = Cardinality(Content(0)) + 1
    BY <1>6, <2>1, FS_AddElement
  <2>3. QED
    BY <1>5, <2>2
<1>8. Before' = Before
  BY <1>1, <1>6, <1>7 DEF Before
<1>9. \A t \in Int : Chunk(t)' = Chunk(t)
  BY DEF Chunk
<1>10. LiveFile'
  <2>1. Before <= written
    BY <1>6 DEF Before
  <2>2. Content(0)' = Before + 1 .. written + 1
    BY <1>5, <1>6, <2>1, IntervalFacts
  <2>3. QED
    BY <1>1, <1>4, <1>6, <1>7, <1>8, <2>2 DEF LiveFile
<1>11. HolderKnows'
  BY <1>1, <1>2 DEF HolderKnows, Critical
<1>12. DistinctFiles'
  BY <1>1 DEF LogInv, DistinctFiles
<1>13. OlderChunks'
  BY <1>1, <1>2, <1>3, <1>4, <1>5, <1>6, <1>7, <1>8, <1>9 DEF LogInv, OlderChunks
<1>14. QED
  BY <1>2, <1>10, <1>11, <1>12, <1>13 DEF LogInv

LEMMA ReaderKeepsLogInv ==
  ASSUME TypeOK, LogInv, UNCHANGED <<disk, hooks>>
  PROVE  LogInv'
<1>1. UNCHANGED <<lock, failures, pc, shift, fd>> /\ UNCHANGED disk
  BY DEF hooks
<1>2. /\ DistinctFiles' /\ LiveFile'
      /\ Content(0)' = Content(0) /\ Content(1)' = Content(1) /\ Content(2)' = Content(2)
      /\ Before' = Before
      /\ \A t \in Int : Chunk(t)' = Chunk(t)
  BY <1>1, SameDisk DEF Generations
<1>3. Before \in Nat /\ MaxLen \in Nat
  BY HookLogAssumption DEF LogInv, LiveFile
<1>4. MutualExclusion' /\ HolderKnows'
  BY <1>1, <1>2 DEF LogInv, MutualExclusion, HolderKnows, disk
<1>5. MovingLive' <=> MovingLive
  BY <1>1 DEF MovingLive
<1>6. OlderChunks'
  BY <1>1, <1>2, <1>3, <1>5 DEF LogInv, OlderChunks
<1>7. QED
  BY <1>2, <1>4, <1>6 DEF LogInv

LEMMA LogInvStep ==
  ASSUME TypeOK, LogInv, Locks = {NoHook}, [Next]_vars
  PROVE  LogInv'
<1>1. ASSUME NEW h \in Hooks, Start(h) \/ HookStep(h) \/ Fail(h) PROVE LogInv'
  BY <1>1, QuietStep, UnlinkStep, ExistsStep, ReplaceStep, OpenStep, WriteStep DEF HookStep
<1>2. ASSUME NEW r \in Readers, ReaderStep(r) PROVE LogInv'
  BY <1>2, ReaderLeavesDisk, ReaderKeepsLogInv
<1>3. CASE UNCHANGED vars
  BY <1>3, ReaderKeepsLogInv DEF vars
<1>4. QED
  BY <1>1, <1>2, <1>3 DEF Next

LEMMA InitLogInv == Init => LogInv
<1> SUFFICES ASSUME Init PROVE LogInv
  OBVIOUS
<1>1. \A g \in Generations : Content(g) = {}
  BY DEF Init, Content
<1>2. Content(0) = {} /\ Cardinality({}) = 0
  BY <1>1, FS_EmptySet DEF Generations
<1>3. Before = 0 /\ written = 0
  <2>1. written = 0
    BY DEF Init
  <2>2. QED
    BY <1>2, <2>1 DEF Before
<1>4. LiveFile
  <2>1. 0 + 1 .. 0 = {} /\ 0 <= MaxLen
    BY HookLogAssumption
  <2>2. Content(0) = Before + 1 .. written
    BY <1>2, <1>3, <2>1
  <2>3. Cardinality(Content(0)) <= MaxLen
    BY <1>2, <2>1
  <2>4. QED
    BY <1>3, <2>2, <2>3 DEF LiveFile
<1>5. Chunk(Before) = {} /\ Chunk(Before - MaxLen) = {}
  BY <1>3, HookLogAssumption DEF Chunk
<1>6. MutualExclusion /\ DistinctFiles /\ HolderKnows
  BY DEF Init, MutualExclusion, DistinctFiles, HolderKnows, Critical
<1>7. QED
  BY <1>4, <1>5, <1>6 DEF LogInv, OlderChunks

\* With the lock, one hook at a time checks the size, rotates and writes,
\* and every rotation finds the older generations where it expects them.
THEOREM LockedLogInvariant ==
  ASSUME Locks = {NoHook}
  PROVE  Spec => []LogInv
<1>1. TypeOK /\ LogInv /\ [Next]_vars => LogInv'
  BY LogInvStep
<1>2. QED
  BY <1>1, InitLogInv, TypeCorrect, PTL DEF Spec

-----------------------------------------------------------------------------
(* What follows                                                            *)

LEMMA RecentFollows ==
  ASSUME TypeOK, LogInv
  PROVE  RetainsRecent
<1> SUFFICES ASSUME NEW e \in 1 .. written, e > written - Kept
             PROVE  e \in OnDisk
  BY DEF RetainsRecent
<1>1. /\ Before \in Nat /\ written \in Nat /\ MaxLen \in Nat
      /\ Content(0) = Before + 1 .. written
      /\ Cardinality(Content(0)) \in Nat /\ Cardinality(Content(0)) <= MaxLen
      /\ Before = written - Cardinality(Content(0))
  BY HookLogAssumption, FileFacts
     DEF LogInv, LiveFile, Before, TypeOK, DiskTypes, Generations
<1>2. CASE e > Before
  BY <1>1, <1>2 DEF OnDisk
<1>3. CASE e <= Before /\ e > Before - MaxLen
  <2>1. e \in Chunk(Before)
    BY <1>1, <1>3 DEF Chunk
  <2>2. CASE failures = 0
    BY <2>1, <2>2 DEF LogInv, OlderChunks, OnDisk
  <2>3. CASE failures # 0
    <3>1. Cardinality(Content(0)) < MaxLen
      BY <1>1, <1>3, <2>3 DEF Kept
    <3>2. QED
      BY <2>1, <3>1 DEF LogInv, OlderChunks, OnDisk
  <2>4. QED
    BY <2>2, <2>3
<1>4. CASE e <= Before - MaxLen
  <2>1. failures = 0 /\ Cardinality(Content(0)) < MaxLen
    BY <1>1, <1>4 DEF Kept
  <2>2. e \in Chunk(Before - MaxLen)
    BY <1>1, <1>4, <2>1 DEF Chunk, Kept
  <2>3. QED
    BY <2>1, <2>2 DEF LogInv, OlderChunks, OnDisk
<1>5. QED
  BY <1>1, <1>2, <1>3, <1>4

\* The Codex log keeps the newest two generations' worth of events, and one
\* generation's worth whatever hooks died or failed in mid-append.
THEOREM LockedLogRetainsRecent ==
  ASSUME Locks = {NoHook}
  PROVE  Spec => []RetainsRecent
<1>1. TypeOK /\ LogInv => RetainsRecent
  BY RecentFollows
<1>2. QED
  BY <1>1, TypeCorrect, LockedLogInvariant, PTL

\* Only a write changes the events on disk, apart from evicting some.
LEMMA OnDiskStep ==
  ASSUME TypeOK, LogInv, [Next]_vars
  PROVE  \/ written' = written /\ OnDisk' \subseteq OnDisk
         \/ written' = written + 1 /\ OnDisk' = OnDisk \union {written + 1}
<1> DEFINE Goal == \/ written' = written /\ OnDisk' \subseteq OnDisk
                   \/ written' = written + 1 /\ OnDisk' = OnDisk \union {written + 1}
<1> USE DEF TypeOK, DiskTypes, HookTypes, Inodes, Generations
<1>1. CASE UNCHANGED disk
  BY <1>1 DEF disk, OnDisk, Content
<1>2. ASSUME NEW h \in Hooks, UnlinkOldest(h) PROVE Goal
  BY <1>2 DEF UnlinkOldest, OnDisk, Content
<1>3. ASSUME NEW h \in Hooks, Replace(h) PROVE Goal
  <2>1. UNCHANGED <<files, written>>
    BY <1>3 DEF Replace
  <2>2. gen' = [gen EXCEPT ![shift[h] + 1] = gen[shift[h]], ![shift[h]] = NoFile]
    BY <1>3 DEF Replace
  <2>3. CASE shift[h] = 0
    BY <2>1, <2>2, <2>3 DEF OnDisk, Content
  <2>4. CASE shift[h] = 1
    BY <2>1, <2>2, <2>4 DEF OnDisk, Content
  <2>5. QED
    BY <2>3, <2>4
<1>4. ASSUME NEW h \in Hooks, OpenLog(h) PROVE Goal
  <2>1. \A g \in Generations : Content(g)' = Content(g)
    BY <1>4, OpenKeepsContent
  <2>2. QED
    BY <1>4, <2>1 DEF OpenLog, OnDisk
<1>5. ASSUME NEW h \in Hooks, WriteEvent(h) PROVE Goal
  <2>1. fd[h] = gen[0] /\ gen[0] # NoFile
    BY <1>5 DEF WriteEvent, LogInv, HolderKnows
  <2>2. /\ gen' = gen /\ written' = written + 1
        /\ files' = [files EXCEPT ![fd[h]] = @ \union {written + 1}]
    BY <1>5 DEF WriteEvent
  <2>3. /\ Content(0)' = Content(0) \union {written + 1}
        /\ Content(1)' = Content(1) /\ Content(2)' = Content(2)
    BY <2>1, <2>2 DEF Content, LogInv, DistinctFiles
  <2>4. QED
    BY <2>2, <2>3 DEF OnDisk
<1>6. ASSUME NEW h \in Hooks, Start(h) \/ HookStep(h) \/ Fail(h),
             ~UnlinkOldest(h), ~Replace(h), ~OpenLog(h), ~WriteEvent(h)
      PROVE  UNCHANGED disk
  BY <1>6 DEF Start, HookStep, Fail, Acquire, LockTimeout, StatLog, ExistsCheck,
     ReplaceFails, Unlock
<1>7. QED
  BY <1>1, <1>2, <1>3, <1>4, <1>5, <1>6, ReaderLeavesDisk DEF Next, vars, HookStep

\* Seen from outside the Codex log is a bounded log: each step of a hook
\* appends one event, evicts old ones, or changes nothing.
THEOREM LockedLogIsBounded ==
  ASSUME Locks = {NoHook}
  PROVE  Spec => ImplementsBoundedLog
<1>1. Init => Promise!Init
  BY DEF Init, Promise!Init, OnDisk, Content, Generations
<1>2. ASSUME TypeOK, LogInv, (TypeOK /\ LogInv)', [Next]_vars
      PROVE  [Promise!AppendEvent \/ Promise!Evict]_<<written, OnDisk>>
  <2>1. RetainsRecent'
    BY <1>2, RecentFollows, PTL
  <2>2. PICK keep \in Nat : keep = Kept' /\ KeptAlways <= keep
    BY <1>2, HookLogAssumption DEF Kept, KeptAlways, TypeOK, HookTypes
  <2>3. CASE written' = written /\ OnDisk' \subseteq OnDisk
    <3>1. ASSUME NEW e \in OnDisk \ OnDisk' PROVE e <= written - KeptAlways
      <4>1. e \in 1 .. written /\ written \in Nat
        BY <1>2, FileFacts DEF OnDisk, Generations, TypeOK, DiskTypes
      <4>2. e > written - keep => e \in OnDisk'
        BY <2>1, <2>2, <2>3, <4>1 DEF RetainsRecent
      <4>3. KeptAlways \in Nat
        BY HookLogAssumption DEF KeptAlways
      <4>4. ~(e > written - keep)
        BY <3>1, <4>2
      <4>5. KeptAlways <= keep
        BY <2>2
      <4>6. e \in Int /\ written \in Int /\ keep \in Int /\ KeptAlways \in Int
        BY <4>1, <4>3
      <4>7. QED
        BY <4>4, <4>5, <4>6
    <3>2. QED
      BY <2>3, <3>1 DEF Promise!Evict
  <2>4. CASE written' = written + 1 /\ OnDisk' = OnDisk \union {written + 1}
    BY <2>4 DEF Promise!AppendEvent
  <2>5. QED
    BY <1>2, <2>3, <2>4, OnDiskStep
<1>3. QED
  BY <1>1, <1>2, TypeCorrect, LockedLogInvariant, PTL
     DEF Spec, ImplementsBoundedLog, Promise!Spec

\* Rotation moves files that were within the limit when they were live.
LEMMA SizeStep ==
  ASSUME TypeOK, LogInv, LogInv', SizeBounded, [Next]_vars
  PROVE  SizeBounded'
<1> USE DEF TypeOK, DiskTypes, HookTypes, Inodes, Generations
<1>1. Cardinality({}) <= MaxLen
  BY FS_EmptySet, HookLogAssumption
<1>2. ASSUME \A g \in Generations :
               \/ Content(g)' = {} \/ g = 0
               \/ \E f \in Generations : Content(g)' = Content(f)
      PROVE  SizeBounded'
  <2>1. Cardinality(Content(0)') <= MaxLen
    BY DEF LogInv, LiveFile
  <2>2. QED
    BY <1>1, <1>2, <2>1 DEF SizeBounded
<1>3. CASE UNCHANGED disk
  <2>1. \A g \in Generations : Content(g)' = Content(g)
    BY <1>3 DEF disk, Content
  <2>2. QED
    BY <1>2, <2>1
<1>4. ASSUME NEW h \in Hooks, UnlinkOldest(h) PROVE SizeBounded'
  <2>1. \A g \in Generations : Content(g)' = {} \/ Content(g)' = Content(g)
    BY <1>4 DEF UnlinkOldest, Content
  <2>2. QED
    BY <1>2, <2>1
<1>5. ASSUME NEW h \in Hooks, Replace(h) PROVE SizeBounded'
  <2>1. /\ UNCHANGED files /\ shift[h] \in {0, 1}
        /\ gen' = [gen EXCEPT ![shift[h] + 1] = gen[shift[h]], ![shift[h]] = NoFile]
    BY <1>5 DEF Replace
  <2>2. \A g \in Generations :
          \/ Content(g)' = {}
          \/ Content(g)' = Content(g)
          \/ Content(g)' = Content(shift[h])
    BY <2>1 DEF Content
  <2>3. QED
    BY <1>2, <2>1, <2>2
<1>6. ASSUME NEW h \in Hooks, OpenLog(h) PROVE SizeBounded'
  <2>1. \A g \in Generations : Content(g)' = Content(g)
    BY <1>6, OpenKeepsContent
  <2>2. QED
    BY <1>2, <2>1
<1>7. ASSUME NEW h \in Hooks, WriteEvent(h) PROVE SizeBounded'
  <2>1. /\ fd[h] = gen[0] /\ gen[0] # NoFile /\ gen' = gen
        /\ files' = [files EXCEPT ![fd[h]] = @ \union {written + 1}]
    BY <1>7 DEF WriteEvent, LogInv, HolderKnows
  <2>2. \A g \in Generations \ {0} : Content(g)' = Content(g)
    BY <2>1 DEF Content, LogInv, DistinctFiles
  <2>3. QED
    BY <1>2, <2>2
<1>8. ASSUME NEW h \in Hooks, Start(h) \/ HookStep(h) \/ Fail(h),
             ~UnlinkOldest(h), ~Replace(h), ~OpenLog(h), ~WriteEvent(h)
      PROVE  UNCHANGED disk
  BY <1>8 DEF Start, HookStep, Fail, Acquire, LockTimeout, StatLog, ExistsCheck,
     ReplaceFails, Unlock
<1>9. QED
  BY <1>3, <1>4, <1>5, <1>6, <1>7, <1>8, ReaderLeavesDisk DEF Next, vars, HookStep

\* The Codex log is never larger than three generations, however its hooks
\* interleave and wherever they die.
THEOREM LockedLogIsSmall ==
  ASSUME Locks = {NoHook}
  PROVE  Spec => []SizeBounded
<1>1. Init => SizeBounded
  BY FS_EmptySet, HookLogAssumption DEF Init, SizeBounded, Content, Generations
<1>2. TypeOK /\ LogInv /\ LogInv' /\ SizeBounded /\ [Next]_vars => SizeBounded'
  BY SizeStep
<1>3. QED
  BY <1>1, <1>2, TypeCorrect, LockedLogInvariant, PTL DEF Spec

-----------------------------------------------------------------------------
(* The cache, when the lock is taken and no append fails                   *)

\* A file only moves up from generation to generation, and only grows.
LEMMA FilesMoveUp ==
  ASSUME TypeOK, [Next]_vars
  PROVE  /\ Len(files) <= Len(files')
         /\ \A x \in Inodes : files[x] \subseteq files'[x]
         /\ \A x \in Inodes, p \in Generations :
              gen'[p] = x => gen[p] = x \/ (p > 0 /\ gen[p - 1] = x)
<1> DEFINE Goal == /\ Len(files) <= Len(files')
                   /\ \A x \in Inodes : files[x] \subseteq files'[x]
                   /\ \A x \in Inodes, p \in Generations :
                        gen'[p] = x => gen[p] = x \/ (p > 0 /\ gen[p - 1] = x)
<1> USE DEF TypeOK, DiskTypes, HookTypes, Inodes, Generations
<1>0. NoFile \notin Nat /\ Len(files) \in Nat
  BY HookLogAssumption
<1>1. CASE UNCHANGED <<gen, files>>
  BY <1>0, <1>1
<1>2. ASSUME NEW h \in Hooks, UnlinkOldest(h) PROVE Goal
  BY <1>0, <1>2 DEF UnlinkOldest
<1>3. ASSUME NEW h \in Hooks, Replace(h) PROVE Goal
  <2>1. /\ files' = files /\ shift[h] \in {0, 1}
        /\ gen' = [gen EXCEPT ![shift[h] + 1] = gen[shift[h]], ![shift[h]] = NoFile]
    BY <1>3 DEF Replace
  <2>2. CASE shift[h] = 0
    BY <1>0, <2>1, <2>2
  <2>3. CASE shift[h] = 1
    BY <1>0, <2>1, <2>3
  <2>4. QED
    BY <2>1, <2>2, <2>3
<1>4. ASSUME NEW h \in Hooks, OpenLog(h) PROVE Goal
  <2>1. CASE gen[0] = NoFile
    <3>1. {} \in SUBSET (1 .. written)
      OBVIOUS
    <3>2. /\ files' = Append(files, {}) /\ gen' = [gen EXCEPT ![0] = Len(files) + 1]
      BY <1>4, <2>1 DEF OpenLog
    <3>3. /\ Len(files') = Len(files) + 1
          /\ \A i \in 1 .. Len(files) : files'[i] = files[i]
      BY <3>1, <3>2, AppendProperties
    <3>4. QED
      BY <1>0, <3>2, <3>3
  <2>2. CASE gen[0] # NoFile
    BY <1>0, <1>4, <2>2 DEF OpenLog
  <2>3. QED
    BY <2>1, <2>2
<1>5. ASSUME NEW h \in Hooks, WriteEvent(h) PROVE Goal
  BY <1>0, <1>5 DEF WriteEvent
<1>6. ASSUME NEW h \in Hooks, Start(h) \/ HookStep(h) \/ Fail(h),
             ~UnlinkOldest(h), ~Replace(h), ~OpenLog(h), ~WriteEvent(h)
      PROVE  UNCHANGED <<gen, files>>
  BY <1>6 DEF Start, HookStep, Fail, Acquire, LockTimeout, StatLog, ExistsCheck,
     ReplaceFails, Unlock, disk
<1>7. QED
  BY <1>1, <1>2, <1>3, <1>4, <1>5, <1>6, ReaderLeavesDisk DEF Next, vars, disk, HookStep

\* What a load knows of a file whose signature it took, and that it is not at
\* a generation before q.
Known(stat) == stat[1] \in Inodes /\ stat[2] <= Cardinality(files[stat[1]])
NotBefore(inode, q) == \A p \in Generations : p < q => gen[p] # inode

\* A signature: its entry i was taken of a file no younger than generation
\* i - 1, and if it was taken from the files of a load, at one of these.
Traced(sig) == \A i \in 1 .. Len(sig) : Known(sig[i]) /\ NotBefore(sig[i][1], i - 1)

Sourced(sig, list) ==
  \A i \in 1 .. Len(sig) :
    /\ Known(sig[i])
    /\ \E m \in 1 .. Len(list) : list[m] >= i - 1 /\ NotBefore(sig[i][1], list[m])

\* The signature is one of all the files there are.
Whole(sig) ==
  /\ Len(sig) = IF Len(files) < 3 THEN Len(files) ELSE 3
  /\ \A g \in Generations :
       g < Len(sig) => gen[g] = sig[g + 1][1] /\ Cardinality(files[gen[g]]) = sig[g + 1][2]

LEMMA FilesAreFinite ==
  ASSUME DiskTypes, NEW x \in Inodes
  PROVE  IsFiniteSet(files[x]) /\ Cardinality(files[x]) \in Nat
<1>1. files[x] \subseteq 1 .. written /\ IsFiniteSet(1 .. written)
  BY FS_Interval DEF DiskTypes, Inodes
<1>2. IsFiniteSet(files[x])
  BY <1>1, FS_Subset
<1>3. QED
  BY <1>2, FS_CardinalityType

LEMMA NextFileFinite ==
  ASSUME TypeOK', NEW x \in Inodes'
  PROVE  files'[x] \subseteq 1 .. written' /\ IsFiniteSet(1 .. written')
<1>1. written' \in Nat /\ files' \in Seq(SUBSET (1 .. written')) /\ x \in 1 .. Len(files')
  BY DEF TypeOK, DiskTypes, Inodes
<1>2. files'[x] \in SUBSET (1 .. written')
  BY <1>1, ElementOfSeq
<1>3. 1 \in Int /\ written' \in Int
  BY <1>1
<1>4. IsFiniteSet(1 .. written')
  BY <1>3, FS_Interval
<1>5. QED
  BY <1>2, <1>4

LEMMA KnownStep ==
  ASSUME TypeOK, TypeOK', [Next]_vars, NEW stat \in Nat \X Nat, Known(stat)
  PROVE  /\ stat[1] \in Inodes'
         /\ stat[2] <= Cardinality(files'[stat[1]])
         /\ \A q \in Int : NotBefore(stat[1], q)
                             => \A p \in Generations : p < q => gen'[p] # stat[1]
<1> DEFINE x == stat[1]
<1>1. x \in Inodes /\ stat[2] <= Cardinality(files[x])
  BY DEF Known
<1>2. Len(files) <= Len(files') /\ Len(files) \in Nat /\ Len(files') \in Nat
  BY FilesMoveUp DEF TypeOK, DiskTypes
<1>3. x \in Inodes'
  BY <1>1, <1>2 DEF Inodes
<1>4. files[x] \subseteq files'[x]
  BY <1>1, FilesMoveUp
<1>5. Cardinality(files[x]) \in Nat
  BY <1>1, FilesAreFinite DEF TypeOK
<1>6. files'[x] \subseteq 1 .. written' /\ IsFiniteSet(1 .. written')
  BY <1>3, NextFileFinite
<1>7. IsFiniteSet(files'[x])
  BY <1>6, FS_Subset
<1>8. Cardinality(files'[x]) \in Nat /\ Cardinality(files[x]) <= Cardinality(files'[x])
  BY <1>4, <1>7, FS_Subset, FS_CardinalityType
<1>9. stat[2] <= Cardinality(files'[x])
  BY <1>1, <1>5, <1>8
<1>10. ASSUME NEW q \in Int, NotBefore(x, q), NEW p \in Generations, p < q
       PROVE  gen'[p] # x
  <2>1. gen[p] # x /\ (p > 0 => gen[p - 1] # x)
    BY <1>10 DEF NotBefore, Generations
  <2>2. QED
    BY <1>1, <2>1, FilesMoveUp
<1>11. QED
  BY <1>3, <1>9, <1>10

\* Distinct files that fill the first k generations leave none for the others
\* when there are only k.
LEMMA NoFileLeft ==
  ASSUME NEW n \in Nat, NEW G \in [Generations -> (1 .. n) \union {NoFile}],
         \A f, g \in Generations : G[f] # NoFile /\ G[f] = G[g] => f = g,
         NEW k \in 0 .. 3, \A g \in Generations : g < k => G[g] # NoFile
  PROVE  /\ k <= n
         /\ k = n \/ k = 3 => \A g \in Generations : g >= k => G[g] = NoFile
BY HookLogAssumption DEF Generations

\* A signature of all the files now was one of all the files ever since it was
\* taken, and the files have not changed.
LEMMA WholeBefore ==
  ASSUME TypeOK, TypeOK', DistinctFiles, DistinctFiles', [Next]_vars,
         NEW sig \in Seq(Nat \X Nat), Traced(sig), Whole(sig)'
  PROVE  Whole(sig) /\ \A g \in Generations : Content(g)' = Content(g)
<1> DEFINE k == Len(sig)
<1>1. /\ k \in 0 .. 3 /\ Len(files') \in Nat /\ Len(files) \in Nat
      /\ k = (IF Len(files') < 3 THEN Len(files') ELSE 3)
      /\ Len(files) <= Len(files')
      /\ gen \in [Generations -> (1 .. Len(files)) \union {NoFile}]
      /\ gen' \in [Generations -> (1 .. Len(files')) \union {NoFile}]
  <2>1. /\ files \in Seq(SUBSET (1 .. written)) /\ files' \in Seq(SUBSET (1 .. written'))
        /\ gen \in [Generations -> (1 .. Len(files)) \union {NoFile}]
        /\ gen' \in [Generations -> (1 .. Len(files')) \union {NoFile}]
    BY DEF TypeOK, DiskTypes, Inodes
  <2>2. Len(files) \in Nat /\ Len(files') \in Nat
    BY <2>1, LenProperties
  <2>3. k = (IF Len(files') < 3 THEN Len(files') ELSE 3)
    BY DEF Whole
  <2>4. k \in 0 .. 3
    <3>1. ASSUME NEW n \in Nat PROVE (IF n < 3 THEN n ELSE 3) \in 0 .. 3
      OBVIOUS
    <3> HIDE DEF k
    <3>2. QED
      BY <2>2, <2>3, <3>1
  <2>5. Len(files) <= Len(files')
    BY FilesMoveUp
  <2>6. QED
    BY <2>1, <2>2, <2>3, <2>4, <2>5
<1>2. ASSUME NEW g \in Generations, g < k
      PROVE  /\ gen[g] = sig[g + 1][1] /\ gen'[g] = gen[g] /\ gen[g] # NoFile
             /\ files'[gen[g]] = files[gen[g]]
             /\ Cardinality(files[gen[g]]) = sig[g + 1][2]
  <2> DEFINE x == sig[g + 1][1]
  <2>1. g + 1 \in 1 .. Len(sig) /\ g \in Nat /\ (g + 1) - 1 = g
    BY <1>1, <1>2 DEF Generations
  <2>2. /\ sig[g + 1] \in Nat \X Nat /\ Known(sig[g + 1]) /\ NotBefore(x, g)
    BY <2>1 DEF Traced
  <2>3. x \in Inodes /\ sig[g + 1][2] <= Cardinality(files[x]) /\ sig[g + 1][2] \in Nat
    BY <2>2 DEF Known
  <2>4. gen'[g] = x /\ Cardinality(files'[x]) = sig[g + 1][2]
    BY <1>2 DEF Whole
  <2>5. gen[g] = x
    <3>1. g > 0 => gen[g - 1] # x
      BY <2>1, <2>2 DEF NotBefore, Generations
    <3>2. QED
      BY <2>3, <2>4, <3>1, FilesMoveUp
  <2>6. x \in Inodes'
    BY <1>1, <2>3 DEF Inodes
  <2>7. files'[x] \subseteq 1 .. written' /\ IsFiniteSet(1 .. written')
    BY <2>6, NextFileFinite
  <2>8. IsFiniteSet(files'[x]) /\ files[x] \in SUBSET files'[x]
    <3>1. IsFiniteSet(files'[x])
      BY <2>7, FS_Subset
    <3>2. files[x] \in SUBSET files'[x]
      BY <2>3, FilesMoveUp
    <3>3. QED
      BY <3>1, <3>2
  <2>9. Cardinality(files[x]) \in Nat
    BY <2>3, FilesAreFinite DEF TypeOK
  <2>10. Cardinality(files[x]) <= Cardinality(files'[x])
    BY <2>8, FS_Subset
  <2>11. Cardinality(files[x]) = Cardinality(files'[x])
    BY <2>3, <2>4, <2>9, <2>10
  <2>12. files[x] = files'[x]
    BY <2>8, <2>11, FS_Subset
  <2>13. x # NoFile
    BY <2>3, HookLogAssumption DEF Inodes
  <2>14. QED
    BY <2>4, <2>5, <2>11, <2>12, <2>13
<1>3. \A g \in Generations : g < k => gen[g] # NoFile /\ gen'[g] # NoFile
  BY <1>2
<1>4. /\ \A f, g \in Generations : gen[f] # NoFile /\ gen[f] = gen[g] => f = g
      /\ \A f, g \in Generations : gen'[f] # NoFile /\ gen'[f] = gen'[g] => f = g
  BY DEF DistinctFiles
<1> HIDE DEF k
<1>5. k <= Len(files)
  BY <1>1, <1>3, <1>4, NoFileLeft
<1>6. /\ k = (IF Len(files) < 3 THEN Len(files) ELSE 3)
      /\ k = Len(files) \/ k = 3
      /\ k = Len(files') \/ k = 3
  BY <1>1, <1>5
<1>7. \A g \in Generations : g >= k => gen[g] = NoFile
  BY <1>1, <1>3, <1>4, <1>6, NoFileLeft
<1>8. \A g \in Generations : g >= k => gen'[g] = NoFile
  BY <1>1, <1>3, <1>4, <1>6, NoFileLeft
<1>9. \A g \in Generations : g < k \/ g >= k
  BY <1>1 DEF Generations
<1>10. \A g \in Generations : Content(g)' = Content(g)
  BY <1>2, <1>7, <1>8, <1>9 DEF Content
<1>11. Whole(sig)
  BY <1>2, <1>6 DEF Whole, k
<1>12. QED
  BY <1>10, <1>11

\* What a load has so far: its list names no generation too early, its
\* signature was taken from its list, and if it is one of all the files, the
\* events are those of the files read so far.
Loading(r) ==
  /\ \A i \in 1 .. Len(rfiles[r]) : rfiles[r][i] >= i - 1
  /\ Sourced(rsig[r], rfiles[r])
  /\ rpc[r] = "list" => Len(rfiles[r]) <= rnext[r] /\ rsig[r] = <<>> /\ revents[r] = {}
  /\ rpc[r] = "stat" => Len(rsig[r]) < rnext[r] /\ revents[r] = {}
  /\ rpc[r] = "read" /\ Whole(rsig[r]) =>
       \A e \in Nat : e \in revents[r] <=>
         \E i \in rnext[r] + 1 .. Len(rfiles[r]) : e \in FileView(rfiles[r][i])

CacheSound ==
  /\ Traced(cache.sig)
  /\ Whole(cache.sig) => cache.events = LogView

CacheInv == CacheSound /\ \A r \in Readers : Loading(r)

LEMMA SourcedIsTraced ==
  ASSUME NEW sig \in Seq(Nat \X Nat), NEW list \in Seq(Generations), Sourced(sig, list)
  PROVE  Traced(sig)
<1> SUFFICES ASSUME NEW i \in 1 .. Len(sig)
             PROVE  Known(sig[i]) /\ NotBefore(sig[i][1], i - 1)
  BY DEF Traced
<1>1. PICK m \in 1 .. Len(list) : list[m] >= i - 1 /\ NotBefore(sig[i][1], list[m])
  BY DEF Sourced
<1>2. list[m] \in 0 .. 2 /\ i \in Int
  BY DEF Generations
<1>3. NotBefore(sig[i][1], i - 1)
  <2>1. \A p \in Generations : p < list[m] => gen[p] # sig[i][1]
    BY <1>1 DEF NotBefore
  <2>2. \A p \in Generations : p < i - 1 => p < list[m]
    <3>1. \A p \in 0 .. 2, k \in 0 .. 2, n \in Int : p < n /\ k >= n => p < k
      OBVIOUS
    <3>2. i - 1 \in Int /\ list[m] >= i - 1
      BY <1>1, <1>2
    <3>3. QED
      BY <1>2, <3>1, <3>2 DEF Generations
  <2>3. QED
    BY <2>1, <2>2 DEF NotBefore
<1>4. QED
  BY <1>3 DEF Sourced

LEMMA SourcedStep ==
  ASSUME TypeOK, TypeOK', [Next]_vars,
         NEW sig \in Seq(Nat \X Nat), NEW list \in Seq(Generations), Sourced(sig, list)
  PROVE  Sourced(sig, list)'
<1> SUFFICES ASSUME NEW i \in 1 .. Len(sig)
             PROVE  /\ sig[i][1] \in Inodes' /\ sig[i][2] <= Cardinality(files'[sig[i][1]])
                    /\ \E m \in 1 .. Len(list) :
                         list[m] >= i - 1 /\ \A p \in Generations : p < list[m] => gen'[p] # sig[i][1]
  BY DEF Sourced, Known, NotBefore
<1>1. PICK m \in 1 .. Len(list) : list[m] >= i - 1 /\ NotBefore(sig[i][1], list[m])
  BY DEF Sourced
<1>2. sig[i] \in Nat \X Nat /\ list[m] \in Generations /\ Known(sig[i])
  BY DEF Sourced
<1>3. list[m] \in Int
  BY <1>2 DEF Generations
<1>4. QED
  BY <1>1, <1>2, <1>3, KnownStep

LEMMA TracedStep ==
  ASSUME TypeOK, TypeOK', [Next]_vars, NEW sig \in Seq(Nat \X Nat), Traced(sig)
  PROVE  Traced(sig)'
<1> SUFFICES ASSUME NEW i \in 1 .. Len(sig)
             PROVE  /\ sig[i][1] \in Inodes' /\ sig[i][2] <= Cardinality(files'[sig[i][1]])
                    /\ \A p \in Generations : p < i - 1 => gen'[p] # sig[i][1]
  BY DEF Traced, Known, NotBefore
<1>1. sig[i] \in Nat \X Nat /\ Known(sig[i]) /\ NotBefore(sig[i][1], i - 1)
  BY DEF Traced
<1>2. i - 1 \in Int
  OBVIOUS
<1>3. QED
  BY <1>1, <1>2, KnownStep

\* What is read of the files depends on their content only.
LEMMA SameViews ==
  ASSUME \A g \in Generations : Content(g)' = Content(g)
  PROVE  /\ LogView' = LogView
         /\ \A g \in Generations : FileView(g)' = FileView(g)
<1>1. Content(0)' = Content(0) /\ Content(1)' = Content(1) /\ Content(2)' = Content(2)
  BY DEF Generations
<1>2. \A g \in Generations : FileView(g)' = FileView(g)
  BY DEF FileView, Newest
<1>3. LogView' = LogView
  BY <1>1 DEF LogView, FileView, Newest
<1>4. QED
  BY <1>2, <1>3

LEMMA HookKeepsCache ==
  ASSUME TypeOK, TypeOK', DistinctFiles, DistinctFiles', [Next]_vars, UNCHANGED readers, CacheInv
  PROVE  CacheInv'
<1>1. UNCHANGED <<rpc, rfiles, rsig, rnext, revents, cache>>
  BY DEF readers
<1>2. CacheSound'
  <2>1. PICK sig \in Seq(Nat \X Nat) : sig = cache.sig
    BY DEF TypeOK, ReaderTypes
  <2>2. cache' = cache /\ Traced(sig) /\ (Whole(sig) => cache.events = LogView)
    BY <1>1, <2>1 DEF CacheInv, CacheSound
  <2>3. Traced(sig)'
    BY <2>2, TracedStep
  <2>4. Whole(sig)' => cache.events = LogView'
    BY <2>2, WholeBefore, SameViews
  <2>5. QED
    BY <2>1, <2>2, <2>3, <2>4 DEF CacheSound, Traced, Whole
<1>3. ASSUME NEW r \in Readers PROVE Loading(r)'
  <2>1. PICK sig \in Seq(Nat \X Nat) : sig = rsig[r]
    BY DEF TypeOK, ReaderTypes
  <2>2. PICK list \in Seq(Generations) : list = rfiles[r]
    BY DEF TypeOK, ReaderTypes
  <2>3. Sourced(sig, list)'
    BY <2>1, <2>2, SourcedStep DEF CacheInv, Loading
  <2>4. Traced(sig)
    BY <2>1, <2>2, SourcedIsTraced DEF CacheInv, Loading
  <2>5. ASSUME Whole(sig)', rpc[r] = "read", NEW e \in Nat
        PROVE  e \in revents[r] <=>
                 \E i \in rnext[r] + 1 .. Len(list) : e \in FileView(list[i])'
    <3>1. Whole(sig) /\ \A g \in Generations : FileView(g)' = FileView(g)
      BY <2>4, <2>5, WholeBefore, SameViews
    <3>2. rnext[r] \in Nat /\ \A i \in rnext[r] + 1 .. Len(list) : list[i] \in Generations
      BY DEF TypeOK, ReaderTypes
    <3>3. QED
      BY <2>1, <2>2, <2>5, <3>1, <3>2 DEF CacheInv, Loading
  <2>6. /\ Sourced(rsig[r], rfiles[r])'
        /\ (rpc[r] = "read" /\ Whole(rsig[r]) =>
             \A e \in Nat : e \in revents[r] <=>
               \E i \in rnext[r] + 1 .. Len(rfiles[r]) : e \in FileView(rfiles[r][i]))'
    <3>1. Sourced(rsig[r], rfiles[r])'
      BY <1>1, <2>1, <2>2, <2>3 DEF Sourced, Known, NotBefore
    <3>2. Whole(rsig[r])' <=> Whole(sig)'
      BY <1>1, <2>1 DEF Whole
    <3>3. QED
      BY <1>1, <2>1, <2>2, <2>5, <3>1, <3>2 DEF FileView, Newest, Content
  <2>7. QED
    BY <1>1, <2>6 DEF CacheInv, Loading
<1>4. QED
  BY <1>2, <1>3 DEF CacheInv

\* A step of a load keeps what is said of it, as long as the files stay.
\* A reader's step leaves the disk alone: what its signature was taken from
\* stays what it was taken from.
LEMMA SourcedKept ==
  ASSUME gen' = gen, files' = files, NEW r, rfiles'[r] = rfiles[r],
         Sourced(rsig'[r], rfiles[r])
  PROVE  Sourced(rsig[r], rfiles[r])'
<1> DEFINE taken == rsig'[r]
           list  == rfiles'[r]
<1>1. \A i \in 1 .. Len(taken) :
        /\ taken[i][1] \in 1 .. Len(files')
        /\ taken[i][2] <= Cardinality(files'[taken[i][1]])
        /\ \E m \in 1 .. Len(list) :
             list[m] >= i - 1 /\ \A p \in Generations : p < list[m] => gen'[p] # taken[i][1]
  BY Zenon DEF Sourced, Known, NotBefore, Inodes
<1>2. QED
  BY <1>1, Zenon DEF Sourced, Known, NotBefore, Inodes

LEMMA LoadingStep ==
  ASSUME TypeOK, DistinctFiles, NEW r \in Readers, ReaderStep(r), Loading(r)
  PROVE  Loading(r)'
<1>1. UNCHANGED <<gen, files, written>>
  BY ReaderLeavesDisk DEF disk
<1>2. /\ rnext[r] \in Nat /\ rfiles[r] \in Seq(Generations) /\ rsig[r] \in Seq(Nat \X Nat)
      /\ rfiles \in [Readers -> Seq(Generations)] /\ rsig \in [Readers -> Seq(Nat \X Nat)]
      /\ rnext \in [Readers -> Nat] /\ revents \in [Readers -> SUBSET (1 .. written)]
      /\ rpc \in [Readers -> {"list", "stat", "read"}]
  BY DEF TypeOK, ReaderTypes
<1>4. CASE ListFile(r)
  <2> DEFINE list == rfiles[r]
  <2>1. /\ rnext[r] \in Generations /\ rsig' = rsig /\ rsig[r] = <<>> /\ revents' = revents
        /\ revents[r] = {} /\ Len(list) <= rnext[r]
    BY <1>4 DEF ListFile, Loading, TypeOK, ReaderTypes
  <2>2. rfiles'[r] \in {list, Append(list, rnext[r])}
    BY <1>2, <1>4 DEF ListFile
  <2>3. /\ Len(Append(list, rnext[r])) = Len(list) + 1
        /\ Append(list, rnext[r])[Len(list) + 1] = rnext[r]
        /\ \A i \in 1 .. Len(list) : Append(list, rnext[r])[i] = list[i]
    BY <1>2, <2>1, AppendProperties
  <2>4. Len(list) \in Nat
    BY <1>2
  <2>5. \A i \in 1 .. Len(rfiles'[r]) : rfiles'[r][i] >= i - 1
    <3>1. CASE rfiles'[r] = list
      BY <3>1 DEF Loading
    <3>2. CASE rfiles'[r] = Append(list, rnext[r])
      <4>1. \A i \in 1 .. Len(list) : list[i] >= i - 1
        BY DEF Loading
      <4>2. rnext[r] >= (Len(list) + 1) - 1
        BY <1>2, <2>1, <2>4
      <4>3. \A i \in 1 .. Len(list) + 1 : i \in 1 .. Len(list) \/ i = Len(list) + 1
        BY <2>4
      <4>4. QED
        BY <2>3, <3>2, <4>1, <4>2, <4>3
    <3>3. QED
      BY <2>2, <3>1, <3>2
  <2>6. rpc'[r] = "list" => Len(rfiles'[r]) <= rnext'[r]
    <3>1. rpc'[r] = "list" => rnext'[r] = rnext[r] + 1
      BY <1>2, <1>4, <2>1 DEF ListFile, Generations
    <3>2. Len(rfiles'[r]) <= Len(list) + 1
      BY <2>2, <2>3, <2>4
    <3>3. Len(rfiles'[r]) \in Nat
      BY <2>2, <2>3, <2>4
    <3>4. QED
      BY <1>2, <2>1, <2>4, <3>1, <3>2, <3>3
  <2>7. rpc'[r] \in {"list", "stat"} /\ (rpc'[r] = "stat" => rnext'[r] = 1)
    BY <1>2, <1>4 DEF ListFile
  <2>8. rsig'[r] = <<>> /\ Len(<<>>) = 0 /\ revents'[r] = {}
    BY <2>1
  <2>9. QED
    BY <2>5, <2>6, <2>7, <2>8 DEF Loading, Sourced
<1>5. CASE StatFile(r)
  <2> DEFINE n == rnext[r]
             g == rfiles[r][n]
             sig == rsig[r]
  <2>1. /\ n \in 1 .. Len(rfiles[r]) /\ g \in Generations /\ Len(sig) < n
        /\ rpc[r] = "stat" /\ revents[r] = {} /\ g >= n - 1
        /\ UNCHANGED <<rpc, rfiles, revents>> /\ rnext'[r] = n + 1
    BY <1>2, <1>5 DEF StatFile, Loading, TypeOK, ReaderTypes
  <2>2. /\ Len(sig) \in Nat /\ n \in Nat /\ g \in Nat
    BY <1>2, <2>1 DEF Generations
  <2>3. CASE gen[g] = NoFile
    <3>1. rsig'[r] = sig
      BY <1>2, <1>5, <2>3 DEF StatFile
    <3>2. Sourced(rsig[r], rfiles[r])'
      BY <1>1, <2>1, <3>1, SourcedKept DEF Loading
    <3>3. QED
      BY <1>1, <2>1, <2>2, <3>1, <3>2 DEF Loading
  <2>4. CASE gen[g] # NoFile
    <3>1. rsig'[r] = Append(sig, StatOf(g)) /\ StatOf(g) \in Nat \X Nat
      BY <1>2, <1>5, <2>1, <2>4, FileFacts DEF StatFile, TypeOK
    <3>2. /\ Len(rsig'[r]) = Len(sig) + 1
          /\ rsig'[r][Len(sig) + 1] = StatOf(g)
          /\ \A i \in 1 .. Len(sig) : rsig'[r][i] = sig[i]
      BY <1>2, <3>1, AppendProperties
    <3>3. Known(StatOf(g)) /\ StatOf(g)[1] = gen[g]
      <4>1. gen[g] \in Inodes
        BY <2>1, <2>4 DEF TypeOK, DiskTypes
      <4>2. Cardinality(files[gen[g]]) \in Nat
        BY <4>1, FilesAreFinite DEF TypeOK
      <4>3. QED
        BY <4>1, <4>2 DEF Known, StatOf
    <3>4. NotBefore(StatOf(g)[1], g)
      BY <2>1, <2>2, <2>4, <3>3 DEF NotBefore, DistinctFiles
    <3>5. g >= (Len(sig) + 1) - 1
      BY <2>1, <2>2
    <3>6. ASSUME NEW i \in 1 .. Len(sig) + 1
          PROVE  /\ Known(rsig'[r][i])
                 /\ \E m \in 1 .. Len(rfiles[r]) :
                      rfiles[r][m] >= i - 1 /\ NotBefore(rsig'[r][i][1], rfiles[r][m])
      <4>1. CASE i = Len(sig) + 1
        BY <2>1, <3>2, <3>3, <3>4, <3>5, <4>1
      <4>2. CASE i # Len(sig) + 1
        <5>1. i \in 1 .. Len(sig)
          BY <2>2, <4>2
        <5>2. QED
          BY <3>2, <5>1 DEF Loading, Sourced
      <4>3. QED
        BY <4>1, <4>2
    <3>7. Sourced(rsig[r], rfiles[r])'
      <4>1. gen' = gen /\ files' = files /\ rfiles' = rfiles
        BY <1>1, <2>1
      <4>2. Sourced(rsig'[r], rfiles[r])
        BY <3>2, <3>6 DEF Sourced
      <4>3. QED
        BY <4>1, <4>2, SourcedKept
    <3>8. Len(rsig'[r]) < rnext'[r]
      BY <2>1, <2>2, <3>2
    <3>9. QED
      BY <1>1, <2>1, <3>7, <3>8 DEF Loading
  <2>5. QED
    BY <2>3, <2>4
<1>6. CASE LoadFromCache(r) \/ LoadEnd(r)
  <2>1. rpc'[r] = "list" /\ rfiles'[r] = <<>> /\ rsig'[r] = <<>> /\ rnext'[r] = 0 /\ revents'[r] = {}
    BY <1>2, <1>6 DEF LoadFromCache, LoadEnd, NextLoad
  <2>2. QED
    BY <2>1 DEF Loading, Sourced
<1>7. CASE CacheMiss(r)
  <2>1. /\ UNCHANGED <<rfiles, rsig, revents>> /\ rpc[r] = "stat" /\ rpc'[r] = "read"
        /\ rnext'[r] = Len(rfiles[r]) /\ revents[r] = {} /\ Len(rfiles[r]) \in Nat
    BY <1>2, <1>7 DEF CacheMiss, Loading
  <2>2. Sourced(rsig[r], rfiles[r])'
    BY <1>1, <2>1, SourcedKept DEF Loading
  <2>3. rnext'[r] + 1 .. Len(rfiles'[r]) = {}
    BY <2>1
  <2>4. QED
    BY <2>1, <2>2, <2>3 DEF Loading
<1>8. CASE ReadFile(r)
  <2> DEFINE n == rnext[r]
             list == rfiles[r]
  <2>1. /\ UNCHANGED <<rfiles, rsig, rpc>> /\ rpc[r] = "read" /\ n \in 1 .. Len(list)
        /\ rnext'[r] = n - 1 /\ revents'[r] = revents[r] \union FileView(list[n])
        /\ n \in Nat /\ Len(list) \in Nat
    BY <1>2, <1>8 DEF ReadFile, TypeOK, ReaderTypes
  <2>2. Sourced(rsig[r], rfiles[r])'
    BY <1>1, <2>1, SourcedKept DEF Loading
  <2>3. Whole(rsig[r])' <=> Whole(rsig[r])
    BY <1>1, <2>1 DEF Whole
  <2>4. \A i : i \in (n - 1) + 1 .. Len(list) <=> i = n \/ i \in n + 1 .. Len(list)
    BY <2>1
  <2>6. ASSUME Whole(rsig[r]), NEW e \in Nat
        PROVE  e \in revents'[r] <=> \E i \in rnext'[r] + 1 .. Len(list) : e \in FileView(list[i])
    <3>1. e \in revents[r] <=> \E i \in n + 1 .. Len(list) : e \in FileView(list[i])
      BY <2>1, <2>6 DEF Loading
    <3>2. QED
      BY <2>1, <2>4, <3>1
  <2>7. \A i : FileView(rfiles[r][i])' = FileView(rfiles[r][i])
    BY <1>1, <2>1 DEF FileView, Newest, Content
  <2>8. QED
    BY <2>1, <2>2, <2>3, <2>6, <2>7 DEF Loading
<1>9. QED
  BY <1>4, <1>5, <1>6, <1>7, <1>8 DEF ReaderStep

\* A load whose signature is one of all the files has read all of them.
LEMMA WholeLoadIsComplete ==
  ASSUME TypeOK, DistinctFiles, NEW r \in Readers, Loading(r), rpc[r] = "read", rnext[r] = 0,
         Whole(rsig[r])
  PROVE  revents[r] = FileView(0) \union FileView(1) \union FileView(2)
<1> DEFINE sig == rsig[r]
           list == rfiles[r]
           k == Len(sig)
<1>1. /\ sig \in Seq(Nat \X Nat) /\ list \in Seq(Generations) /\ revents[r] \subseteq 1 .. written
      /\ written \in Nat /\ Len(files) \in Nat
      /\ gen \in [Generations -> (1 .. Len(files)) \union {NoFile}]
  BY DEF TypeOK, ReaderTypes, DiskTypes, Inodes
<1>2. k = IF Len(files) < 3 THEN Len(files) ELSE 3
  BY DEF Whole
<1>3. k \in 0 .. 3 /\ (k = Len(files) \/ k = 3)
  <2>1. ASSUME NEW n \in Nat, NEW j, j = IF n < 3 THEN n ELSE 3
        PROVE  j \in 0 .. 3 /\ (j = n \/ j = 3)
    BY <2>1
  <2> HIDE DEF k
  <2>2. QED
    BY <1>1, <1>2, <2>1
<1>4. ASSUME NEW g \in Generations, g < k
      PROVE  gen[g] # NoFile /\ \E m \in 1 .. Len(list) : list[m] = g
  <2>1. g + 1 \in 1 .. Len(sig) /\ g \in Nat /\ (g + 1) - 1 = g
    BY <1>3, <1>4 DEF Generations
  <2>2. PICK m \in 1 .. Len(list) : list[m] >= g /\ NotBefore(sig[g + 1][1], list[m])
    BY <2>1 DEF Loading, Sourced
  <2>3. Known(sig[g + 1]) /\ gen[g] = sig[g + 1][1]
    BY <1>4, <2>1 DEF Loading, Sourced, Whole
  <2>4. list[m] \in Generations
    BY <1>1
  <2>5. ~(g < list[m])
    BY <2>2, <2>3 DEF NotBefore
  <2>6. list[m] = g
    BY <2>2, <2>4, <2>5 DEF Generations
  <2>7. gen[g] # NoFile
    BY <2>3, HookLogAssumption DEF Known, Inodes
  <2>8. QED
    BY <2>6, <2>7
<1>5. \A g \in Generations : g >= k => gen[g] = NoFile
  <2>1. \A f, g \in Generations : gen[f] # NoFile /\ gen[f] = gen[g] => f = g
    BY DEF DistinctFiles
  <2>2. \A g \in Generations : g < k => gen[g] # NoFile
    BY <1>4
  <2> HIDE DEF k
  <2>3. QED
    BY <1>1, <1>3, <2>1, <2>2, NoFileLeft
<1>6. ASSUME NEW g \in Generations, NEW e \in FileView(g)
      PROVE  \E m \in 1 .. Len(list) : list[m] = g
  <2>1. gen[g] # NoFile
    BY <1>6 DEF FileView, Newest, Content
  <2>2. g < k
    BY <1>3, <1>5, <2>1 DEF Generations
  <2>3. QED
    BY <1>4, <2>2
<1>7. \A e \in Nat : e \in revents[r] <=> \E i \in 1 .. Len(list) : e \in FileView(list[i])
  <2>1. 0 + 1 = 1
    OBVIOUS
  <2>2. QED
    BY <2>1 DEF Loading
<1>8. \A g \in Generations : FileView(g) \subseteq 1 .. written
  BY FileFacts DEF FileView, Newest, TypeOK
<1>9. \A e \in Nat : e \in revents[r] <=> \E g \in Generations : e \in FileView(g)
  <2>1. \A i \in 1 .. Len(list) : list[i] \in Generations
    BY <1>1
  <2>2. QED
    BY <1>6, <1>7, <2>1
<1>10. \A e : (\E g \in Generations : e \in FileView(g))
                <=> e \in FileView(0) \union FileView(1) \union FileView(2)
  BY DEF Generations
<1>11. /\ 1 .. written \subseteq Nat /\ revents[r] \subseteq Nat
       /\ FileView(0) \union FileView(1) \union FileView(2) \subseteq Nat
  BY <1>1, <1>8 DEF Generations
<1>12. QED
  BY <1>9, <1>10, <1>11

LEMMA ReaderKeepsCache ==
  ASSUME TypeOK, DistinctFiles, CacheInv, NEW r \in Readers, ReaderStep(r)
  PROVE  CacheInv'
<1>1. UNCHANGED <<gen, files, written>>
  BY ReaderLeavesDisk DEF disk
<1>2. ASSUME NEW q \in Readers PROVE Loading(q)'
  <2>1. CASE q = r
    BY <2>1, LoadingStep DEF CacheInv
  <2>2. CASE q # r
    <3>1. /\ rpc'[q] = rpc[q] /\ rfiles'[q] = rfiles[q] /\ rsig'[q] = rsig[q]
          /\ rnext'[q] = rnext[q] /\ revents'[q] = revents[q]
      BY <2>2 DEF TypeOK, ReaderTypes, ReaderStep, ListFile, StatFile, LoadFromCache, CacheMiss,
           ReadFile, LoadEnd, NextLoad
    <3>2. Sourced(rsig[q], rfiles[q])'
      BY <1>1, <3>1 DEF CacheInv, Loading, Sourced, Known, NotBefore, Inodes
    <3>3. Whole(rsig[q])' <=> Whole(rsig[q])
      BY <1>1, <3>1 DEF Whole
    <3>4. \A i : FileView(rfiles[q][i])' = FileView(rfiles[q][i])
      BY <1>1, <3>1 DEF FileView, Newest, Content
    <3>5. QED
      BY <3>1, <3>2, <3>3, <3>4 DEF CacheInv, Loading
  <2>3. QED
    BY <2>1, <2>2
<1>3. LogView' = LogView
  BY <1>1 DEF LogView, FileView, Newest, Content
<1>4. CASE LoadEnd(r)
  <2>1. /\ cache'.sig = rsig[r] /\ cache'.events = Newest(revents[r], ReadLimit)
        /\ rpc[r] = "read" /\ rnext[r] = 0
    BY <1>4 DEF LoadEnd, Entry
  <2>2. Traced(rsig[r])
    BY SourcedIsTraced DEF CacheInv, Loading, TypeOK, ReaderTypes
  <2>3. Whole(rsig[r]) => cache'.events = LogView
    BY <2>1, WholeLoadIsComplete DEF CacheInv, LogView
  <2>4. CacheSound'
    BY <1>1, <1>3, <2>1, <2>2, <2>3 DEF CacheSound, Traced, Whole, Known, NotBefore, Inodes
  <2>5. QED
    BY <1>2, <2>4 DEF CacheInv
<1>5. CASE ~LoadEnd(r)
  <2>1. cache' = cache
    BY <1>5 DEF ReaderStep, ListFile, StatFile, LoadFromCache, CacheMiss, ReadFile
  <2>2. CacheSound'
    BY <1>1, <1>3, <2>1 DEF CacheInv, CacheSound, Traced, Whole, Known, NotBefore, Inodes
  <2>3. QED
    BY <1>2, <2>2 DEF CacheInv
<1>6. QED
  BY <1>4, <1>5

LEMMA CacheInvStep ==
  ASSUME TypeOK, TypeOK', DistinctFiles, DistinctFiles', CacheInv, [Next]_vars
  PROVE  CacheInv'
<1>1. ASSUME NEW h \in Hooks, Start(h) \/ HookStep(h) \/ Fail(h) PROVE UNCHANGED readers
  BY <1>1 DEF Start, HookStep, Fail, Acquire, LockTimeout, StatLog, UnlinkOldest,
     ExistsCheck, Replace, ReplaceFails, OpenLog, WriteEvent, Unlock
<1>2. CASE UNCHANGED readers
  BY <1>2, HookKeepsCache
<1>3. ASSUME NEW r \in Readers, ReaderStep(r) PROVE CacheInv'
  BY <1>3, ReaderKeepsCache
<1>4. UNCHANGED vars => UNCHANGED readers
  BY DEF vars
<1>5. QED
  BY <1>1, <1>2, <1>3, <1>4 DEF Next

LEMMA InitCacheInv == Init => CacheInv
<1> SUFFICES ASSUME Init PROVE CacheInv
  OBVIOUS
<1>1. /\ \A r \in Readers : rpc[r] = "list" /\ rfiles[r] = <<>> /\ rsig[r] = <<>>
                              /\ rnext[r] = 0 /\ revents[r] = {}
      /\ cache.sig = <<>> /\ cache.events = {} /\ Len(<<>>) = 0
  BY DEF Init
<1>2. LogView = {}
  BY DEF Init, LogView, FileView, Newest, Content, Generations
<1>3. QED
  BY <1>1, <1>2 DEF CacheInv, CacheSound, Traced, Loading, Sourced

-----------------------------------------------------------------------------
(* Where the generations are, when no append fails                         *)

Settled == \A g \in Generations : gen[g] # NoFile <=> g < Len(files)

\* The oldest generation is gone, the one before it moved up, so did the live
\* one.
Pruned  == gen[0] # NoFile /\ (gen[1] # NoFile <=> Len(files) > 1) /\ gen[2] = NoFile
Shifted == gen[0] # NoFile /\ gen[1] = NoFile /\ (gen[2] # NoFile <=> Len(files) > 1)
Emptied == (gen[1] # NoFile <=> Len(files) > 0) /\ (gen[2] # NoFile <=> Len(files) > 1)

Layout ==
  /\ failures = 0
  /\ \A h \in Hooks :
       /\ pc[h] \in {"exists", "replace"} => IF shift[h] = 1 THEN Pruned ELSE Shifted
       /\ pc[h] = "open" /\ gen[0] = NoFile => Emptied
  /\ (\A h \in Hooks : ~Rotating(h)) => Settled

LEMMA LayoutStep ==
  ASSUME TypeOK, LogInv, Layout, Locks = {NoHook}, MaxFailures = 0, [Next]_vars
  PROVE  Layout'
<1> USE DEF TypeOK, DiskTypes, HookTypes, Generations, Inodes
<1>0. /\ Len(files) \in Nat /\ failures = 0 /\ NoFile \notin Nat
      /\ \A g \in Generations : gen[g] # NoFile => Len(files) > 0
  BY HookLogAssumption DEF Layout
<1>1. CASE UNCHANGED <<gen, files, pc, shift, failures>>
  BY <1>1 DEF Layout, Settled, Pruned, Shifted, Emptied, Rotating
<1>2. ASSUME NEW h \in Hooks, Start(h) \/ Acquire(h) \/ LockTimeout(h) \/ Unlock(h)
             \/ ReplaceFails(h)
      PROVE  Layout'
  <2>1. pc[h] \in {"idle", "lock", "unlock"} /\ pc'[h] \in {"idle", "lock", "stat"}
    <3>1. ~ReplaceFails(h)
      BY DEF ReplaceFails, LogInv, HolderKnows
    <3>2. QED
      BY <1>2, <3>1 DEF Start, Acquire, LockTimeout, Unlock, Goto
  <2>2. /\ UNCHANGED <<gen, files, shift, failures>>
        /\ \A k \in Hooks \ {h} : pc'[k] = pc[k]
    BY <1>2 DEF Start, Acquire, LockTimeout, Unlock, ReplaceFails, Goto, disk
  <2>3. \A k \in Hooks : Rotating(k)' <=> Rotating(k)
    BY <2>1, <2>2 DEF Rotating
  <2>4. Settled' = Settled /\ Pruned' = Pruned /\ Shifted' = Shifted /\ Emptied' = Emptied
    BY <2>2 DEF Settled, Pruned, Shifted, Emptied
  <2>5. QED
    BY <2>1, <2>2, <2>3, <2>4 DEF Layout
<1>3. ASSUME NEW h \in Hooks, pc[h] \in Critical, pc'[h] \in Critical,
             shift' \in [Hooks -> {0, 1}], failures' = failures,
             \A k \in Hooks \ {h} : pc'[k] = pc[k],
             pc'[h] \in {"exists", "replace"} => IF shift'[h] = 1 THEN Pruned' ELSE Shifted',
             pc'[h] = "open" /\ gen'[0] = NoFile => Emptied',
             ~Rotating(h)' => Settled'
      PROVE  Layout'
  <2>1. \A k \in Hooks \ {h} : pc'[k] \notin Critical
    BY <1>3, Alone
  <2>2. QED
    BY <1>0, <1>3, <2>1 DEF Layout, Critical
<1>4. ASSUME NEW h \in Hooks, StatLog(h) PROVE Layout'
  <2>1. /\ pc[h] = "stat" /\ pc'[h] \in {"unlink", "open"} /\ UNCHANGED <<gen, files, shift, failures>>
        /\ \A k \in Hooks \ {h} : pc'[k] = pc[k]
    BY <1>4 DEF StatLog, Goto, disk
  <2>2. Settled
    <3>1. \A k \in Hooks \ {h} : pc[k] \notin Critical
      BY <2>1, Alone DEF Critical
    <3>2. \A k \in Hooks : ~Rotating(k)
      BY <2>1, <3>1 DEF Rotating, Critical
    <3>3. QED
      BY <3>2 DEF Layout
  <2>3. Settled' /\ (gen'[0] = NoFile => Emptied')
    BY <1>0, <2>1, <2>2 DEF Settled, Emptied
  <2>4. QED
    BY <1>3, <2>1, <2>3 DEF Critical
<1>5. ASSUME NEW h \in Hooks, UnlinkOldest(h) PROVE Layout'
  <2>1. /\ pc[h] = "unlink" /\ pc'[h] = "exists" /\ shift'[h] = 1 /\ UNCHANGED <<files, failures>>
        /\ gen' = [gen EXCEPT ![2] = NoFile] /\ \A k \in Hooks \ {h} : pc'[k] = pc[k]
        /\ shift' \in [Hooks -> {0, 1}]
    BY <1>5 DEF UnlinkOldest, Goto
  <2>2. Settled
    <3>1. \A k \in Hooks \ {h} : pc[k] \notin Critical
      BY <2>1, Alone DEF Critical
    <3>2. \A k \in Hooks : ~Rotating(k)
      BY <2>1, <3>1 DEF Rotating, Critical
    <3>3. QED
      BY <3>2 DEF Layout
  <2>3. gen[0] # NoFile
    BY <2>1, FullLive
  <2>4. Pruned'
    BY <1>0, <2>1, <2>2, <2>3 DEF Settled, Pruned
  <2>5. QED
    BY <1>3, <2>1, <2>4 DEF Critical, Rotating
<1>6. ASSUME NEW h \in Hooks, ExistsCheck(h) PROVE Layout'
  <2>1. /\ pc[h] = "exists" /\ UNCHANGED <<gen, files, failures>>
        /\ \A k \in Hooks \ {h} : pc'[k] = pc[k]
        /\ shift' \in [Hooks -> {0, 1}]
    BY <1>6 DEF ExistsCheck, AfterShift, Goto, disk
  <2>2. IF shift[h] = 1 THEN Pruned ELSE Shifted
    BY <2>1 DEF Layout
  <2>3. \/ pc'[h] = "replace" /\ shift'[h] = shift[h]
        \/ pc'[h] = "exists" /\ shift'[h] = 0 /\ shift[h] = 1 /\ gen[1] = NoFile
    <3>1. gen[0] # NoFile
      BY <2>1, FullLive
    <3>2. QED
      BY <1>6, <3>1 DEF ExistsCheck, AfterShift, Goto
  <2>4. Pruned' = Pruned /\ Shifted' = Shifted
    BY <2>1 DEF Pruned, Shifted
  <2>5. shift[h] = 1 /\ gen[1] = NoFile => Shifted
    BY <2>2 DEF Pruned, Shifted
  <2>6. QED
    BY <1>3, <2>1, <2>2, <2>3, <2>4, <2>5 DEF Critical, Rotating
<1>7. ASSUME NEW h \in Hooks, Replace(h) PROVE Layout'
  <2>1. /\ pc[h] = "replace" /\ UNCHANGED <<files, failures>> /\ gen[shift[h]] # NoFile
        /\ shift[h] \in {0, 1} /\ shift'[h] = 0 /\ \A k \in Hooks \ {h} : pc'[k] = pc[k]
        /\ shift' \in [Hooks -> {0, 1}]
        /\ pc'[h] = IF shift[h] = 1 THEN "exists" ELSE "open"
        /\ gen' = [gen EXCEPT ![shift[h] + 1] = gen[shift[h]], ![shift[h]] = NoFile]
    BY <1>7 DEF Replace, AfterShift, Goto
  <2>2. IF shift[h] = 1 THEN Pruned ELSE Shifted
    BY <2>1 DEF Layout
  <2>3. CASE shift[h] = 1
    <3>1. gen'[0] = gen[0] /\ gen'[1] = NoFile /\ gen'[2] = gen[1]
      BY <2>1, <2>3
    <3>2. Shifted'
      BY <2>1, <2>2, <2>3, <3>1 DEF Pruned, Shifted
    <3>3. QED
      BY <1>3, <2>1, <2>3, <3>2 DEF Critical, Rotating
  <2>4. CASE shift[h] = 0
    <3>1. gen'[0] = NoFile /\ gen'[1] = gen[0] /\ gen'[2] = gen[2]
      BY <2>1, <2>4
    <3>2. Emptied'
      BY <1>0, <2>1, <2>2, <2>4, <3>1 DEF Shifted, Emptied
    <3>3. QED
      BY <1>3, <2>1, <2>4, <3>1, <3>2 DEF Critical, Rotating
  <2>5. QED
    BY <2>1, <2>3, <2>4
<1>8. ASSUME NEW h \in Hooks, OpenLog(h) PROVE Layout'
  <2>1. /\ pc[h] = "open" /\ pc'[h] = "write" /\ UNCHANGED <<shift, failures>>
        /\ \A k \in Hooks \ {h} : pc'[k] = pc[k]
    BY <1>8 DEF OpenLog, Goto
  <2>2. \A k \in Hooks \ {h} : pc[k] \notin Critical
    BY <2>1, Alone DEF Critical
  <2>3. CASE gen[0] = NoFile
    <3>1. Emptied
      BY <2>1, <2>3 DEF Layout
    <3>2. files' = Append(files, {}) /\ gen' = [gen EXCEPT ![0] = Len(files) + 1]
      BY <1>8, <2>3 DEF OpenLog
    <3>3. {} \in SUBSET (1 .. written)
      OBVIOUS
    <3>4. Len(files') = Len(files) + 1
      BY <3>2, <3>3, AppendProperties
    <3>5. gen'[0] # NoFile /\ gen'[1] = gen[1] /\ gen'[2] = gen[2]
      BY <1>0, <3>2
    <3>6. Settled'
      BY <1>0, <3>1, <3>4, <3>5 DEF Emptied, Settled
    <3>7. QED
      BY <1>3, <2>1, <3>6 DEF Critical
  <2>4. CASE gen[0] # NoFile
    <3>1. UNCHANGED <<gen, files>>
      BY <1>8, <2>4 DEF OpenLog
    <3>2. \A k \in Hooks : ~Rotating(k)
      BY <2>1, <2>2, <2>4 DEF Rotating, Critical
    <3>3. Settled'
      BY <3>1, <3>2 DEF Layout, Settled
    <3>4. QED
      BY <1>3, <2>1, <3>3 DEF Critical
  <2>5. QED
    BY <2>3, <2>4
<1>9. ASSUME NEW h \in Hooks, WriteEvent(h) PROVE Layout'
  <2>1. /\ pc[h] = "write" /\ pc'[h] = "unlock" /\ UNCHANGED <<gen, shift, failures>>
        /\ Len(files') = Len(files) /\ \A k \in Hooks \ {h} : pc'[k] = pc[k]
    BY <1>9 DEF WriteEvent, Goto
  <2>2. \A k \in Hooks \ {h} : pc[k] \notin Critical
    BY <2>1, Alone DEF Critical
  <2>3. \A k \in Hooks : ~Rotating(k)
    BY <2>1, <2>2 DEF Rotating, Critical
  <2>4. Settled'
    BY <2>1, <2>3 DEF Layout, Settled
  <2>5. QED
    BY <1>3, <2>1, <2>4 DEF Critical
<1>10. ASSUME NEW h \in Hooks PROVE ~Fail(h)
  BY <1>0 DEF Fail
<1>11. ASSUME NEW r \in Readers, ReaderStep(r) PROVE Layout'
  BY <1>1, <1>11, ReaderLeavesDisk DEF disk, hooks
<1>12. CASE UNCHANGED vars
  BY <1>1, <1>12 DEF vars, disk, hooks
<1>13. QED
  BY <1>2, <1>4, <1>5, <1>6, <1>7, <1>8, <1>9, <1>10, <1>11, <1>12 DEF Next, HookStep

LEMMA JoinedStats ==
  ASSUME NEW a, NEW b, NEW c
  PROVE  /\ <<a>> \o <<b>> \o <<>> = <<a, b>>
         /\ <<a>> \o <<b>> \o <<c>> = <<a, b, c>>
<1> DEFINE S == {a, b, c}
<1>0. /\ <<a>> \in Seq(S) /\ <<a, b>> \in Seq(S) /\ <<a, b, c>> \in Seq(S)
      /\ b \in S /\ c \in S
  OBVIOUS
<1> HIDE DEF S
<1>1. <<a>> \o <<b>> = <<a, b>>
  <2>1. Append(<<a>>, b) = <<a, b>>
    <3> DEFINE s == Append(<<a>>, b)
    <3>1. s \in Seq(S) /\ Len(s) = 2 /\ s[1] = a /\ s[2] = b
      BY <1>0, AppendProperties
    <3> HIDE DEF s
    <3>2. Len(<<a, b>>) = 2 /\ <<a, b>>[1] = a /\ <<a, b>>[2] = b
      OBVIOUS
    <3>3. \A i \in 1 .. 2 : s[i] = <<a, b>>[i]
      BY <3>1, <3>2
    <3>4. s = <<a, b>>
      BY <1>0, <3>1, <3>2, <3>3, SeqEqual
    <3>5. QED
      BY <3>4 DEF s
  <2>2. QED
    BY <1>0, <2>1, AppendIsConcat
<1>2. <<a, b>> \o <<>> = <<a, b>>
  BY <1>0, ConcatEmptySeq
<1>3. <<a, b>> \o <<c>> = <<a, b, c>>
  <2>1. Append(<<a, b>>, c) = <<a, b, c>>
    <3> DEFINE s == Append(<<a, b>>, c)
    <3>1. s \in Seq(S) /\ Len(s) = 3 /\ s[1] = a /\ s[2] = b /\ s[3] = c
      BY <1>0, AppendProperties
    <3> HIDE DEF s
    <3>2. /\ Len(<<a, b, c>>) = 3 /\ <<a, b, c>>[1] = a /\ <<a, b, c>>[2] = b
          /\ <<a, b, c>>[3] = c
      OBVIOUS
    <3>3. \A i \in 1 .. 3 : s[i] = <<a, b, c>>[i]
      BY <3>1, <3>2
    <3>4. s = <<a, b, c>>
      BY <1>0, <3>1, <3>2, <3>3, SeqEqual
    <3>5. QED
      BY <3>4 DEF s
  <2>2. QED
    BY <1>0, <2>1, AppendIsConcat
<1>4. QED
  BY <1>1, <1>2, <1>3

\* Once a rotation is over, the files there are are all the generations that
\* the log has had room for, so their signature is that of all the files.
LEMMA SettledIsWhole ==
  ASSUME TypeOK, Settled, cache.sig = DiskSignature
  PROVE  Whole(cache.sig)
<1> USE DEF TypeOK, DiskTypes, Generations, Inodes
<1>1. Len(files) \in Nat /\ \A g \in Generations : gen[g] # NoFile <=> g < Len(files)
  BY DEF Settled
<1>2. DiskSignature = PathSignature(0) \o PathSignature(1) \o PathSignature(2)
  BY DEF DiskSignature
<1>3. CASE Len(files) = 0
  <2>1. DiskSignature = <<>>
    BY <1>1, <1>2, <1>3 DEF PathSignature
  <2>2. QED
    BY <1>3, <2>1 DEF Whole
<1>4. CASE Len(files) = 1
  <2>1. DiskSignature = <<StatOf(0)>>
    BY <1>1, <1>2, <1>4 DEF PathSignature
  <2>2. QED
    BY <1>4, <2>1 DEF Whole, StatOf
<1>5. CASE Len(files) = 2
  <2>1. DiskSignature = <<StatOf(0), StatOf(1)>>
    <3>1. /\ PathSignature(0) = <<StatOf(0)>> /\ PathSignature(1) = <<StatOf(1)>>
          /\ PathSignature(2) = <<>>
      BY <1>1, <1>5 DEF PathSignature
    <3>2. QED
      BY <1>2, <3>1, JoinedStats
  <2>2. QED
    BY <1>5, <2>1 DEF Whole, StatOf
<1>6. CASE Len(files) > 2
  <2>1. DiskSignature = <<StatOf(0), StatOf(1), StatOf(2)>>
    <3>1. \A g \in Generations : g < Len(files)
      BY <1>1, <1>6
    <3>2. \A g \in Generations : PathSignature(g) = <<StatOf(g)>>
      BY <1>1, <3>1 DEF PathSignature
    <3>3. /\ PathSignature(0) = <<StatOf(0)>> /\ PathSignature(1) = <<StatOf(1)>>
          /\ PathSignature(2) = <<StatOf(2)>>
      BY <3>2
    <3> HIDE DEF TypeOK, DiskTypes, Inodes
    <3>4. QED
      BY <1>2, <3>3, JoinedStats
  <2>2. ~(Len(files) < 3) /\ Len(cache.sig) = 3
    BY <1>1, <1>6, <2>1
  <2>3. /\ cache.sig[1] = StatOf(0) /\ cache.sig[2] = StatOf(1) /\ cache.sig[3] = StatOf(2)
    BY <2>1
  <2>4. \A g \in Generations : cache.sig[g + 1] = StatOf(g)
    BY <2>3
  <2>5. \A g \in Generations : StatOf(g)[1] = gen[g] /\ StatOf(g)[2] = Cardinality(files[gen[g]])
    BY DEF StatOf
  <2>6. \A g \in Generations :
          /\ gen[g] = cache.sig[g + 1][1]
          /\ Cardinality(files[gen[g]]) = cache.sig[g + 1][2]
    BY <2>4, <2>5
  <2>7. Len(cache.sig) = IF Len(files) < 3 THEN Len(files) ELSE 3
    BY <2>2
  <2>8. QED
    BY <2>6, <2>7 DEF Whole
<1>7. Len(files) \in {0, 1, 2} \/ Len(files) > 2
  <2>1. \A n \in Nat : n \in {0, 1, 2} \/ n > 2
    OBVIOUS
  <2>2. QED
    BY <1>1, <2>1
<1>8. QED
  BY <1>3, <1>4, <1>5, <1>6, <1>7

\* The Codex log as long as no append fails: outside a rotation, what the cache
\* serves for the files as they are is what they hold.
THEOREM LockedCacheIsHonest ==
  ASSUME Locks = {NoHook}, MaxFailures = 0
  PROVE  Spec => []CacheHonest
<1>1. Init => Layout
  BY HookLogAssumption DEF Init, Layout, Settled, Rotating, Generations
<1>2. TypeOK /\ LogInv /\ Layout /\ [Next]_vars => Layout'
  BY LayoutStep
<1>3. TypeOK /\ LogInv /\ TypeOK' /\ LogInv' /\ CacheInv /\ [Next]_vars => CacheInv'
  BY CacheInvStep DEF LogInv
<1>4. TypeOK /\ Layout /\ CacheInv => CacheHonest
  BY SettledIsWhole DEF Layout, CacheInv, CacheSound, CacheHonest
<1>5. QED
  BY <1>1, <1>2, <1>3, <1>4, InitCacheInv, TypeCorrect, LockedLogInvariant, PTL DEF Spec

=============================================================================
