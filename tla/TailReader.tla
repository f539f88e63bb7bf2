---------------------------- MODULE TailReader ----------------------------
(* How the monitor follows a rollout file that Codex appends to             *)
(* (terminal_state.py): a first scan of a prefix, a back scan and a tail    *)
(* window, then bounded reads from the cached offset with a carry of the    *)
(* last partial line.  A record takes two units of the file, of which the   *)
(* second ends its line; record k is the units 2k-1 and 2k, so a file is    *)
(* its inode and its length.                                                *)
EXTENDS Naturals, Sequences, SequencesExt, FiniteSetsExt

CONSTANTS
  TailWindow,   \* MAX_INITIAL_TAIL_BYTES
  ReadWindow,   \* MAX_INCREMENTAL_READ_BYTES
  PrefixWindow, \* MAX_LIFECYCLE_PREFIX_BYTES
  BackWindow,   \* MAX_LIFECYCLE_BACKSCAN_BYTES
  MaxEvents,    \* MAX_TERMINAL_EVENTS_PER_FILE
  MaxLength,    \* bound: units written to one file
  MaxInodes,    \* bound: files at the path, one after the other
  MaxErrors,    \* bound: reads that fail
  NoEntry

ASSUME WindowsAssumption ==
  /\ {TailWindow, ReadWindow, PrefixWindow, BackWindow, MaxEvents} \subseteq Nat \ {0}
  /\ ReadWindow <= TailWindow
  /\ {MaxLength, MaxInodes, MaxErrors} \subseteq Nat

VARIABLES
  file,   \* the file at the path
  seen,   \* what the refresh in progress found by stat, or NoEntry
  entry,  \* the _TailCacheEntry of the path
  errors

tailVars == <<file, seen, entry, errors>>

\* Largest of an offset and zero.
Minus(a, b) == IF a > b THEN a - b ELSE 0

\* The records whose lines lie in the units a+1 .. e.  A window that starts
\* inside a line begins with a fragment of it, which is no JSON object.
RecordsIn(a, e) == SubSeq([k \in 1 .. MaxLength |-> k], (a + 1) \div 2 + 1, e \div 2)

\* The end of the first line of a window that starts after unit a.
LineEnd(a) == 2 * (a \div 2) + 2

\* The records of a window, without its first line if discard.
Lines(a, e, discard) == RecordsIn(IF discard THEN LineEnd(a) ELSE a, e)

Capped(s) == SubSeq(s, Minus(Len(s), MaxEvents) + 1, Len(s))

PrefixEvents(start) == Capped(Lines(0, Min({start, PrefixWindow, file.length}), FALSE))
BackscanEvents(start) ==
  LET from == Minus(start, BackWindow)
  IN  Lines(from, Min({start, file.length}), from > 0)

Ascending(ks) ==
  MapThenFoldSet(LAMBDA k, s : Append(s, k), <<>>, LAMBDA k : k, LAMBDA set : Max(set), ks)

\* The windows may overlap; timestamps grow with the records.
Merged(s, t) == Capped(Ascending(ToSet(s) \union ToSet(t)))

RolloutInit ==
  /\ file = [inode |-> 1, length |-> 0]
  /\ seen = NoEntry
  /\ entry = NoEntry
  /\ errors = 0

\* Codex writes the first half of a record, or the rest of it.
WritesHalf ==
  /\ file.length < MaxLength
  /\ file' = [file EXCEPT !.length = @ + 1]
  /\ UNCHANGED <<seen, entry, errors>>

\* Another file takes the path.
Replaced ==
  /\ file.inode < MaxInodes
  /\ file' = [inode |-> file.inode + 1, length |-> 0]
  /\ UNCHANGED <<seen, entry, errors>>

StatRollout ==
  /\ seen = NoEntry
  /\ seen' = file
  /\ UNCHANGED <<file, entry, errors>>

BugIsReset == entry = NoEntry
IsReset ==
  \/ entry = NoEntry
  \/ entry.inode # seen.inode
  \/ seen.length < entry.offset

\* More was written since the last refresh than one refresh may read.
IsGap == ~IsReset /\ Minus(seen.length, entry.offset) > ReadWindow

StartOfRead ==
  CASE IsReset -> Minus(seen.length, TailWindow)
    [] IsGap   -> Minus(seen.length, ReadWindow)
    [] OTHER   -> entry.offset

\* Where the carried part of a line starts; none is carried over a gap.
BugCarryStart == StartOfRead
CarryStart == IF IsReset \/ IsGap THEN StartOfRead ELSE entry.carry

BugPriorEvents ==
  CASE IsGap -> <<>>
    [] ~IsReset /\ ~IsGap -> entry.events
    [] IsReset /\ StartOfRead > 0 -> Merged(PrefixEvents(StartOfRead), BackscanEvents(StartOfRead))
    [] OTHER -> <<>>
PriorEvents ==
  CASE ~IsReset -> entry.events
    [] IsReset /\ StartOfRead > 0 -> Merged(PrefixEvents(StartOfRead), BackscanEvents(StartOfRead))
    [] OTHER -> <<>>

\* The window is read from the file that is at the path by now.  since is
\* not in the code: where the reading without gaps began.
ReadRollout ==
  /\ seen # NoEntry
  /\ seen' = NoEntry
  /\ LET limit   == IF IsReset THEN TailWindow ELSE ReadWindow
         end     == Max({StartOfRead, Min({file.length, StartOfRead + limit})})
         discard == (IsReset \/ IsGap) /\ StartOfRead > 0
     IN  entry' = IF seen.length = StartOfRead THEN entry
                  ELSE [inode  |-> seen.inode,
                        offset |-> end,
                        carry  |-> Max({CarryStart, 2 * (end \div 2)}),
                        events |-> Capped(PriorEvents \o Lines(CarryStart, end, discard)),
                        since  |-> IF IsReset \/ IsGap THEN StartOfRead ELSE entry.since]
  /\ UNCHANGED <<file, errors>>

ReadFails ==
  /\ seen # NoEntry
  /\ errors < MaxErrors
  /\ errors' = errors + 1
  /\ seen' = NoEntry
  /\ UNCHANGED <<file, entry>>

RolloutReader == StatRollout \/ ReadRollout \/ ReadFails
RolloutNext == WritesHalf \/ Replaced \/ RolloutReader
RolloutFairness == WF_tailVars(StatRollout) /\ WF_tailVars(ReadRollout)
RolloutSpec == RolloutInit /\ [][RolloutNext]_tailVars /\ RolloutFairness

-----------------------------------------------------------------------------
\* A record is kept unless as many as the bound allows were kept after it.
IsKeptIn(k, e) ==
  k \in ToSet(e.events) \/ (Len(e.events) = MaxEvents /\ k < e.events[1])

\* What is kept of a file are records of it, each once and in their order, and
\* of those that ended since the gapless reading began only the first may be
\* missing, which the edge of the window may have cut: whatever is torn, and
\* however reads and writes alternate.  (The carry of _terminal_events, the
\* lines it discards, and the merge of overlapping windows.)
RecordsAreReadOnce ==
  entry # NoEntry /\ entry.inode = file.inode =>
    LET ended == 1 .. entry.offset \div 2
        cut   == IF entry.since = 0 THEN {} ELSE {LineEnd(entry.since) \div 2}
    IN  /\ \A i \in 1 .. Len(entry.events) : entry.events[i] \in ended
        /\ \A i \in 2 .. Len(entry.events) : entry.events[i - 1] < entry.events[i]
        /\ \A k \in ended \ cut : 2 * k > entry.since => IsKeptIn(k, entry)

\* A refresh that has to jump over what it may not read still forgets none of
\* the facts it knew of the file.
FactsSurviveGaps ==
  [][entry # NoEntry /\ entry'.inode = entry.inode =>
       \A k \in ToSet(entry.events) : IsKeptIn(k, entry')]_entry

\* Once Codex writes no more, the reader has read all there is.
ReaderCatchesUp ==
  <>[](file.length > 0 => entry # NoEntry /\ entry.inode = file.inode
                          /\ entry.offset = file.length)
=============================================================================
