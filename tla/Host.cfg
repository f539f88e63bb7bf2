SPECIFICATION HostSpec
CONSTANTS
  MaxSessions = 2
  TailRecords = 1
  HeadRecords = 1
  MaxTranscript = 3
  MaxLaunches = 2
  Nothing = Nothing
  DefaultEvents = {e1}
  ToolEvents = {e2}
  LegacyEvents = {}
  OtherEvents = {e4}
  Foreign = {f1}
  Checkouts = {c1, c2}
  Installers = {i1, i2}
  LastName = 2
  MaxEdits = 2
  ServicePids = {p1, p2, p3}
  Commands = {t1, t2}
  MaxServers = 3
  NoPid = NoPid
  Terminals = {a, b, c}
  Sessions = {w, x, y}
  Grace = 1
  MaxClock = 6
  NoTerminal = NoTerminal
SYMMETRY Interchangeable
CHECK_DEADLOCK FALSE
INVARIANTS
  ClaudeTellsTheTruth
  ForeignHooksSurvive
  LastOperationHolds
  RunningServerIsRecorded
  EveryDriverHasARow
  AttendedTurnsSpread
