--------------------------- MODULE MonitorService ---------------------------
(* The monitor as a service (cli.py): --daemon, --serve and --stop find the *)
(* running server by a pid file that no lock protects.  Servers are killed  *)
(* and leave the file behind, fail to bind, or leave by an exception; pids  *)
(* are given to other programs; commands may overlap.                       *)
EXTENDS Naturals

CONSTANTS
  ServicePids,  \* pids the system gives out, also again
  Commands,     \* terminals in which --daemon and --stop are run
  MaxServers,   \* bound: servers launched
  NoPid         \* no pid file, or one that is no number

ASSUME ServiceAssumption == MaxServers \in Nat /\ NoPid \notin ServicePids

VARIABLES
  pidFile,
  program,     \* what each pid is: no process, another program, or a server and
               \* how far it has come
  command,     \* the commands in progress: step and the pid they read
  portTaken,   \* another program listens on the port
  launches,
  overlapped   \* whether two commands or launches ever overlapped

serviceVars == <<pidFile, program, command, portTaken, launches, overlapped>>

Starting == {"launched", "free", "recorded"}
Server == Starting \union {"serving", "leaving", "killed"}
IsServer(p) == p # NoPid /\ program[p] \in Server
Terminal == [step |-> "idle", pid |-> NoPid]

ServiceInit ==
  /\ pidFile \in ServicePids \union {NoPid}
  /\ program = [p \in ServicePids |-> "none"]
  /\ command = [c \in Commands |-> Terminal]
  /\ portTaken \in BOOLEAN
  /\ launches = 0
  /\ overlapped = FALSE

\* Nothing is under way when a command or a server starts.
IsQuiet ==
  /\ \A c \in Commands : command[c].step = "idle"
  /\ \A p \in ServicePids : program[p] \notin Starting

\* A file that names no process, or another program, is stale.
WithoutStale(pid) == IF IsServer(pid) THEN pid ELSE NoPid
\* _running_monitor_pid removes a stale file, whatever it holds by now.
Unlinked(pid) == IF pid # NoPid /\ ~IsServer(pid) THEN NoPid ELSE pidFile

-----------------------------------------------------------------------------
\* --daemon.

StartReads(c) ==
  /\ command[c].step = "idle"
  /\ command' = [command EXCEPT ![c] = [step |-> "start", pid |-> pidFile]]
  /\ overlapped' = (overlapped \/ ~IsQuiet)
  /\ UNCHANGED <<pidFile, program, portTaken, launches>>

AlreadyRunning(c) ==
  /\ command[c].step = "start"
  /\ WithoutStale(command[c].pid) # NoPid
  /\ command' = [command EXCEPT ![c] = Terminal]
  /\ UNCHANGED <<pidFile, program, portTaken, launches, overlapped>>

\* The command ends while the server is still starting.
NewServer(p) ==
  /\ program[p] = "none"
  /\ launches < MaxServers
  /\ launches' = launches + 1
  /\ program' = [program EXCEPT ![p] = "launched"]
DaemonLaunched(c, p) ==
  /\ command[c].step = "start"
  /\ WithoutStale(command[c].pid) = NoPid
  /\ pidFile' = Unlinked(command[c].pid)
  /\ NewServer(p)
  /\ command' = [command EXCEPT ![c] = Terminal]
  /\ UNCHANGED <<portTaken, overlapped>>

\* --serve in the foreground or by a service manager.
ServeLaunched(p) ==
  /\ NewServer(p)
  /\ overlapped' = (overlapped \/ ~IsQuiet)
  /\ UNCHANGED <<pidFile, command, portTaken>>

-----------------------------------------------------------------------------
\* _serve.  A server that finds another one refuses to start.
BugServerFindsNone(p) ==
  /\ program[p] = "launched"
  /\ program' = [program EXCEPT ![p] = "free"]
  /\ UNCHANGED <<pidFile, command, portTaken, launches, overlapped>>
ServerFindsNone(p) ==
  /\ program[p] = "launched"
  /\ WithoutStale(pidFile) \in {NoPid, p}
  /\ pidFile' = Unlinked(pidFile)
  /\ program' = [program EXCEPT ![p] = "free"]
  /\ UNCHANGED <<command, portTaken, launches, overlapped>>

ServerRefuses(p) ==
  /\ program[p] = "launched"
  /\ WithoutStale(pidFile) \notin {NoPid, p}
  /\ program' = [program EXCEPT ![p] = "none"]
  /\ UNCHANGED <<pidFile, command, portTaken, launches, overlapped>>

ServerRecorded(p) ==
  /\ program[p] = "free"
  /\ pidFile' = p
  /\ program' = [program EXCEPT ![p] = "recorded"]
  /\ UNCHANGED <<command, portTaken, launches, overlapped>>

IsPortFree == ~portTaken /\ \A p \in ServicePids : program[p] \notin {"serving", "killed"}

\* serve_api binds the port, or raises.
ServerBinds(p) ==
  /\ program[p] = "recorded"
  /\ program' = [program EXCEPT ![p] = IF IsPortFree THEN "serving" ELSE "leaving"]
  /\ UNCHANGED <<pidFile, command, portTaken, launches, overlapped>>

\* Interrupted, or an exception of the server.
ServerInterrupted(p) ==
  /\ program[p] \in {"recorded", "serving"}
  /\ program' = [program EXCEPT ![p] = "leaving"]
  /\ UNCHANGED <<pidFile, command, portTaken, launches, overlapped>>

\* The finally of _serve: only its own record is removed.
ServerLeaves(p) ==
  /\ program[p] = "leaving"
  /\ pidFile' = IF pidFile = p THEN NoPid ELSE pidFile
  /\ program' = [program EXCEPT ![p] = "none"]
  /\ UNCHANGED <<command, portTaken, launches, overlapped>>

\* SIGTERM is not handled: a killed server dies without its finally.
ServerDies(p) ==
  /\ program[p] \in Server
  /\ program' = [program EXCEPT ![p] = "none"]
  /\ UNCHANGED <<pidFile, command, portTaken, launches, overlapped>>

-----------------------------------------------------------------------------
\* --stop.

StopReads(c) ==
  /\ command[c].step = "idle"
  /\ pidFile # NoPid
  /\ command' = [command EXCEPT ![c] = [step |-> "stop", pid |-> pidFile]]
  /\ overlapped' = (overlapped \/ ~IsQuiet)
  /\ UNCHANGED <<pidFile, program, portTaken, launches>>

StopFindsStale(c) ==
  /\ command[c].step = "stop"
  /\ WithoutStale(command[c].pid) = NoPid
  /\ pidFile' = NoPid
  /\ command' = [command EXCEPT ![c] = Terminal]
  /\ UNCHANGED <<program, portTaken, launches, overlapped>>

StopKills(c) ==
  /\ command[c].step = "stop"
  /\ WithoutStale(command[c].pid) # NoPid
  /\ program' = [program EXCEPT ![command[c].pid] = "killed"]
  /\ command' = [command EXCEPT ![c].step = "wait"]
  /\ UNCHANGED <<pidFile, portTaken, launches, overlapped>>

\* The file goes once no process has the pid; also if it names another by now.
StopSeesDeath(c) ==
  /\ command[c].step = "wait"
  /\ program[command[c].pid] = "none"
  /\ pidFile' = NoPid
  /\ command' = [command EXCEPT ![c] = Terminal]
  /\ UNCHANGED <<program, portTaken, launches, overlapped>>

\* After five seconds.
StopGivesUp(c) ==
  /\ command[c].step = "wait"
  /\ program[command[c].pid] # "none"
  /\ command' = [command EXCEPT ![c] = Terminal]
  /\ UNCHANGED <<pidFile, program, portTaken, launches, overlapped>>

-----------------------------------------------------------------------------
\* The pid of a dead server goes to another program, which ends again.
PidReused(p) ==
  /\ program[p] \in {"none", "other"}
  /\ program' = [program EXCEPT ![p] = IF @ = "none" THEN "other" ELSE "none"]
  /\ UNCHANGED <<pidFile, command, portTaken, launches, overlapped>>

PortChanges ==
  /\ IsPortFree \/ portTaken
  /\ portTaken' = ~portTaken
  /\ UNCHANGED <<pidFile, program, command, launches, overlapped>>

CommandActs(c) ==
  \/ StartReads(c) \/ AlreadyRunning(c) \/ StopReads(c) \/ StopFindsStale(c) \/ StopKills(c)
  \/ StopSeesDeath(c) \/ StopGivesUp(c)
ServerActs(p) ==
  \/ ServerFindsNone(p) \/ ServerRefuses(p) \/ ServerRecorded(p) \/ ServerBinds(p)
  \/ ServerInterrupted(p) \/ ServerLeaves(p) \/ ServerDies(p)
ServiceNext ==
  \/ \E c \in Commands : CommandActs(c) \/ \E p \in ServicePids : DaemonLaunched(c, p)
  \/ \E p \in ServicePids : ServeLaunched(p) \/ ServerActs(p) \/ PidReused(p)
  \/ PortChanges
ServiceSpec == ServiceInit /\ [][ServiceNext]_serviceVars

-----------------------------------------------------------------------------
\* As long as commands were not run at the same time, nor on a server that was
\* still starting, the server that serves is the one the pid file names, so
\* that --stop stops it and --daemon finds it: also after servers were killed,
\* did not get the port or left by an exception, after a stop that gave up,
\* and when the pid of a dead server went to another program.
RunningServerIsRecorded ==
  ~overlapped => \A p \in ServicePids : program[p] = "serving" => pidFile = p
=============================================================================
