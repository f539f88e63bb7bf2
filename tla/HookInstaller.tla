---------------------------- MODULE HookInstaller ----------------------------
(* Installing the monitor's hooks into a configuration file that belongs to *)
(* the user (install_hooks.py; install_opencode_hooks.py is the same        *)
(* algorithm on another file).  An installer reads the file, computes the   *)
(* new contents, copies the old file to a backup and replaces it: the user, *)
(* or a second installer, may write in between, and it may be killed.       *)
(*                                                                          *)
(* The hooks are a set of groups, each for an event, with the user's        *)
(* handlers (foreign) and the monitor's (ours, by the checkout they call).  *)
EXTENDS Naturals

CONSTANTS
  DefaultEvents, ToolEvents, LegacyEvents, \* *_HOOK_EVENTS
  OtherEvents,     \* events of Codex or OpenCode the monitor never uses
  Foreign,         \* handlers of the user
  Checkouts,       \* where the monitor may be installed from
  Installers,      \* runs of the installer that may overlap
  LastName,        \* as many files may hold the configuration, the preferred first
  MaxEdits         \* bound: writes of the user

VARIABLES
  config,   \* per name: the contents of the file
  wanted,   \* per name: what the user last wrote of its own
  raced,    \* names the user wrote between an installer's read and its replace
  last,     \* per name: the operation that finished last, unless the user wrote since
  run,      \* the installers
  edits

installerVars == <<config, wanted, raced, last, run, edits>>

Names == 1 .. LastName
Events == DefaultEvents \union ToolEvents \union LegacyEvents \union OtherEvents
AllHookEvents == DefaultEvents \union ToolEvents \union LegacyEvents
Group == [event : Events, foreign : SUBSET Foreign, ours : SUBSET Checkouts]
Operation == [kind : {"install"}, checkout : Checkouts, tools : BOOLEAN]
               \union {[kind |-> "uninstall"]}

Missing == [state |-> "missing", groups |-> {}]
Malformed == [state |-> "malformed", groups |-> {}]
Holding(groups) == [state |-> "valid", groups |-> groups]
NoOperation == [kind |-> "none"]
Idle == [step |-> "idle", name |-> 1, op |-> NoOperation, updated |-> Missing]

ASSUME InstallerAssumption ==
  /\ MaxEdits \in Nat
  /\ LastName \in Nat \ {0}

-----------------------------------------------------------------------------
\* The new contents.

\* _without_existing_monitor_hooks: a group goes when nothing of it is left,
\* unless it was empty from the start.
BugIsKept(g) == g.ours = {}
IsKept(g) == g.foreign # {} \/ g.ours = {}
Stripped(g) == [g EXCEPT !.ours = {}]
WithoutOurs(groups) == {Stripped(g) : g \in {h \in groups : IsKept(h)}}

Selected(tools) == IF tools THEN DefaultEvents \union ToolEvents ELSE DefaultEvents
OurGroup(event, checkout) ==
  [event |-> event, foreign |-> {}, ours |-> {checkout}]

\* install_hooks cleans the events the monitor knows, uninstall_hooks all.
BugInstalled(groups, checkout, tools) ==
  {g \in groups : g.event \notin Selected(tools)}
    \union WithoutOurs({g \in groups : g.event \in Selected(tools)})
    \union {OurGroup(event, checkout) : event \in Selected(tools)}
Installed(groups, checkout, tools) ==
  {g \in groups : g.event \notin AllHookEvents}
    \union WithoutOurs({g \in groups : g.event \in AllHookEvents})
    \union {OurGroup(event, checkout) : event \in Selected(tools)}

Updated(contents, op) ==
  Holding(IF op.kind = "install" THEN Installed(contents.groups, op.checkout, op.tools)
          ELSE WithoutOurs(contents.groups))

\* check_hooks: each selected event calls this checkout once, and no other
\* event has a hook of the monitor.
Calls(contents, event) ==
  {call \in contents.groups \X Checkouts : call[1].event = event /\ call[2] \in call[1].ours}
IsCurrent(contents, checkout, tools) ==
  /\ contents.state = "valid"
  /\ \A event \in Selected(tools) :
       \E g \in contents.groups : Calls(contents, event) = {<<g, checkout>>}
  /\ \A event \in Events \ Selected(tools) : Calls(contents, event) = {}

-----------------------------------------------------------------------------
\* The part of a file that is the user's: which handlers it has together in a
\* group, for which event.
ForeignPart(contents) ==
  [broken |-> contents.state = "malformed",
   groups |-> {<<g.event, g.foreign>> : g \in {h \in contents.groups : h.foreign # {}}}]

InstallerInit ==
  /\ config \in [Names -> {Missing, Malformed, Holding({})}]
  /\ wanted = [n \in Names |-> ForeignPart(config[n])]
  /\ raced = {}
  /\ last = [n \in Names |-> NoOperation]
  /\ run = [i \in Installers |-> Idle]
  /\ edits = 0

\* What the user may make of a file: another group of its own, a handler added
\* to a group or taken out of it, a group less, a broken file, a repaired one,
\* or none.  The monitor's own handlers it copies nowhere.
UserGroup == [event : Events, foreign : {{h} : h \in Foreign}, ours : {{}}]
Rewritten(groups, g) ==
  {Holding((groups \ {g}) \union {[g EXCEPT !.foreign = hs]}) : hs \in SUBSET Foreign}
Edits(groups) ==
  {Missing, Malformed, Holding({})}
    \union {Holding(groups \union {g}) : g \in UserGroup}
    \union {Holding(groups \ {g}) : g \in groups}
    \union UNION {Rewritten(groups, g) : g \in groups}

UserWrites(n, contents) ==
  /\ edits < MaxEdits
  /\ contents # config[n]
  /\ edits' = edits + 1
  /\ config' = [config EXCEPT ![n] = contents]
  /\ wanted' = [wanted EXCEPT ![n] = ForeignPart(contents)]
  /\ raced' = IF \E i \in Installers : run[i].step # "idle" /\ run[i].name = n
              THEN raced \union {n} ELSE raced \ {n}
  /\ last' = [last EXCEPT ![n] = NoOperation]
  /\ UNCHANGED run

\* _find_config_path; Codex has one name only.
IsConfigPath(n) ==
  /\ \A m \in 1 .. n - 1 : config[m] = Missing
  /\ config[n] = Missing => n = 1 /\ \A m \in Names : config[m] = Missing

\* A malformed file is refused, a missing one has nothing to uninstall, and one
\* that would not change is not written.
ConfigRead(i, n, op) ==
  LET updated == Updated(config[n], op)
  IN  /\ run[i].step = "idle"
      /\ IsConfigPath(n)
      /\ config[n] # Malformed
      /\ op.kind = "uninstall" => config[n] # Missing
      /\ IF config[n] = updated
         THEN last' = [last EXCEPT ![n] = op] /\ UNCHANGED run
         ELSE /\ run' = [run EXCEPT ![i] =
                           [step |-> IF config[n] = Missing THEN "replace" ELSE "backup",
                            name |-> n, op |-> op, updated |-> updated]]
              /\ UNCHANGED last
      /\ UNCHANGED <<config, wanted, raced, edits>>

\* The backup copies the file as it is by now, which fails if it is gone.
BackedUp(i) ==
  /\ run[i].step = "backup"
  /\ config[run[i].name] # Missing
  /\ run' = [run EXCEPT ![i].step = "replace"]
  /\ UNCHANGED <<config, wanted, raced, last, edits>>

ConfigReplaced(i) ==
  /\ run[i].step = "replace"
  /\ config' = [config EXCEPT ![run[i].name] = run[i].updated]
  /\ last' = [last EXCEPT ![run[i].name] = run[i].op]
  /\ run' = [run EXCEPT ![i] = Idle]
  /\ UNCHANGED <<wanted, raced, edits>>

\* Killed, or stopped by an error of the file system: the temporary file is all
\* that was written.
InstallerDies(i) ==
  /\ run[i].step # "idle"
  /\ run' = [run EXCEPT ![i] = Idle]
  /\ UNCHANGED <<config, wanted, raced, last, edits>>

InstallerNext ==
  \/ \E n \in Names : \E contents \in Edits(config[n].groups) : UserWrites(n, contents)
  \/ \E i \in Installers : (\E n \in Names, op \in Operation : ConfigRead(i, n, op))
       \/ BackedUp(i) \/ ConfigReplaced(i) \/ InstallerDies(i)
InstallerSpec == InstallerInit /\ [][InstallerNext]_installerVars

-----------------------------------------------------------------------------
\* Whatever installers do, in whatever number and order, and wherever they
\* die, a configuration file holds what the user wrote of its own, and a
\* malformed one is left alone; unless the user wrote while an installer was
\* between its read and its replace, which may lose that write.
ForeignHooksSurvive ==
  \A n \in Names \ raced : ForeignPart(config[n]) = wanted[n]

\* The operation that finished last has its result: an installation is current
\* when checked, also over one of another checkout or with other events, and
\* after an uninstallation no hook of the monitor is left.
LastOperationHolds ==
  \A n \in Names : last[n] # NoOperation =>
    IF last[n].kind = "install" THEN IsCurrent(config[n], last[n].checkout, last[n].tools)
    ELSE \A event \in Events : Calls(config[n], event) = {}
=============================================================================
