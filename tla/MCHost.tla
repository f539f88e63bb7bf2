------------------------------- MODULE MCHost -------------------------------
(* The components of one host that share no state, side by side: world says *)
(* which of them a behaviour is about, and the others stay as they began.   *)
EXTENDS ClaudeSession, HookInstaller, MonitorService, SharedSessions, TLC
VARIABLE world

HostInit ==
  /\ ClaudeInit /\ InstallerInit /\ ServiceInit /\ SharedInit
  /\ world \in {"claude", "installer", "service", "shared"}
  /\ world # "installer" => config = [n \in Names |-> Missing]
  /\ world # "service" => pidFile = NoPid /\ ~portTaken

HostNext ==
  /\ UNCHANGED world
  /\ \/ world = "claude"    /\ ClaudeNext    /\ UNCHANGED <<installerVars, serviceVars, sharedVars>>
     \/ world = "installer" /\ InstallerNext /\ UNCHANGED <<claudeVars, serviceVars, sharedVars>>
     \/ world = "service"   /\ ServiceNext   /\ UNCHANGED <<claudeVars, installerVars, sharedVars>>
     \/ world = "shared"    /\ SharedNext    /\ UNCHANGED <<claudeVars, installerVars, serviceVars>>

HostSpec ==
  HostInit /\ [][HostNext]_<<claudeVars, installerVars, serviceVars, sharedVars, world>>

Interchangeable == Permutations(Checkouts) \union Permutations(Installers)
=============================================================================
