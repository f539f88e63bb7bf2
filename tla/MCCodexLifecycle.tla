-------------------------- MODULE MCCodexLifecycle --------------------------
(* Small instances of CodexLifecycle.                                      *)
EXTENDS CodexLifecycle, TLC

\* What the installer installs, with and without the tool diagnostics.
DefaultHooks == {"user_prompt_submit", "permission_request", "stop"}
ToolHooks == DefaultHooks \union {"pre_tool_use", "post_tool_use"}

\* One session on a host whose hooks lose nothing.
Plain ==
  [installed |-> DefaultHooks, sessions |-> {CHOOSE s \in Sessions : TRUE},
   tools |-> {CHOOSE t \in Tools : TRUE}, reuse |-> TRUE, tmux |-> FALSE, withIds |-> TRUE,
   maxClock |-> 9, maxTurns |-> 2, maxGoals |-> 0, maxLost |-> 0]

WithTools == [Plain EXCEPT !.installed = ToolHooks]
Several   == [WithTools EXCEPT !.sessions = Sessions]
AtOnce    == [WithTools EXCEPT !.tools = Tools, !.maxClock = 8]
Lossy     == [Plain EXCEPT !.reuse = FALSE, !.maxGoals = 1, !.maxLost = 2]
InTmux    == [Lossy EXCEPT !.tmux = TRUE]
NoIds     == [Lossy EXCEPT !.withIds = FALSE]

AllSettings == {Several, AtOnce, Lossy, InTmux, NoIds}
PlainOnly   == {Plain}
=============================================================================
