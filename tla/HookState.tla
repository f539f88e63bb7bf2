----------------------------- MODULE HookState -----------------------------
(***************************************************************************)
(* What the monitor makes of the hook events of one Codex session: the     *)
(* fold of summarize_hook_events over the events of one (ppid, session)    *)
(* key, in the order of their timestamps.                                  *)
(*                                                                         *)
(* Times and turn identifiers are positive integers and 0 stands for None. *)
(* Working directory, tool names and the session_start source only label a *)
(* state and are left out.  BugOnPostTool is a wrong variant of OnPostTool *)
(* used only as a mutant.                                                  *)
(***************************************************************************)
EXTENDS Integers

None == 0

EventNames ==
  {"session_start", "user_prompt_submit", "permission_request",
   "pre_tool_use", "post_tool_use", "stop"}

NoState ==
  [updatedAt |-> None, inTurn |-> FALSE, active |-> FALSE, turn |-> None,
   startedAt |-> None, stoppedAt |-> None, stoppedTurn |-> None,
   pendingAt |-> None, tools |-> {}]

TurnOf(p, e) == IF e.turn # None THEN e.turn ELSE p.turn

\* The turn is open as of this event, whether or not a prompt was seen.
Opened(p, e) ==
  [p EXCEPT !.inTurn = TRUE, !.turn = TurnOf(p, e),
            !.startedAt = IF @ = None THEN e.at ELSE @]

OnPrompt(p, e) ==
  [p EXCEPT !.inTurn = TRUE, !.active = TRUE, !.turn = TurnOf(p, e),
            !.startedAt = e.at, !.stoppedAt = None,
            !.pendingAt = None, !.tools = {}]

OnPermission(p, e) == [Opened(p, e) EXCEPT !.active = TRUE, !.pendingAt = e.at]

OnPreTool(p, e) == [Opened(p, e) EXCEPT !.tools = @ \union {e.tool}]

BugOnPostTool(p, e) == [Opened(p, e) EXCEPT !.tools = @ \ {e.tool}]
OnPostTool(p, e) == [Opened(p, e) EXCEPT !.pendingAt = None, !.tools = @ \ {e.tool}]

\* A stop of some other turn is remembered and closes nothing.
OnStop(p, e) ==
  LET stopped == [p EXCEPT !.active = TRUE, !.stoppedAt = e.at,
                           !.stoppedTurn = TurnOf(p, e)]
  IN  IF e.turn # None /\ p.turn # None /\ e.turn # p.turn
      THEN stopped
      ELSE [stopped EXCEPT !.inTurn = FALSE, !.turn = TurnOf(p, e),
                           !.pendingAt = None, !.tools = {}]

Folded(p, e) ==
  [CASE e.event = "session_start"      -> p
     [] e.event = "user_prompt_submit" -> OnPrompt(p, e)
     [] e.event = "permission_request" -> OnPermission(p, e)
     [] e.event = "pre_tool_use"       -> OnPreTool(p, e)
     [] e.event = "post_tool_use"      -> OnPostTool(p, e)
     [] e.event = "stop"               -> OnStop(p, e)
   EXCEPT !.updatedAt = e.at]

\* The state of a set of events with distinct times up to `now`, folded in
\* the order of their timestamps whatever their order in the log.
Summary(events, now) ==
  LET After[t \in 0 .. now] ==
        IF t = 0 THEN NoState
        ELSE IF \E e \in events : e.at = t
             THEN Folded(After[t - 1], CHOOSE e \in events : e.at = t)
             ELSE After[t - 1]
  IN  After[now]

AwaitingDecision(h) == h.inTurn /\ h.pendingAt # None

=============================================================================
