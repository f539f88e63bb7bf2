----------------------------- MODULE BoundedLog -----------------------------
(***************************************************************************)
(* What a rotating log promises, without files, locks or processes: events *)
(* are appended one at a time, old ones may be evicted at any moment, but  *)
(* never one of the newest Keep, and what was evicted does not come back.  *)
(***************************************************************************)
EXTENDS Integers

CONSTANT Keep

VARIABLES written, log

Init == written = 0 /\ log = {}

AppendEvent ==
  /\ written' = written + 1
  /\ log' = log \union {written + 1}

Evict ==
  /\ log' \subseteq log
  /\ \A e \in log \ log' : e <= written - Keep
  /\ UNCHANGED written

Spec == Init /\ [][AppendEvent \/ Evict]_<<written, log>>

=============================================================================
