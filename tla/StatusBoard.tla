---------------------------- MODULE StatusBoard ----------------------------
(***************************************************************************)
(* What the monitor promises a person who watches it, with no caches,      *)
(* threads or queues: there is a world that changes, and each watcher has  *)
(* a view of it.  A view never shows something the world has not been, and *)
(* a watcher whose view no longer looks like the world is eventually shown *)
(* a current one.                                                          *)
(***************************************************************************)
EXTENDS Naturals

CONSTANTS Watchers, MaxLocal, MaxRemote, Looks(_, _), NoView

VARIABLES local, remote, watching, view

vars == <<local, remote, watching, view>>

Init ==
  /\ local = 0 /\ remote = 0
  /\ watching = {}
  /\ view = [w \in Watchers |-> NoView]

Change ==
  /\ \/ local' = local + 1 /\ remote' = remote
     \/ remote' = remote + 1 /\ local' = local
  /\ UNCHANGED <<watching, view>>

Join(w) ==
  /\ w \notin watching
  /\ watching' = watching \union {w}
  /\ UNCHANGED <<local, remote, view>>

\* Several may be dropped at once.
Leave(ws) ==
  /\ ws # {} /\ ws \subseteq watching
  /\ watching' = watching \ ws
  /\ UNCHANGED <<local, remote, view>>

\* The two halves of a view may be of different ages, never of the future.
\* A view may still arrive while a watcher is on its way out.
Show(w, l, r) ==
  /\ l <= local /\ r <= remote
  /\ view' = [view EXCEPT ![w] = <<l, r>>]
  /\ UNCHANGED <<local, remote, watching>>

ShowCurrent(w) ==
  /\ w \in watching
  /\ view[w] # NoView => Looks(view[w][1], view[w][2]) # Looks(local, remote)
  /\ \E l \in 0 .. MaxLocal, r \in 0 .. MaxRemote :
       Looks(l, r) = Looks(local, remote) /\ Show(w, l, r)

Next ==
  \/ Change
  \/ \E ws \in SUBSET Watchers : Leave(ws)
  \/ \E w \in Watchers :
       \/ Join(w)
       \/ \E l \in 0 .. MaxLocal, r \in 0 .. MaxRemote : Show(w, l, r)

Spec == Init /\ [][Next]_vars /\ \A w \in Watchers : WF_vars(ShowCurrent(w))

=============================================================================
