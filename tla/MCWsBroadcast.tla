--------------------------- MODULE MCWsBroadcast ---------------------------
(* Small instances of WsBroadcast.  Statuses alternate, so that a change   *)
(* followed by a change back leaves the hash as it was.                    *)
EXTENDS WsBroadcast

CONSTANT BadLocals \* local versions with a working directory that is not UTF-8

MCHash(l, r) == <<l % 2, r % 2>>
MCEncodable(l) == l \notin BadLocals
=============================================================================
