----------------------------- MODULE MCHookLog -----------------------------
(* Small instances of HookLog.                                             *)
EXTENDS HookLog
=============================================================================
