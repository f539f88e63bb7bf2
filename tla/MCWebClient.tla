---------------------------- MODULE MCWebClient ----------------------------
(* A small instance of WebClient; its constants need no definitions.       *)
EXTENDS WebClient
=============================================================================
