---------------------------- MODULE MCNntpClient ----------------------------
(* Three calls on one connection: for the pool, a login and two commands. *)
EXTENDS NntpClient
=============================================================================
