----------------------------- MODULE MCNntpPool -----------------------------
(* NntpPool on small instances. *)
EXTENDS NntpPool
=============================================================================
