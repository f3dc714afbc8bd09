----------------------------- MODULE MCHeartbeat -----------------------------
(* Two nodes whose heartbeats run against the server's check, for TLC.     *)
EXTENDS Heartbeat, TLC

Symmetric == Permutations(Nodes)
=============================================================================
