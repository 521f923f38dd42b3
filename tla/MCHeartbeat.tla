----------------------------- MODULE MCHeartbeat -----------------------------
(* Heartbeat with a short interval, for TLC. *)
EXTENDS Heartbeat
==============================================================================
