---------------------------- MODULE MCHeartbeat ----------------------------
(* Model of Heartbeat for TLC. *)
EXTENDS Heartbeat
=============================================================================
