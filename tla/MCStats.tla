------------------------------ MODULE MCStats ------------------------------
(* Instances of Stats for TLC. *)
EXTENDS Stats
=============================================================================
