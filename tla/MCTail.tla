------------------------------- MODULE MCTail -------------------------------
(* Model of Tail, and of SpoolFile below it, for TLC. *)
EXTENDS Tail
=============================================================================
