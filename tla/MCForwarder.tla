----------------------------- MODULE MCForwarder -----------------------------
(* Model of Forwarder for TLC.  An integer has 8 bits and a second 10 units, *)
(* so that up to 12 seconds fit into a duration and 13 do not; in the code    *)
(* 9223372036 do.  The longest Retry-After is 6 seconds.                     *)
EXTENDS Forwarder

Steps == <<10, 50>>
=============================================================================
