------------------------------ MODULE Handoff ------------------------------
(***************************************************************************)
(* What the forwarder promises about a sequence of N spooled events: an    *)
(* event may be settled (stored by the collector or written to a dead      *)
(* letter) at any time, and stays settled; the position advances only over *)
(* settled events; a restart goes back to the position last saved.         *)
(***************************************************************************)
EXTENDS Naturals

CONSTANT N

VARIABLES settled, position, saved

vars == <<settled, position, saved>>

Init == settled = {} /\ position = 0 /\ saved = 0

Settle ==
    /\ \E S \in SUBSET (1..N) : settled' = settled \cup S
    /\ UNCHANGED <<position, saved>>

Advance ==
    /\ \E n \in position + 1..N :
         /\ 1..n \subseteq settled
         /\ position' = n
         /\ saved' \in {saved, n}
    /\ UNCHANGED settled

Restart ==
    /\ position' = saved
    /\ UNCHANGED <<settled, saved>>

Next == Settle \/ Advance \/ Restart

Spec == Init /\ [][Next]_vars
=============================================================================
