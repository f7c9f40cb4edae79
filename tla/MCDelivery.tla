----------------------------- MODULE MCDelivery -----------------------------
(* Model of Delivery for TLC: the third event repeats the event_id of the   *)
(* first, the fourth is one that the collector refuses and the fifth one    *)
(* that it cannot store.                                                    *)
EXTENDS Delivery

FiveEvents == <<"k1", "k2", "k1", "bad", "nul">>
=============================================================================
