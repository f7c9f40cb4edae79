----------------------------- MODULE MCCollector -----------------------------
(* Model of Collector for TLC: the batches of one agent, as re-reading the  *)
(* same lines after a restart cuts them (a, b), one with an event_id that   *)
(* repeats in another order (c), one refused (d), one too long (e) and one  *)
(* that cannot be stored (f).                                               *)
EXTENDS Collector, TLC

MCBody == "a" :> <<"k1", "k2">> @@ "b" :> <<"k1", "k2", "k3">> @@ "c" :> <<"k3", "k1", "k3">>
          @@ "d" :> <<"k2", "bad">> @@ "e" :> <<"k1", "k2", "k3", "k1">>
          @@ "f" :> <<"k2", "nul", "k1">>

(* The requests are interchangeable. *)
Symmetry == Permutations(Requests)
=============================================================================
