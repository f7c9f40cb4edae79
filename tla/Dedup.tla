------------------------------- MODULE Dedup -------------------------------
(***************************************************************************)
(* What the agent relies on when it posts a batch again: the collector     *)
(* stores a batch as a whole or not at all, and once, and an event that is *)
(* in an earlier batch too gets no second row.  Nothing is taken back.     *)
(***************************************************************************)
EXTENDS Functions

CONSTANTS
    BatchIds,   \* values of batch_id
    Body        \* Body[b]: the events of batch b, as their keys

VARIABLES
    batches,    \* the batches stored so far
    events      \* the keys of the events stored so far

Init == batches = {} /\ events = {}

Store(b) ==
    /\ b \notin batches
    /\ batches' = batches \cup {b}
    /\ events' = events \cup Range(Body[b])

Next == \E b \in BatchIds : Store(b)

Spec == Init /\ [][Next]_<<batches, events>>
=============================================================================
