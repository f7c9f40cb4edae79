------------------------------ MODULE Delivery ------------------------------
(***************************************************************************)
(* The forwarder's deliver (internal/agent/forwarder.go) against the       *)
(* collector: the agent posts a batch under one batch_id until it gets an  *)
(* answer it can act on, over a network that delays and loses requests and *)
(* answers; it gives up waiting, it restarts, and the collector fails.     *)
(*                                                                         *)
(* The spool is the sequence of the events (Spool says why that is so): a  *)
(* position is the number of events before it.                             *)
(***************************************************************************)
EXTENDS SequencesExt

CONSTANTS
    KeyOf,       \* the event_key of each event of the spool, in order
    Invalid,     \* keys of the events that the collector refuses
    Unstorable,  \* keys of the valid events that it can never store
    BatchSize,   \* forwarder.batch_size
    MaxItems,    \* the collector's limit on a batch
    Requests,    \* bound: requests in the network or the collector
    NoBatch, NoCall,
    StoreFaults, \* the faults of the collector
    MaxRestarts, \* bound: restarts of the agent
    MaxFailures  \* bound: lost messages, time-outs, failures of the collector

N == Len(KeyOf)

(* A batch_id is fresh for every batch that deliver is called with. *)
Serials  == 1..N * (1 + MaxRestarts)
BatchIds == {b \in [serial : Serials, from : 0..N, to : 0..N] :
                b.from < b.to /\ b.to - b.from <= BatchSize}

(* Mutant of Body: the order of the events changes from batch to batch. *)
BodyAnyOrder == [b \in BatchIds |-> IF b.serial % 2 = 1
                                    THEN SubSeq(KeyOf, b.from + 1, b.to)
                                    ELSE Reverse(SubSeq(KeyOf, b.from + 1, b.to))]

Body     == [b \in BatchIds |-> SubSeq(KeyOf, b.from + 1, b.to)]

VARIABLES
    batches, events, req,   \* the collector
    apc,        \* "read", "post", "wait", "acked": where the forwarder is
    committed,  \* Spool.committed
    offset,     \* the offset file
    batch,      \* the batch deliver works on
    call,       \* the request post waits for
    dead,       \* events written to the dead-letter file
    serial,     \* batch_ids used so far
    restarts, failures

agentVars == <<apc, committed, offset, batch, call, dead, serial>>
vars == <<batches, events, req, agentVars, restarts, failures>>

C == INSTANCE Collector WITH Keys <- Range(KeyOf)

ASSUME DeliveryAssumption ==
    /\ KeyOf \in Seq(Range(KeyOf))
    /\ Invalid \subseteq Range(KeyOf) /\ Unstorable \subseteq Range(KeyOf)
    /\ BatchSize \in Nat /\ MaxItems \in Nat
    /\ NoBatch \notin BatchIds /\ NoCall \notin Requests
    /\ StoreFaults \subseteq C!AllStoreFaults
    /\ MaxRestarts \in Nat /\ MaxFailures \in Nat

Init ==
    /\ C!CollectorInit
    /\ apc = "read" /\ committed = 0 /\ offset = 0
    /\ batch = NoBatch /\ call = NoCall /\ dead = {} /\ serial = 0
    /\ restarts = 0 /\ failures = 0

Failure == failures < MaxFailures /\ failures' = failures + 1

-----------------------------------------------------------------------------
(* Mutant of Read: the offset is saved when the batch is read. *)
ReadSavesOffset ==
    /\ apc = "read"
    /\ \E b \in BatchIds :
         /\ b.serial = serial + 1 /\ b.from = committed
         /\ batch' = b /\ offset' = b.to
    /\ serial' = serial + 1
    /\ apc' = "post"
    /\ UNCHANGED <<batches, events, req, committed, call, dead, restarts, failures>>

(* Forwarder.Run: a batch from the committed position, full or not. *)
Read ==
    /\ apc = "read"
    /\ \E b \in BatchIds :
         /\ b.serial = serial + 1 /\ b.from = committed
         /\ batch' = b
    /\ serial' = serial + 1
    /\ apc' = "post"
    /\ UNCHANGED <<batches, events, req, committed, offset, call, dead, restarts, failures>>

(* deliver: one attempt. *)
Post ==
    /\ apc = "post"
    /\ \E r \in Requests : C!Send(r, batch) /\ call' = r
    /\ apc' = "wait"
    /\ UNCHANGED <<committed, offset, batch, dead, serial, restarts, failures>>

Status == req[call].status

(* 2xx: the batch may be committed. *)
OnStored ==
    /\ apc = "wait" /\ req[call].pc = "answered" /\ Status = 200
    /\ C!Forget(call)
    /\ call' = NoCall /\ apc' = "acked"
    /\ UNCHANGED <<committed, offset, batch, dead, serial, restarts, failures>>

(* Mutant of OnRejected: a 4xx is retried. *)
OnRejectedRetried ==
    /\ apc = "wait" /\ req[call].pc = "answered" /\ Status \in 400..499
    /\ C!Forget(call)
    /\ call' = NoCall /\ apc' = "post"
    /\ UNCHANGED <<committed, offset, batch, dead, serial, restarts, failures>>

(* 4xx: the batch goes to the dead-letter file, and may be committed ...   *)
OnRejected ==
    /\ apc = "wait" /\ req[call].pc = "answered" /\ Status \in 400..499
    /\ C!Forget(call)
    /\ dead' = dead \cup (batch.from + 1..batch.to)
    /\ call' = NoCall /\ apc' = "acked"
    /\ UNCHANGED <<committed, offset, batch, serial, restarts, failures>>

(* ... unless the dead letter cannot be written: the batch is posted again.*)
DeadLetterFails ==
    /\ Failure
    /\ apc = "wait" /\ req[call].pc = "answered" /\ Status \in 400..499
    /\ C!Forget(call)
    /\ call' = NoCall /\ apc' = "post"
    /\ UNCHANGED <<committed, offset, batch, dead, serial, restarts>>

(* Mutant of OnUnavailable: a 503 is taken for success. *)
OnUnavailableAcked ==
    /\ apc = "wait" /\ req[call].pc = "answered" /\ Status = 503
    /\ C!Forget(call)
    /\ call' = NoCall /\ apc' = "acked"
    /\ UNCHANGED <<committed, offset, batch, dead, serial, restarts, failures>>

(* 5xx: the batch is posted again after the backoff. *)
OnUnavailable ==
    /\ apc = "wait" /\ req[call].pc = "answered" /\ Status = 503
    /\ C!Forget(call)
    /\ call' = NoCall /\ apc' = "post"
    /\ UNCHANGED <<committed, offset, batch, dead, serial, restarts, failures>>

(* The client's time-out, or a broken connection: the request goes on by   *)
(* itself, and the batch is posted again.                                  *)
GiveUp ==
    /\ Failure
    /\ apc = "wait"
    /\ call' = NoCall /\ apc' = "post"
    /\ UNCHANGED <<batches, events, req, committed, offset, batch, dead, serial, restarts>>

(* The collector has stopped and dropped the connection. *)
Disconnected ==
    /\ apc = "wait" /\ req[call].pc = "idle"
    /\ call' = NoCall /\ apc' = "post"
    /\ UNCHANGED <<batches, events, req, committed, offset, batch, dead, serial, restarts,
                   failures>>

(* Commit: the position in memory, and the offset file, whose write may    *)
(* fail.                                                                   *)
Commit ==
    /\ apc = "acked"
    /\ committed' = batch.to
    /\ \/ offset' = batch.to /\ UNCHANGED failures
       \/ offset' = offset /\ Failure
    /\ batch' = NoBatch /\ apc' = "read"
    /\ UNCHANGED <<batches, events, req, call, dead, serial, restarts>>

(* The agent stops or is killed at any point, and starts again. *)
Restart ==
    /\ restarts < MaxRestarts
    /\ restarts' = restarts + 1
    /\ committed' = offset
    /\ apc' = "read" /\ batch' = NoBatch /\ call' = NoCall
    /\ UNCHANGED <<batches, events, req, offset, dead, serial, failures>>

-----------------------------------------------------------------------------
(* A request that nobody waits for is lost on the way, or its answer is.   *)
Lose(r) ==
    /\ Failure
    /\ r # call /\ req[r].pc = "sent"
    /\ req' = [req EXCEPT ![r] = C!NoRequest]
    /\ UNCHANGED <<batches, events, agentVars, restarts>>

Discard(r) ==
    /\ r # call /\ C!Forget(r)
    /\ UNCHANGED <<agentVars, restarts, failures>>

Work(r) == C!Work(r) /\ UNCHANGED <<agentVars, restarts, failures>>

CollectorFails ==
    /\ Failure
    /\ C!CollectorCrash \/ \E r \in Requests : C!Fail(r)
    /\ UNCHANGED <<agentVars, restarts>>

(* Everything has been delivered. *)
Done ==
    /\ committed = N
    /\ \A r \in Requests : req[r].pc = "idle"
    /\ UNCHANGED vars

Agent == \/ Read \/ Post \/ OnStored \/ OnRejected \/ DeadLetterFails \/ OnUnavailable
         \/ GiveUp \/ Disconnected \/ Commit \/ Restart

Next == Agent \/ CollectorFails \/ Done \/ \E r \in Requests : Lose(r) \/ Discard(r) \/ Work(r)

(* The forwarder's loop, PostgreSQL and the handlers go on; nothing is     *)
(* assumed of time-outs, failures or restarts.                             *)
Fairness ==
    /\ WF_vars(Read \/ Post \/ OnStored \/ OnRejected \/ OnUnavailable \/ Disconnected \/ Commit)
    /\ \A r \in Requests : WF_vars(Work(r)) /\ WF_vars(Discard(r))

Spec == Init /\ [][Next]_vars /\ Fairness

-----------------------------------------------------------------------------
(* An event is settled when its key has a row or its batch a dead letter.  *)
Stored(e)  == KeyOf[e] \in events
Settled(e) == Stored(e) \/ e \in dead

(* Every variable has its type: the position, the offset file and the dead *)
(* letters only name events of the spool.                                  *)
TypeOK ==
    /\ C!CollectorTypeOK
    /\ apc \in {"read", "post", "wait", "acked"}
    /\ committed \in 0..N /\ offset \in 0..N
    /\ batch \in BatchIds \cup {NoBatch} /\ call \in Requests \cup {NoCall}
    /\ dead \subseteq 1..N /\ serial \in 0..N * (1 + MaxRestarts)
    /\ restarts \in 0..MaxRestarts /\ failures \in 0..MaxFailures

(* Nothing is passed over, in memory or in the offset file, that is not    *)
(* durable in the collector or in a dead letter: not when a request of the *)
(* batch is still running, rolled back after its retry has been answered,  *)
(* or handled only after the agent has gone on.                            *)
PassedSettled == \A e \in 1..N : e <= committed \/ e <= offset => Settled(e)

(* Every variable has its type, and whatever the network, the collector    *)
(* and restarts do, what deliver and Commit have passed is settled.        *)
DeliveryInv == TypeOK /\ PassedSettled

(* Events are stored in the order of the spool: when an event has a row,   *)
(* every earlier one is settled, although requests overtake each other.    *)
(* So nothing passes an event that cannot be stored, short of a dead       *)
(* letter.                                                                 *)
StoredInOrder ==
    \A e \in 1..N : Stored(e) /\ (\A f \in 1..(e - 1) : KeyOf[f] # KeyOf[e])
                        => \A f \in 1..(e - 1) : Settled(f)

(* The transactions of one agent never wait for each other in a circle,    *)
(* because every batch inserts its events in the order of the spool.  (If  *)
(* a batch went to a dead letter although its request was still running,   *)
(* and an event_id repeats later on, they may; PostgreSQL then fails one.) *)
NoWaitCycle ==
    dead = {} \/ IsInjective(KeyOf) => \A S \in SUBSET Requests : ~C!WaitCycle(S)

(* deliver works on a batch that the collector answers 503 for ever. *)
Stuck == batch # NoBatch /\ Range(Body[batch]) \cap Unstorable # {}

(* If failures and restarts come to an end, every event of the spool is    *)
(* eventually passed for good, unless the forwarder stays for good with a  *)
(* batch that holds an event the collector can never store.  A batch that  *)
(* holds none is never what holds the queue up.                            *)
EventuallyAll == <>[](committed = N) \/ <>[]Stuck

(* An event of Handoff is settled in the sense above, its position is the  *)
(* committed one and the saved position is that of the offset file.        *)
H == INSTANCE Handoff WITH settled <- {e \in 1..N : Settled(e)},
                           position <- committed, saved <- offset

(* deliver, Commit and the collector together do what Handoff promises:    *)
(* every step advances over settled events only, unsettles nothing, or     *)
(* goes back to the saved position by a restart.                           *)
HandoffSpec == H!Spec
=============================================================================
