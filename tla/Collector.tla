----------------------------- MODULE Collector -----------------------------
(***************************************************************************)
(* The collector's POST /events (internal/collector/server.go, store.go):  *)
(* the requests of one agent, each handled in a transaction of its own     *)
(* that inserts the row of the batch and then the rows of its events.      *)
(*                                                                         *)
(* Several requests may be in progress at once: the agent gives up a       *)
(* request after a time and posts the batch again, and it may restart,     *)
(* while the collector still works on the first one or has not received it *)
(* yet.  Nothing but PostgreSQL keeps the handlers apart.  It is modelled  *)
(* from how store.go uses it: transactions are atomic and durable, and     *)
(* INSERT ... ON CONFLICT DO NOTHING waits for a transaction that has      *)
(* inserted the same key and has not ended yet.                            *)
(*                                                                         *)
(* Abstractions.  Both tables are keyed by agent_id, so the requests of    *)
(* different agents do not meet and one agent is enough.  An event is the  *)
(* event_key that eventKey computes for it.                                *)
(***************************************************************************)
EXTENDS Sequences, FiniteSetsExt, Functions

CONSTANTS
    Keys,       \* values of event_key
    BatchIds,   \* values of batch_id
    NoBatch,    \* a value that is not a batch_id
    Body,       \* Body[b]: the events of batch b
    Invalid,    \* keys of the events that validateEvents refuses
    Unstorable, \* keys of valid events that PostgreSQL refuses
    MaxItems,   \* the limit of 10000 events in handleEvents
    Requests,   \* bound: the requests in progress at a time
    StoreFaults \* what may go wrong: a subset of AllStoreFaults

(* "auth": the token is not accepted; "body": the body cannot be read, as  *)
(* when a slow upload runs into ReadTimeout; "stmt": a statement fails     *)
(* (database down, request cancelled); "commit": COMMIT reports an error   *)
(* although it took effect; "crash": the collector stops.                  *)
AllStoreFaults == {"auth", "body", "stmt", "commit", "crash"}

ASSUME CollectorAssumption ==
    /\ NoBatch \notin BatchIds
    /\ Body \in [BatchIds -> Seq(Keys)]
    /\ Invalid \subseteq Keys /\ Unstorable \subseteq Keys
    /\ MaxItems \in Nat
    /\ StoreFaults \subseteq AllStoreFaults

VARIABLES
    batches,    \* the committed rows of table batches
    events,     \* the committed rows of table events, by event_key
    req         \* req[r]: the request r and its transaction

collectorVars == <<batches, events, req>>

(* A request: where its handler is, its batch, how many of its events have *)
(* been inserted, the rows its transaction has added, the answer.          *)
Steps    == {"idle", "sent", "begin", "batch", "events", "answered"}
Statuses == {0, 200, 400, 401, 413, 503}

NoRequest == [pc |-> "idle", id |-> NoBatch, done |-> 0, owner |-> FALSE, added |-> {},
              status |-> 0]

CollectorInit ==
    /\ batches = {}
    /\ events = {}
    /\ req = [r \in Requests |-> NoRequest]

-----------------------------------------------------------------------------
(* A POST of batch b is on its way; the answer will be read later, or not. *)
Send(r, b) ==
    /\ req[r].pc = "idle"
    /\ req' = [req EXCEPT ![r] = [NoRequest EXCEPT !.pc = "sent", !.id = b]]
    /\ UNCHANGED <<batches, events>>

(* The answer has been read, or nobody waits for it any more. *)
Forget(r) ==
    /\ req[r].pc = "answered"
    /\ req' = [req EXCEPT ![r] = NoRequest]
    /\ UNCHANGED <<batches, events>>

(* The transaction ends (commits nothing itself) with an answer. *)
Answered(r, status) ==
    [req EXCEPT ![r] = [@ EXCEPT !.pc = "answered", !.owner = FALSE, !.added = {},
                                 !.status = status]]

Answer(r, status) ==
    /\ req' = Answered(r, status)
    /\ UNCHANGED <<batches, events>>

Events(r) == Body[req[r].id]

(* validateEvents: one event that is refused refuses the batch. *)
IsValid(r) == Events(r) # << >> /\ Range(Events(r)) \cap Invalid = {}

(* serveHTTP and handleEvents up to SaveEvents: 401 for a token that is    *)
(* not accepted, ...                                                       *)
Unauthorized(r) ==
    /\ "auth" \in StoreFaults
    /\ req[r].pc = "sent"
    /\ Answer(r, 401)

(* ... 400 for a body that cannot be read or decoded, 413 for one that is  *)
(* too large, ...                                                          *)
BadBody(r) ==
    /\ "body" \in StoreFaults
    /\ req[r].pc = "sent"
    /\ \E status \in {400, 413} : Answer(r, status)

(* ... 400 for a batch that is not valid, 413 for one with too many        *)
(* events, ...                                                             *)
Refuse(r) ==
    /\ req[r].pc = "sent"
    /\ \/ ~IsValid(r) /\ Answer(r, 400)
       \/ IsValid(r) /\ Len(Events(r)) > MaxItems /\ Answer(r, 413)

(* ... or SaveEvents is called and its transaction begins. *)
Begin(r) ==
    /\ req[r].pc = "sent"
    /\ IsValid(r) /\ Len(Events(r)) <= MaxItems
    /\ req' = [req EXCEPT ![r].pc = "batch"]
    /\ UNCHANGED <<batches, events>>

(* Mutant of KeyHolders: the rows of open transactions are not seen. *)
NoKeyHolders(r, k) == {}

(* Transactions other than r's that have inserted the row and are open. *)
BatchHolders(r)  == {s \in Requests \ {r} : req[s].owner /\ req[s].id = req[r].id}
KeyHolders(r, k) == {s \in Requests \ {r} : k \in req[s].added}

NextKey(r) == Events(r)[req[r].done + 1]

(* Mutant of InsertBatch: the row of the batch is not in the transaction. *)
InsertBatchAtOnce(r) ==
    /\ req[r].pc = "batch"
    /\ BatchHolders(r) = {}
    /\ req[r].id \notin batches
    /\ req' = [req EXCEPT ![r].owner = TRUE, ![r].pc = "events"]
    /\ batches' = batches \cup {req[r].id}
    /\ UNCHANGED events

(* INSERT INTO batches ... ON CONFLICT DO NOTHING inserts the row ... *)
InsertBatch(r) ==
    /\ req[r].pc = "batch"
    /\ BatchHolders(r) = {}
    /\ req[r].id \notin batches
    /\ req' = [req EXCEPT ![r].owner = TRUE, ![r].pc = "events"]
    /\ UNCHANGED <<batches, events>>

(* Mutant of FindBatch: a batch that is being stored counts as stored. *)
FindBatchOpen(r) ==
    /\ req[r].pc = "batch"
    /\ req[r].id \in batches \/ BatchHolders(r) # {}
    /\ Answer(r, 200)

(* ... or finds it: the batch has been stored before, and is acknowledged. *)
FindBatch(r) ==
    /\ req[r].pc = "batch"
    /\ BatchHolders(r) = {}
    /\ req[r].id \in batches
    /\ Answer(r, 200)

(* One round of the loop over the events: the row is added unless it is    *)
(* there, in the table or from an earlier event of the same batch.         *)
InsertEvent(r) ==
    /\ req[r].pc = "events" /\ req[r].done < Len(Events(r))
    /\ NextKey(r) \notin Unstorable
    /\ KeyHolders(r, NextKey(r)) = {}
    /\ req' = [req EXCEPT ![r].done = @ + 1,
                          ![r].added = IF NextKey(r) \in events THEN @ ELSE @ \cup {NextKey(r)}]
    /\ UNCHANGED <<batches, events>>

(* An event that validateEvents accepts and no INSERT can store, such as a *)
(* raw with a NUL character, which JSON may hold and text may not.         *)
CannotStore(r) ==
    /\ req[r].pc = "events" /\ req[r].done < Len(Events(r))
    /\ NextKey(r) \in Unstorable
    /\ Answer(r, 503)

(* The rows of the transaction of r become durable and visible. *)
MakeDurable(r) ==
    /\ batches' = batches \cup {req[r].id}
    /\ events' = events \cup req[r].added

(* tx.Commit *)
CommitTx(r) ==
    /\ req[r].pc = "events" /\ req[r].done = Len(Events(r))
    /\ MakeDurable(r)
    /\ req' = Answered(r, 200)

(* tx.Commit returns an error although the server has committed. *)
CommitUnknown(r) ==
    /\ "commit" \in StoreFaults
    /\ req[r].pc = "events" /\ req[r].done = Len(Events(r))
    /\ MakeDurable(r)
    /\ req' = Answered(r, 503)

(* A call of SaveEvents returns an error: the transaction is rolled back   *)
(* by the deferred Rollback.                                               *)
SaveFails(r) ==
    /\ "stmt" \in StoreFaults
    /\ req[r].pc \in {"batch", "events"}
    /\ Answer(r, 503)

(* r cannot go on before s ends. *)
WaitsFor(r, s) ==
    \/ req[r].pc = "batch" /\ s \in BatchHolders(r)
    \/ /\ req[r].pc = "events" /\ req[r].done < Len(Events(r))
       /\ NextKey(r) \notin Unstorable /\ s \in KeyHolders(r, NextKey(r))

(* Every transaction of S waits for another one of S. *)
WaitCycle(S) == S # {} /\ \A r \in S : \E s \in S : WaitsFor(r, s)

(* PostgreSQL ends a circle of waiting transactions by failing one.        *)
BreakDeadlock(r) ==
    /\ \E S \in SUBSET Requests : r \in S /\ WaitCycle(S)
    /\ Answer(r, 503)

(* The collector stops: PostgreSQL rolls back its open transactions.       *)
CollectorCrash ==
    /\ "crash" \in StoreFaults
    /\ \E r \in Requests : req[r].pc \notin {"idle", "sent"}
    /\ req' = [r \in Requests |-> IF req[r].pc = "sent" THEN req[r] ELSE NoRequest]
    /\ UNCHANGED <<batches, events>>

(* What the handler of a request does, and how it may fail. *)
Work(r) == \/ Refuse(r) \/ Begin(r) \/ InsertBatch(r) \/ FindBatch(r) \/ InsertEvent(r)
           \/ CannotStore(r) \/ CommitTx(r) \/ BreakDeadlock(r)

Fail(r) == Unauthorized(r) \/ BadBody(r) \/ CommitUnknown(r) \/ SaveFails(r)

CollectorNext ==
    \/ \E r \in Requests : Work(r) \/ Fail(r) \/ Forget(r) \/ \E b \in BatchIds : Send(r, b)
    \/ CollectorCrash

CollectorSpec == CollectorInit /\ [][CollectorNext]_collectorVars

-----------------------------------------------------------------------------
(***************************************************************************)
(* Properties                                                              *)
(***************************************************************************)

(* Every variable has its type. *)
CollectorTypeOK ==
    /\ batches \subseteq BatchIds
    /\ events \subseteq Keys
    /\ req \in [Requests -> [pc : Steps, id : BatchIds \cup {NoBatch}, done : Nat,
                             owner : BOOLEAN, added : SUBSET Keys, status : Statuses]]

(* "Writes event batches transactionally": when the row of a batch is in   *)
(* the database, so are all its events; the shortcut of SaveEvents for a   *)
(* batch it finds there is therefore right to acknowledge it.              *)
BatchAtomic == \A b \in batches : Range(Body[b]) \subseteq events

(* A request is answered 200 only when every event of its batch is         *)
(* durable, whichever request stored it.                                   *)
AckedDurable ==
    \A r \in Requests : req[r].pc = "answered" /\ req[r].status = 200
                            => Range(Events(r)) \subseteq events

(* "Deduplicates retried batches and events": two transactions never hold  *)
(* the same row, nor one that is committed; no event gets a second row.    *)
RowsOnce ==
    \A r \in Requests :
        /\ req[r].added \cap events = {}
        /\ req[r].owner => req[r].id \notin batches
        /\ \A s \in Requests \ {r} :
             /\ req[r].added \cap req[s].added = {}
             /\ req[r].owner /\ req[s].owner => req[r].id # req[s].id

(* What a transaction has added is what it has read of its batch. *)
Progress ==
    \A r \in Requests :
        /\ req[r].pc # "idle" => req[r].id \in BatchIds
        /\ req[r].pc \in {"sent", "batch"} => req[r].done = 0
        /\ req[r].pc = "events" =>
             /\ req[r].owner /\ req[r].done <= Len(Events(r))
             /\ req[r].added \subseteq Range(Events(r))
             /\ \A i \in 1..req[r].done : Events(r)[i] \in events \cup req[r].added
        /\ req[r].pc # "events" => ~req[r].owner /\ req[r].added = {}

(* All of SaveEvents and its transactions, failures included, does what    *)
(* Dedup promises: a step stores a whole new batch at once, or nothing.    *)
D == INSTANCE Dedup

DedupSpec == D!Spec

CollectorInv ==
    CollectorTypeOK /\ BatchAtomic /\ AckedDurable /\ RowsOnce /\ Progress
=============================================================================
