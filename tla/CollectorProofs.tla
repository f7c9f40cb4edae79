--------------------------- MODULE CollectorProofs ---------------------------
(***************************************************************************)
(* Proofs about Collector, for any number of concurrent requests, any      *)
(* batches (with events shared between them or repeated) and any of the    *)
(* faults.                                                                 *)
(***************************************************************************)
EXTENDS Collector, SequenceTheorems, TLAPS

RequestType == [pc : Steps, id : BatchIds \cup {NoBatch}, done : Nat,
                owner : BOOLEAN, added : SUBSET Keys, status : Statuses]

(* The body of a batch is a finite sequence of keys. *)
LEMMA BodyIsSeq ==
    ASSUME NEW b \in BatchIds
    PROVE  /\ Body[b] \in Seq(Keys) /\ Len(Body[b]) \in Nat
           /\ DOMAIN Body[b] = 1..Len(Body[b])
           /\ \A i \in 1..Len(Body[b]) : Body[b][i] \in Keys
<1>1. Body[b] \in Seq(Keys)
  BY CollectorAssumption
<1> QED BY <1>1, LenProperties, ElementOfSeq

(* The invariant holds initially. *)
LEMMA CollectorInvInit == CollectorInit => CollectorInv
BY DEF CollectorInit, CollectorInv, CollectorTypeOK, BatchAtomic, AckedDurable, RowsOnce,
       Progress, NoRequest, Steps, Statuses

(* What one step of a request changes: the record of the request only.     *)
LEMMA OneRequest ==
    ASSUME CollectorInv, NEW r \in Requests, NEW q \in RequestType,
           req' = [req EXCEPT ![r] = q]
    PROVE  /\ req' \in [Requests -> RequestType]
           /\ req'[r] = q
           /\ \A s \in Requests \ {r} : req'[s] = req[s]
BY DEF CollectorInv, CollectorTypeOK, RequestType

(* A request that adds no row and is not answered 200 keeps the invariant, *)
(* provided that it keeps what it knows of itself.                         *)
LEMMA QuietStep ==
    ASSUME CollectorInv, NEW r \in Requests, NEW q \in RequestType,
           req' = [req EXCEPT ![r] = q], UNCHANGED <<batches, events>>,
           q.pc # "events" /\ q.owner = FALSE /\ q.added = {},
           q.pc # "idle" => q.id \in BatchIds,
           q.pc \in {"sent", "batch"} => q.done = 0,
           q.pc = "answered" /\ q.status = 200 => Range(Body[q.id]) \subseteq events
    PROVE  CollectorInv'
<1>1. /\ req' \in [Requests -> RequestType] /\ req'[r] = q
      /\ \A s \in Requests \ {r} : req'[s] = req[s]
  BY OneRequest
<1>2. CollectorTypeOK'
  BY <1>1 DEF CollectorInv, CollectorTypeOK, RequestType
<1>3. BatchAtomic'
  BY DEF CollectorInv, BatchAtomic
<1>4. AckedDurable'
  BY <1>1 DEF CollectorInv, AckedDurable, Events
<1>5. RowsOnce'
  BY <1>1 DEF CollectorInv, RowsOnce
<1>6. Progress'
  BY <1>1 DEF CollectorInv, Progress, Events
<1> QED BY <1>2, <1>3, <1>4, <1>5, <1>6 DEF CollectorInv

(* Answering without committing anything keeps the invariant. *)
LEMMA AnswerStep ==
    ASSUME CollectorInv, NEW r \in Requests, NEW st \in Statuses, req[r].pc # "idle",
           Answer(r, st), st = 200 => Range(Events(r)) \subseteq events
    PROVE  CollectorInv'
<1> DEFINE q == [req[r] EXCEPT !.pc = "answered", !.owner = FALSE, !.added = {},
                               !.status = st]
<1>1. req[r] \in RequestType /\ req[r].id \in BatchIds
  BY DEF CollectorInv, CollectorTypeOK, RequestType, Progress
<1>2. /\ q \in RequestType /\ q.pc = "answered" /\ q.owner = FALSE /\ q.added = {}
      /\ q.id = req[r].id /\ q.status = st
  BY <1>1 DEF RequestType, Steps
<1>3. req' = [req EXCEPT ![r] = q] /\ UNCHANGED <<batches, events>>
  BY DEF Answer, Answered
<1>4. q.pc = "answered" /\ q.status = 200 => Range(Body[q.id]) \subseteq events
  BY <1>2 DEF Events
<1> HIDE DEF q
<1> QED BY <1>1, <1>2, <1>3, <1>4, QuietStep

(* CommitTx and CommitUnknown: all events of the batch become durable.     *)
LEMMA DurableStep ==
    ASSUME CollectorInv, NEW r \in Requests, NEW st \in Statuses,
           req[r].pc = "events", req[r].done = Len(Events(r)),
           MakeDurable(r), req' = Answered(r, st)
    PROVE  CollectorInv'
<1> DEFINE q == [req[r] EXCEPT !.pc = "answered", !.owner = FALSE, !.added = {},
                               !.status = st]
<1>1. req[r] \in RequestType /\ req[r].id \in BatchIds
  BY DEF CollectorInv, CollectorTypeOK, RequestType, Progress
<1>2. /\ q \in RequestType /\ q.pc = "answered" /\ q.owner = FALSE /\ q.added = {}
      /\ q.id = req[r].id /\ q.status = st
  BY <1>1 DEF RequestType, Steps
<1>3. req' = [req EXCEPT ![r] = q]
  BY DEF Answered
<1> HIDE DEF q
<1>4. /\ req' \in [Requests -> RequestType] /\ req'[r] = q
      /\ \A s \in Requests \ {r} : req'[s] = req[s]
  BY <1>2, <1>3, OneRequest
<1>5. /\ batches' = batches \cup {req[r].id}
      /\ events' = events \cup req[r].added
  BY DEF MakeDurable
<1>6. Range(Body[req[r].id]) \subseteq events'
  <2>1. \A i \in 1..req[r].done : Body[req[r].id][i] \in events \cup req[r].added
    BY DEF CollectorInv, Progress, Events
  <2>2. DOMAIN Body[req[r].id] = 1..req[r].done
    BY <1>1, BodyIsSeq DEF Events
  <2> QED BY <1>5, <2>1, <2>2 DEF Range
<1>7. CollectorTypeOK'
  BY <1>1, <1>4, <1>5 DEF CollectorInv, CollectorTypeOK, RequestType
<1>8. BatchAtomic'
  BY <1>5, <1>6 DEF CollectorInv, BatchAtomic
<1>9. AckedDurable'
  BY <1>2, <1>4, <1>5, <1>6 DEF CollectorInv, AckedDurable, Events
<1>10. RowsOnce'
  <2>1. req[r].owner
    BY DEF CollectorInv, Progress
  <2> QED BY <1>2, <1>4, <1>5, <2>1 DEF CollectorInv, RowsOnce
<1>11. Progress'
  BY <1>1, <1>2, <1>4, <1>5 DEF CollectorInv, Progress, Events
<1> QED BY <1>7, <1>8, <1>9, <1>10, <1>11 DEF CollectorInv

(* Inserting the row of the batch. *)
LEMMA InsertBatchStep ==
    ASSUME CollectorInv, NEW r \in Requests, InsertBatch(r)
    PROVE  CollectorInv'
<1> DEFINE q == [req[r] EXCEPT !.owner = TRUE, !.pc = "events"]
<1>1. /\ req[r] \in RequestType /\ req[r].id \in BatchIds /\ req[r].added = {}
      /\ req[r].pc = "batch"
  BY DEF CollectorInv, CollectorTypeOK, RequestType, Progress, InsertBatch
<1>2. /\ q \in RequestType /\ q.pc = "events" /\ q.owner = TRUE /\ q.added = {}
      /\ q.id = req[r].id /\ q.done = req[r].done
  BY <1>1 DEF RequestType, Steps
<1>3. req' = [req EXCEPT ![r] = q] /\ UNCHANGED <<batches, events>>
  BY <1>1 DEF InsertBatch, CollectorInv, CollectorTypeOK
<1> HIDE DEF q
<1>4. /\ req' \in [Requests -> RequestType] /\ req'[r] = q
      /\ \A s \in Requests \ {r} : req'[s] = req[s]
  BY <1>2, <1>3, OneRequest
<1>5. CollectorTypeOK' /\ BatchAtomic' /\ AckedDurable'
  BY <1>2, <1>3, <1>4 DEF CollectorInv, CollectorTypeOK, RequestType, BatchAtomic,
                          AckedDurable, Events
<1>6. RowsOnce'
  BY <1>2, <1>3, <1>4 DEF CollectorInv, RowsOnce, InsertBatch, BatchHolders
<1>7. Progress'
  <2>1. req[r].done = 0 /\ Len(Body[req[r].id]) \in Nat
    BY <1>1, BodyIsSeq DEF CollectorInv, Progress
  <2>2. q.done <= Len(Body[q.id]) /\ \A i \in 1..q.done : FALSE
    BY <1>2, <2>1
  <2> QED BY <1>1, <1>2, <1>3, <1>4, <2>2 DEF CollectorInv, Progress, Events
<1> QED BY <1>5, <1>6, <1>7 DEF CollectorInv

(* Inserting the row of an event. *)
LEMMA InsertEventStep ==
    ASSUME CollectorInv, NEW r \in Requests, InsertEvent(r)
    PROVE  CollectorInv'
<1> DEFINE k == NextKey(r)
           new == IF k \in events THEN req[r].added ELSE req[r].added \cup {k}
           q == [req[r] EXCEPT !.done = req[r].done + 1, !.added = new]
<1>1. /\ req[r] \in RequestType /\ req[r].id \in BatchIds /\ req[r].owner
      /\ req[r].pc = "events"
  BY DEF CollectorInv, CollectorTypeOK, RequestType, Progress, InsertEvent
<1>2. req[r].done \in Nat /\ req[r].done < Len(Body[req[r].id])
  BY <1>1 DEF InsertEvent, Events, RequestType
<1>3. k \in Keys
  BY <1>1, <1>2, BodyIsSeq DEF NextKey, Events
<1>4. /\ q \in RequestType /\ q.pc = "events" /\ q.owner = TRUE /\ q.added = new
      /\ q.id = req[r].id /\ q.done = req[r].done + 1
  <2>1. new \in SUBSET Keys /\ req[r].done + 1 \in Nat
    BY <1>1, <1>2, <1>3 DEF RequestType
  <2> HIDE DEF new, k
  <2>2. req[r].owner = TRUE
    BY <1>1 DEF RequestType
  <2> QED BY <1>1, <2>1, <2>2 DEF RequestType
<1>5. req' = [req EXCEPT ![r] = q] /\ UNCHANGED <<batches, events>>
  BY <1>1 DEF InsertEvent, CollectorInv, CollectorTypeOK
<1>6. /\ k \in events \cup new
      /\ \A x \in new : x \in req[r].added \/ (x = k /\ k \notin events)
      /\ req[r].added \subseteq new
  OBVIOUS
<1>7. \A s \in Requests \ {r} : k \notin req[s].added
  BY DEF InsertEvent, KeyHolders
<1>8. k = Body[req[r].id][req[r].done + 1]
  BY DEF NextKey, Events
<1> HIDE DEF q, new, k
<1>9. /\ req' \in [Requests -> RequestType] /\ req'[r] = q
      /\ \A s \in Requests \ {r} : req'[s] = req[s]
  BY <1>4, <1>5, OneRequest
<1>10. CollectorTypeOK' /\ BatchAtomic' /\ AckedDurable'
  BY <1>4, <1>5, <1>9 DEF CollectorInv, CollectorTypeOK, RequestType, BatchAtomic,
                          AckedDurable, Events
<1>11. RowsOnce'
  <2>1. /\ \A s \in Requests : req'[s].owner = req[s].owner /\ req'[s].id = req[s].id
        /\ req'[r].added = new
    BY <1>1, <1>4, <1>9 DEF RequestType
  <2>2. \A s \in Requests : req'[s].added \cap events = {}
    BY <1>6, <1>9, <2>1 DEF CollectorInv, RowsOnce
  <2>3. \A s \in Requests : \A t \in Requests \ {s} : req'[s].added \cap req'[t].added = {}
    BY <1>6, <1>7, <1>9, <2>1 DEF CollectorInv, RowsOnce
  <2> QED BY <1>5, <2>1, <2>2, <2>3 DEF CollectorInv, RowsOnce
<1>12. Progress'
  <2>1. q.done <= Len(Body[q.id])
    BY <1>1, <1>2, <1>4, BodyIsSeq
  <2>2. \A i \in 1..q.done : Body[q.id][i] \in events \cup q.added
    <3> SUFFICES ASSUME NEW i \in 1..q.done PROVE Body[q.id][i] \in events \cup q.added
      OBVIOUS
    <3>1. i \in 1..req[r].done \/ i = req[r].done + 1
      BY <1>2, <1>4
    <3>2. CASE i \in 1..req[r].done
      BY <1>1, <1>4, <1>6, <3>2 DEF CollectorInv, Progress, Events
    <3>3. CASE i = req[r].done + 1
      BY <1>4, <1>6, <1>8, <3>3
    <3> QED BY <3>1, <3>2, <3>3
  <2>3. q.added \subseteq Range(Body[q.id])
    <3>1. req[r].added \subseteq Range(Body[req[r].id])
      BY <1>1 DEF CollectorInv, Progress, Events
    <3>2. k \in Range(Body[req[r].id])
      BY <1>1, <1>2, <1>8, BodyIsSeq DEF Range
    <3> QED BY <1>4, <1>6, <3>1, <3>2
  <2> QED BY <1>1, <1>4, <1>5, <1>9, <2>1, <2>2, <2>3 DEF CollectorInv, Progress, Events
<1> QED BY <1>10, <1>11, <1>12 DEF CollectorInv

(* Sending, beginning and forgetting a request. *)
LEMMA QuietSteps ==
    ASSUME CollectorInv, NEW r \in Requests,
           Forget(r) \/ Begin(r) \/ \E b \in BatchIds : Send(r, b)
    PROVE  CollectorInv'
<1>0. req[r] \in RequestType /\ req \in [Requests -> RequestType]
  BY DEF CollectorInv, CollectorTypeOK, RequestType
<1>1. NoRequest \in RequestType
  BY DEF NoRequest, RequestType, Steps, Statuses
<1>2. CASE Forget(r)
  <2>1. req' = [req EXCEPT ![r] = NoRequest] /\ UNCHANGED <<batches, events>>
    BY <1>2 DEF Forget
  <2>2. NoRequest.pc = "idle" /\ NoRequest.owner = FALSE /\ NoRequest.added = {}
    BY DEF NoRequest
  <2> QED BY <1>1, <2>1, <2>2, QuietStep
<1>3. CASE Begin(r)
  <2> DEFINE q == [req[r] EXCEPT !.pc = "batch"]
  <2>1. /\ req[r].pc = "sent" /\ req[r].id \in BatchIds /\ req[r].done = 0
        /\ req[r].owner = FALSE /\ req[r].added = {}
    BY <1>0, <1>3 DEF Begin, CollectorInv, Progress, RequestType
  <2>2. /\ q \in RequestType /\ q.pc = "batch" /\ q.owner = FALSE /\ q.added = {}
        /\ q.id \in BatchIds /\ q.done = 0
    BY <1>0, <2>1 DEF RequestType, Steps
  <2>3. req' = [req EXCEPT ![r] = q] /\ UNCHANGED <<batches, events>>
    BY <1>3 DEF Begin
  <2> HIDE DEF q
  <2> QED BY <2>2, <2>3, QuietStep
<1>4. ASSUME NEW b \in BatchIds, Send(r, b) PROVE CollectorInv'
  <2> DEFINE q == [NoRequest EXCEPT !.pc = "sent", !.id = b]
  <2>1. /\ q \in RequestType /\ q.pc = "sent" /\ q.owner = FALSE /\ q.added = {}
        /\ q.id \in BatchIds /\ q.done = 0
    BY DEF NoRequest, RequestType, Steps, Statuses
  <2>2. req' = [req EXCEPT ![r] = q] /\ UNCHANGED <<batches, events>>
    BY <1>4 DEF Send
  <2> HIDE DEF q
  <2> QED BY <2>1, <2>2, QuietStep
<1> QED BY <1>2, <1>3, <1>4

(* The collector stops: the open transactions leave nothing behind. *)
LEMMA CrashStep == CollectorInv /\ CollectorCrash => CollectorInv'
<1> SUFFICES ASSUME CollectorInv, CollectorCrash PROVE CollectorInv'
  OBVIOUS
<1>1. /\ req' = [r \in Requests |-> IF req[r].pc = "sent" THEN req[r] ELSE NoRequest]
      /\ UNCHANGED <<batches, events>>
  BY DEF CollectorCrash
<1>2. \A r \in Requests : (req[r].pc = "sent" /\ req'[r] = req[r]) \/ req'[r] = NoRequest
  BY <1>1
<1>3. /\ NoRequest.pc = "idle" /\ NoRequest.owner = FALSE /\ NoRequest.added = {}
      /\ NoRequest \in RequestType
  BY DEF NoRequest, RequestType, Steps, Statuses
<1>4. CollectorTypeOK'
  BY <1>1, <1>3 DEF CollectorInv, CollectorTypeOK, RequestType
<1>5. BatchAtomic' /\ AckedDurable'
  BY <1>1, <1>2, <1>3 DEF CollectorInv, BatchAtomic, AckedDurable
<1>6. \A r \in Requests : req[r].pc = "sent" => ~req[r].owner /\ req[r].added = {}
  BY DEF CollectorInv, Progress
<1>7. RowsOnce'
  BY <1>1, <1>2, <1>3, <1>6 DEF CollectorInv, RowsOnce
<1>8. Progress'
  BY <1>1, <1>2, <1>3 DEF CollectorInv, Progress
<1> QED BY <1>4, <1>5, <1>7, <1>8 DEF CollectorInv

(* CollectorInv is inductive. *)
LEMMA CollectorInvStep == CollectorInv /\ [CollectorNext]_collectorVars => CollectorInv'
<1> SUFFICES ASSUME CollectorInv, [CollectorNext]_collectorVars PROVE CollectorInv'
  OBVIOUS
<1>1. CASE UNCHANGED collectorVars
  BY <1>1 DEF collectorVars, CollectorInv, CollectorTypeOK, BatchAtomic, AckedDurable,
              RowsOnce, Progress, Events
<1>2. ASSUME NEW r \in Requests, Work(r) \/ Fail(r) PROVE CollectorInv'
  <2>0. {200, 400, 401, 413, 503} \subseteq Statuses
    BY DEF Statuses
  <2>1. CASE Refuse(r) \/ CannotStore(r) \/ Unauthorized(r) \/ BadBody(r) \/ SaveFails(r)
    BY <2>0, <2>1, AnswerStep DEF Refuse, CannotStore, Unauthorized, BadBody, SaveFails
  <2>2. CASE BreakDeadlock(r)
    <3>1. req[r].pc # "idle"
      BY <2>2 DEF BreakDeadlock, WaitCycle, WaitsFor
    <3> QED BY <2>0, <2>2, <3>1, AnswerStep DEF BreakDeadlock
  <2>3. CASE FindBatch(r)
    <3>1. Range(Events(r)) \subseteq events
      BY <2>3 DEF FindBatch, CollectorInv, BatchAtomic, Events
    <3> QED BY <2>0, <2>3, <3>1, AnswerStep DEF FindBatch
  <2>4. CASE CommitTx(r) \/ CommitUnknown(r)
    BY <2>0, <2>4, DurableStep DEF CommitTx, CommitUnknown
  <2> QED BY <1>2, <2>1, <2>2, <2>3, <2>4, InsertBatchStep, InsertEventStep, QuietSteps
          DEF Work, Fail
<1>3. ASSUME NEW r \in Requests, Forget(r) \/ \E b \in BatchIds : Send(r, b)
      PROVE  CollectorInv'
  BY <1>3, QuietSteps
<1> QED BY <1>1, <1>2, <1>3, CrashStep DEF CollectorNext

(* The invariant of the collector's transactions, for any number of        *)
(* requests at a time.                                                     *)
THEOREM CollectorInvariant == CollectorSpec => []CollectorInv
<1> QED BY CollectorInvInit, CollectorInvStep, PTL DEF CollectorSpec

(* SaveEvents is atomic: a batch whose row is there has all its events, so *)
(* acknowledging a batch_id that is found is right.                        *)
THEOREM BatchesAreAtomic == CollectorSpec => []BatchAtomic
<1>1. CollectorInv => BatchAtomic
  BY DEF CollectorInv
<1> QED BY <1>1, CollectorInvariant, PTL

(* A 200 of handleEvents means that every event of the batch is durable.   *)
THEOREM AcksAreDurable == CollectorSpec => []AckedDurable
<1>1. CollectorInv => AckedDurable
  BY DEF CollectorInv
<1> QED BY <1>1, CollectorInvariant, PTL

(* Concurrent transactions never produce two rows for a key.               *)
THEOREM RowsAreUnique == CollectorSpec => []RowsOnce
<1>1. CollectorInv => RowsOnce
  BY DEF CollectorInv
<1> QED BY <1>1, CollectorInvariant, PTL

(* The variables of the collector keep their types. *)
THEOREM CollectorTypes == CollectorSpec => []CollectorTypeOK
<1>1. CollectorInv => CollectorTypeOK
  BY DEF CollectorInv
<1> QED BY <1>1, CollectorInvariant, PTL

(* Of all steps only a COMMIT is seen in the tables, and it stores a batch *)
(* that was not there with all its events.                                 *)
LEMMA DedupStep ==
    CollectorInv /\ [CollectorNext]_collectorVars => [D!Next]_<<batches, events>>
<1> SUFFICES ASSUME CollectorInv, [CollectorNext]_collectorVars
             PROVE  [D!Next]_<<batches, events>>
  OBVIOUS
<1>1. CASE UNCHANGED collectorVars
  BY <1>1 DEF collectorVars
<1>2. ASSUME NEW r \in Requests, CommitTx(r) \/ CommitUnknown(r) PROVE D!Next
  <2>1. /\ req[r].pc = "events" /\ req[r].done = Len(Events(r))
        /\ batches' = batches \cup {req[r].id} /\ events' = events \cup req[r].added
    BY <1>2 DEF CommitTx, CommitUnknown, MakeDurable
  <2>2. /\ req[r].id \in BatchIds \ batches
        /\ req[r].added \subseteq Range(Body[req[r].id])
        /\ \A i \in 1..req[r].done : Body[req[r].id][i] \in events \cup req[r].added
    BY <2>1 DEF CollectorInv, Progress, RowsOnce, Events
  <2>3. Range(Body[req[r].id]) \subseteq events \cup req[r].added
    <3>1. DOMAIN Body[req[r].id] = 1..req[r].done
      BY <2>1, <2>2, BodyIsSeq DEF Events
    <3> QED BY <2>2, <3>1 DEF Range
  <2>4. events' = events \cup Range(Body[req[r].id])
    BY <2>1, <2>2, <2>3
  <2>5. D!Store(req[r].id)
    BY <2>1, <2>2, <2>4 DEF D!Store, D!Range, Range
  <2> QED BY <2>2, <2>5 DEF D!Next
<1>3. ASSUME NEW r \in Requests, Work(r) \/ Fail(r) PROVE [D!Next]_<<batches, events>>
  BY <1>2, <1>3 DEF Work, Fail, Refuse, Begin, InsertBatch, FindBatch, InsertEvent,
     CannotStore, BreakDeadlock, Unauthorized, BadBody, SaveFails, Answer
<1>4. ASSUME NEW r \in Requests, Forget(r) \/ \E b \in BatchIds : Send(r, b)
      PROVE  UNCHANGED <<batches, events>>
  BY <1>4 DEF Forget, Send
<1>5. CASE CollectorCrash
  BY <1>5 DEF CollectorCrash
<1> QED BY <1>1, <1>3, <1>4, <1>5 DEF CollectorNext

(* POST /events, with any number of requests that run, overtake each other *)
(* and fail, implements Dedup: batches are stored whole, and once.         *)
THEOREM CollectorImplementsDedup == CollectorSpec => DedupSpec
<1>1. CollectorInit => D!Init
  BY DEF CollectorInit, D!Init
<1> QED BY <1>1, DedupStep, CollectorInvariant, PTL DEF CollectorSpec, DedupSpec, D!Spec
=============================================================================
