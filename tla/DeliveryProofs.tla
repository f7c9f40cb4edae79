--------------------------- MODULE DeliveryProofs ---------------------------
(***************************************************************************)
(* DeliveryInv, StoredInOrder and NoWaitCycle, and that Delivery           *)
(* implements Handoff, for every sequence of events, every number of       *)
(* concurrent requests, restarts and failures.                             *)
(*                                                                         *)
(* What the collector guarantees is proved in CollectorProofs, of which an *)
(* instance is used here.  What the agent needs besides: the request that  *)
(* post waits for carries the batch in hand, the batch begins at the       *)
(* committed position, and, for the order, whatever request is still under *)
(* way, its batch begins behind settled events only.                       *)
(***************************************************************************)
EXTENDS Delivery, SequenceTheorems, WellFoundedInduction, TLAPS

CP == INSTANCE CollectorProofs WITH Keys <- Range(KeyOf)

(* deliver works on the batch at the committed position. *)
BatchInHand == apc # "read" => batch \in BatchIds /\ batch.from = committed

(* post waits for a request that carries the batch in hand, or for one     *)
(* that the end of the collector has taken away.                           *)
CallCarriesBatch ==
    apc = "wait" => call \in Requests /\ (req[call].pc # "idle" => req[call].id = batch)

(* What may be committed is settled. *)
AckedSettled == apc = "acked" => \A e \in batch.from + 1..batch.to : Settled(e)

(* A batch that is under way begins behind settled events. *)
RequestsBehind ==
    \A r \in Requests : req[r].pc # "idle" => \A e \in 1..req[r].id.from : Settled(e)

DeliveryIInv ==
    /\ TypeOK /\ C!CollectorInv
    /\ BatchInHand /\ CallCarriesBatch /\ AckedSettled /\ RequestsBehind
    /\ PassedSettled /\ StoredInOrder

-----------------------------------------------------------------------------
(***************************************************************************)
(* The spool and the batches                                               *)
(***************************************************************************)
(* The length of the spool, and the events in it. *)
LEMMA SpoolIs ==
    /\ N \in Nat /\ DOMAIN KeyOf = 1..N
    /\ \A e \in 1..N : KeyOf[e] \in Range(KeyOf)
BY DeliveryAssumption, LenProperties DEF N, Range

(* The events of a batch are those of the spool between its ends. *)
LEMMA BodyIs ==
    ASSUME NEW b \in BatchIds
    PROVE  /\ b.from \in Nat /\ b.to \in Nat /\ b.from < b.to /\ b.to <= N
           /\ Body[b] \in Seq(Range(KeyOf))
           /\ Len(Body[b]) = b.to - b.from /\ DOMAIN Body[b] = 1..(b.to - b.from)
           /\ \A i \in 1..(b.to - b.from) : Body[b][i] = KeyOf[b.from + i]
<1>1. b.from \in Nat /\ b.to \in Nat /\ b.from < b.to /\ b.to <= N
  BY SpoolIs DEF BatchIds
<1>2. Body[b] = SubSeq(KeyOf, b.from + 1, b.to)
  BY DEF Body
<1>3. KeyOf \in Seq(Range(KeyOf)) /\ N = Len(KeyOf)
  BY DeliveryAssumption DEF N
<1>4. /\ SubSeq(KeyOf, b.from + 1, b.to) \in Seq(Range(KeyOf))
      /\ Len(SubSeq(KeyOf, b.from + 1, b.to)) = b.to - b.from
      /\ \A i \in 1..(b.to - b.from) : SubSeq(KeyOf, b.from + 1, b.to)[i] = KeyOf[b.from + i]
  <2> DEFINE m == b.from + 1
             n == b.to
  <2>1. \A e \in m..n : KeyOf[e] \in Range(KeyOf)
    BY <1>1, SpoolIs
  <2>2. m \in Int /\ n \in Int /\ m <= n /\ n - m + 1 = b.to - b.from
    BY <1>1
  <2>3. \A i \in 1..(b.to - b.from) : m + i - 1 = b.from + i
    BY <1>1
  <2>4. /\ SubSeq(KeyOf, m, n) \in Seq(Range(KeyOf))
        /\ Len(SubSeq(KeyOf, m, n)) = IF m <= n THEN n - m + 1 ELSE 0
        /\ \A i \in 1..n - m + 1 : SubSeq(KeyOf, m, n)[i] = KeyOf[m + i - 1]
    <3> HIDE DEF m, n
    <3> QED BY <2>1, <2>2, SubSeqProperties
  <2> QED BY <2>2, <2>3, <2>4
<1> QED BY <1>1, <1>2, <1>4, LenProperties

(* Every event of a batch that is stored has a row. *)
LEMMA StoredBatch ==
    ASSUME NEW b \in BatchIds, NEW E, Range(Body[b]) \subseteq E
    PROVE  \A e \in b.from + 1..b.to : KeyOf[e] \in E
<1> SUFFICES ASSUME NEW e \in b.from + 1..b.to PROVE KeyOf[e] \in E
  OBVIOUS
<1>1. e - b.from \in 1..(b.to - b.from) /\ b.from + (e - b.from) = e
  BY BodyIs
<1>2. Body[b][e - b.from] = KeyOf[e] /\ e - b.from \in DOMAIN Body[b]
  BY <1>1, BodyIs
<1> QED BY <1>2 DEF Range

(* A key of a batch is that of one of its events. *)
LEMMA KeyInBatch ==
    ASSUME NEW b \in BatchIds, NEW k \in Range(Body[b])
    PROVE  \E e \in b.from + 1..b.to : KeyOf[e] = k
<1>1. PICK i \in 1..(b.to - b.from) : Body[b][i] = k
  BY BodyIs DEF Range
<1>2. b.from + i \in b.from + 1..b.to /\ KeyOf[b.from + i] = k
  BY <1>1, BodyIs
<1> QED BY <1>2

(* What CollectorProofs assumes holds of the instance. *)
LEMMA CollectorInstance == CP!CollectorAssumption
<1>1. Body \in [BatchIds -> Seq(Range(KeyOf))]
  <2>1. Body = [b \in BatchIds |-> Body[b]]
    BY DEF Body
  <2> QED BY <2>1, BodyIs
<1> QED BY <1>1, DeliveryAssumption DEF CP!CollectorAssumption, CP!AllStoreFaults, C!AllStoreFaults

(* The two instances of Collector are the same: the invariant, ... *)
LEMMA SameInv == CP!CollectorInv <=> C!CollectorInv
BY DEF CP!CollectorInv, C!CollectorInv, CP!CollectorTypeOK, C!CollectorTypeOK,
       CP!BatchAtomic, C!BatchAtomic, CP!AckedDurable, C!AckedDurable, CP!RowsOnce, C!RowsOnce,
       CP!Progress, C!Progress, CP!Events, C!Events, CP!Steps, C!Steps, CP!Statuses, C!Statuses,
       Range, CP!Range, C!Range

(* ... in the next state, too, ... *)
LEMMA SameInvNext == CP!CollectorInv' <=> C!CollectorInv'
BY DEF CP!CollectorInv, C!CollectorInv, CP!CollectorTypeOK, C!CollectorTypeOK,
       CP!BatchAtomic, C!BatchAtomic, CP!AckedDurable, C!AckedDurable, CP!RowsOnce, C!RowsOnce,
       CP!Progress, C!Progress, CP!Events, C!Events, CP!Steps, C!Steps, CP!Statuses, C!Statuses,
       Range, CP!Range, C!Range

(* ... and the steps of a request. *)
LEMMA SameStep ==
    ASSUME NEW r \in Requests
    PROVE  /\ C!Forget(r) => CP!Forget(r)
           /\ \A b : C!Send(r, b) => CP!Send(r, b)
           /\ C!Work(r) => CP!Work(r)
           /\ C!Fail(r) => CP!Fail(r)
           /\ C!CollectorCrash => CP!CollectorCrash
<1>1. C!NoRequest = CP!NoRequest /\ C!Events(r) = CP!Events(r) /\ (C!IsValid(r) <=> CP!IsValid(r))
  BY DEF C!NoRequest, CP!NoRequest, C!Events, CP!Events, C!IsValid, CP!IsValid, Range, C!Range,
         CP!Range
<1>2. C!Forget(r) => CP!Forget(r)
  BY <1>1 DEF C!Forget, CP!Forget
<1>3. \A b : C!Send(r, b) => CP!Send(r, b)
  BY <1>1 DEF C!Send, CP!Send
<1>4. C!CollectorCrash => CP!CollectorCrash
  BY <1>1 DEF C!CollectorCrash, CP!CollectorCrash
<1>5. C!Fail(r) => CP!Fail(r)
  BY <1>1 DEF C!Fail, CP!Fail, C!Unauthorized, CP!Unauthorized, C!BadBody, CP!BadBody,
         C!CommitUnknown, CP!CommitUnknown, C!SaveFails, CP!SaveFails, C!Answer, CP!Answer,
         C!Answered, CP!Answered, C!MakeDurable, CP!MakeDurable
<1>6. /\ C!BatchHolders(r) = CP!BatchHolders(r) /\ C!NextKey(r) = CP!NextKey(r)
      /\ \A k : C!KeyHolders(r, k) = CP!KeyHolders(r, k)
  BY <1>1 DEF C!BatchHolders, CP!BatchHolders, C!NextKey, CP!NextKey, C!KeyHolders, CP!KeyHolders
<1>7. C!BreakDeadlock(r) => CP!BreakDeadlock(r)
  BY DEF C!BreakDeadlock, CP!BreakDeadlock, C!WaitCycle, CP!WaitCycle, C!WaitsFor, CP!WaitsFor,
         C!Events, CP!Events, C!NextKey, CP!NextKey, C!BatchHolders, CP!BatchHolders,
         C!KeyHolders, CP!KeyHolders, C!Answer, CP!Answer, C!Answered, CP!Answered
<1>8. C!Work(r) => CP!Work(r)
  <2>1. C!Refuse(r) => CP!Refuse(r)
    BY <1>1 DEF C!Refuse, CP!Refuse, C!Answer, CP!Answer, C!Answered, CP!Answered
  <2>2. C!Begin(r) => CP!Begin(r)
    BY <1>1 DEF C!Begin, CP!Begin
  <2>3. C!InsertBatch(r) => CP!InsertBatch(r)
    BY <1>6 DEF C!InsertBatch, CP!InsertBatch
  <2>4. C!FindBatch(r) => CP!FindBatch(r)
    BY <1>6 DEF C!FindBatch, CP!FindBatch, C!Answer, CP!Answer, C!Answered, CP!Answered
  <2>5. C!InsertEvent(r) => CP!InsertEvent(r)
    BY <1>1, <1>6 DEF C!InsertEvent, CP!InsertEvent
  <2>6. C!CannotStore(r) => CP!CannotStore(r)
    BY <1>1, <1>6 DEF C!CannotStore, CP!CannotStore, C!Answer, CP!Answer, C!Answered, CP!Answered
  <2>7. C!CommitTx(r) => CP!CommitTx(r)
    BY <1>1 DEF C!CommitTx, CP!CommitTx, C!MakeDurable, CP!MakeDurable, C!Answered, CP!Answered
  <2> QED BY <1>7, <2>1, <2>2, <2>3, <2>4, <2>5, <2>6, <2>7 DEF C!Work, CP!Work
<1> QED BY <1>2, <1>3, <1>4, <1>5, <1>8

-----------------------------------------------------------------------------
(***************************************************************************)
(* What a step does to the collector                                       *)
(***************************************************************************)
(* The steps of the agent that do not reach the collector. *)
Silent == Read \/ GiveUp \/ Disconnected \/ Commit \/ Restart \/ Done \/ UNCHANGED vars

(* Those that read an answer. *)
ReadAnswer == OnStored \/ OnRejected \/ DeadLetterFails \/ OnUnavailable

(* A step is one of these, a request, or one of the collector and the      *)
(* network.                                                                *)
LEMMA NextSplit ==
    ASSUME [Next]_vars
    PROVE  \/ Silent \/ Post \/ ReadAnswer \/ CollectorFails
           \/ \E r \in Requests : Lose(r) \/ Discard(r) \/ Work(r)
BY DEF Next, Agent, Silent, ReadAnswer

(* The agent alone changes nothing in the collector. *)
LEMMA SilentKeeps == Silent => UNCHANGED <<batches, events, req>>
BY DEF Silent, Read, GiveUp, Disconnected, Commit, Restart, Done, vars

(* Reading an answer forgets the request. *)
LEMMA ReadAnswerForgets == ReadAnswer => apc = "wait" /\ C!Forget(call)
BY DEF ReadAnswer, OnStored, OnRejected, DeadLetterFails, OnUnavailable

(* The invariant of the collector is kept by whatever the agent and the    *)
(* network do.                                                             *)
LEMMA CollectorStep ==
    ASSUME DeliveryIInv, [Next]_vars
    PROVE  C!CollectorInv'
<1>0. CP!CollectorInv /\ CP!CollectorAssumption
  BY SameInv, CollectorInstance DEF DeliveryIInv
<1>1. ASSUME CP!CollectorNext \/ UNCHANGED <<batches, events, req>> PROVE C!CollectorInv'
  <2>1. [CP!CollectorNext]_CP!collectorVars
    BY <1>1 DEF CP!collectorVars
  <2> QED BY <1>0, <2>1, CP!CollectorInvStep, SameInvNext
<1>2. CASE Silent
  BY <1>1, <1>2, SilentKeeps
<1>3. CASE Post
  <2>1. batch \in BatchIds
    BY <1>3 DEF DeliveryIInv, BatchInHand, Post
  <2>2. PICK r \in Requests : C!Send(r, batch)
    BY <1>3 DEF Post
  <2>3. CP!CollectorNext
    BY <2>1, <2>2, SameStep DEF CP!CollectorNext
  <2> QED BY <1>1, <2>3
<1>4. CASE ReadAnswer
  <2>1. call \in Requests
    BY <1>4, ReadAnswerForgets DEF DeliveryIInv, CallCarriesBatch
  <2>2. CP!CollectorNext
    BY <1>4, <2>1, ReadAnswerForgets, SameStep DEF CP!CollectorNext
  <2> QED BY <1>1, <2>2
<1>5. CASE CollectorFails
  <2>1. CASE C!CollectorCrash
    <3>1. CASE Requests = {}
      BY <2>1, <3>1 DEF C!CollectorCrash
    <3>2. CASE Requests # {}
      BY <1>1, <2>1, <3>2, SameStep DEF CP!CollectorNext
    <3> QED BY <3>1, <3>2
  <2>2. ASSUME NEW r \in Requests, C!Fail(r) PROVE C!CollectorInv'
    BY <1>1, <2>2, SameStep DEF CP!CollectorNext
  <2> QED BY <1>5, <2>1, <2>2 DEF CollectorFails
<1>6. ASSUME NEW r \in Requests, Discard(r) \/ Work(r) PROVE C!CollectorInv'
  BY <1>1, <1>6, SameStep DEF Discard, Work, CP!CollectorNext
<1>7. ASSUME NEW r \in Requests, Lose(r) PROVE C!CollectorInv'
  <2> DEFINE q == C!NoRequest
  <2>1. /\ q \in CP!RequestType /\ q.pc = "idle" /\ q.owner = FALSE /\ q.added = {}
    BY DEF C!NoRequest, CP!RequestType, CP!Steps, CP!Statuses
  <2>2. req' = [req EXCEPT ![r] = q] /\ UNCHANGED <<batches, events>>
    BY <1>7 DEF Lose
  <2> HIDE DEF q
  <2>3. CP!CollectorInv'
    BY <1>0, <2>1, <2>2, CP!QuietStep
  <2> QED BY <2>3, SameInvNext
<1> QED BY NextSplit, <1>2, <1>3, <1>4, <1>5, <1>6, <1>7

(* A step of a handler belongs to a request, which keeps its batch; it     *)
(* adds no rows to the table of events, or all of its batch.               *)
LEMMA HandlerStep ==
    ASSUME C!CollectorInv, NEW r \in Requests, C!Work(r) \/ C!Fail(r)
    PROVE  /\ req[r].pc # "idle" /\ req'[r].id = req[r].id
           /\ \A s \in Requests \ {r} : req'[s] = req[s]
           /\ \/ events' = events
              \/ /\ req[r].pc = "events" /\ req[r].done = Len(Body[req[r].id])
                 /\ events' = events \cup req[r].added
<1>0. req \in [Requests -> CP!RequestType]
  BY DEF C!CollectorInv, C!CollectorTypeOK, CP!RequestType, C!Steps, CP!Steps, C!Statuses,
         CP!Statuses
<1>1. ASSUME NEW st, req' = C!Answered(r, st)
      PROVE  req'[r].id = req[r].id /\ \A s \in Requests \ {r} : req'[s] = req[s]
  BY <1>0, <1>1 DEF C!Answered, CP!RequestType
<1>2. CASE C!Refuse(r) \/ C!FindBatch(r) \/ C!CannotStore(r)
  BY <1>1, <1>2 DEF C!Refuse, C!FindBatch, C!CannotStore, C!Answer
<1>3. CASE C!Unauthorized(r) \/ C!BadBody(r) \/ C!SaveFails(r)
  BY <1>1, <1>3 DEF C!Unauthorized, C!BadBody, C!SaveFails, C!Answer
<1>4. CASE C!BreakDeadlock(r)
  BY <1>1, <1>4 DEF C!BreakDeadlock, C!WaitCycle, C!WaitsFor, C!Answer
<1>5. CASE C!CommitTx(r) \/ C!CommitUnknown(r)
  BY <1>1, <1>5 DEF C!CommitTx, C!CommitUnknown, C!MakeDurable, C!Events
<1>6. CASE C!Begin(r)
  BY <1>0, <1>6 DEF C!Begin, CP!RequestType
<1>7. CASE C!InsertBatch(r)
  BY <1>0, <1>7 DEF C!InsertBatch, CP!RequestType
<1>8. CASE C!InsertEvent(r)
  BY <1>0, <1>8 DEF C!InsertEvent, CP!RequestType
<1> QED BY <1>2, <1>3, <1>4, <1>5, <1>6, <1>7, <1>8 DEF C!Work, C!Fail

(* What the network or the end of the collector takes away is idle. *)
LEMMA ForgetStep ==
    ASSUME C!CollectorInv, NEW r \in Requests, C!Forget(r) \/ Lose(r)
    PROVE  /\ req'[r].pc = "idle" /\ \A s \in Requests \ {r} : req'[s] = req[s]
           /\ events' = events
<1>0. DOMAIN req = Requests
  BY DEF C!CollectorInv, C!CollectorTypeOK
<1> QED BY <1>0 DEF C!Forget, Lose, C!NoRequest

(* Requests other than a new one were there before, with the same batch.   *)
KeepsBatches ==
    \A s \in Requests : req'[s].pc # "idle" => req[s].pc # "idle" /\ req'[s].id = req[s].id

(* Nothing but Post starts a request. *)
LEMMA RequestsKept ==
    ASSUME DeliveryIInv, [Next]_vars, ~Post
    PROVE  KeepsBatches
<1>0. C!CollectorInv
  BY DEF DeliveryIInv
<1>1. CASE Silent
  BY <1>1, SilentKeeps DEF KeepsBatches
<1>2. CASE ReadAnswer
  <2>1. call \in Requests /\ C!Forget(call)
    BY <1>2, ReadAnswerForgets DEF DeliveryIInv, CallCarriesBatch
  <2> QED BY <1>0, <2>1, ForgetStep DEF KeepsBatches
<1>3. ASSUME NEW r \in Requests, Lose(r) \/ Discard(r) PROVE KeepsBatches
  BY <1>0, <1>3, ForgetStep DEF KeepsBatches, Discard
<1>4. ASSUME NEW r \in Requests, C!Work(r) \/ C!Fail(r) PROVE KeepsBatches
  BY <1>0, <1>4, HandlerStep DEF KeepsBatches
<1>5. CASE C!CollectorCrash
  BY <1>5 DEF C!CollectorCrash, C!NoRequest, KeepsBatches
<1> QED BY NextSplit, <1>1, <1>2, <1>3, <1>4, <1>5 DEF CollectorFails, Work

(* Nothing is unsettled: no row and no dead letter is taken back. *)
LEMMA SettledKept ==
    ASSUME DeliveryIInv, [Next]_vars
    PROVE  /\ events \subseteq events' /\ dead \subseteq dead'
           /\ \A e \in 1..N : Settled(e) => Settled(e)'
<1>0. C!CollectorInv
  BY DEF DeliveryIInv
<1>1. dead \subseteq dead'
  BY DEF Next, Agent, Read, Post, OnStored, OnRejected, DeadLetterFails, OnUnavailable, GiveUp,
         Disconnected, Commit, Restart, CollectorFails, Done, Lose, Discard, Work, vars, agentVars
<1>2. events \subseteq events'
  <2>1. CASE Silent
    BY <2>1, SilentKeeps
  <2>2. CASE Post \/ ReadAnswer
    BY <2>2, ReadAnswerForgets DEF Post, C!Send, C!Forget
  <2>3. CASE CollectorFails
    BY <1>0, <2>3, HandlerStep DEF CollectorFails, C!CollectorCrash
  <2>4. ASSUME NEW r \in Requests, Lose(r) \/ Discard(r) \/ Work(r) PROVE events \subseteq events'
    BY <1>0, <2>4, HandlerStep DEF Lose, Discard, C!Forget, Work
  <2> QED BY NextSplit, <2>1, <2>2, <2>3, <2>4
<1> QED BY <1>1, <1>2 DEF Settled, Stored

-----------------------------------------------------------------------------
(***************************************************************************)
(* The agent                                                               *)
(***************************************************************************)
(* The invariant holds at the start. *)
LEMMA InitInv == Init => DeliveryIInv
<1> SUFFICES ASSUME Init PROVE DeliveryIInv
  OBVIOUS
<1>1. C!CollectorInv
  <2>1. CP!CollectorInit
    BY DEF Init, C!CollectorInit, CP!CollectorInit, C!NoRequest, CP!NoRequest
  <2> QED BY <2>1, CollectorInstance, CP!CollectorInvInit, SameInv
<1>2. TypeOK
  <2>1. N \in Nat /\ MaxRestarts \in Nat /\ MaxFailures \in Nat /\ N * (1 + MaxRestarts) \in Nat
    BY SpoolIs, DeliveryAssumption
  <2> QED BY <1>1, <2>1 DEF Init, TypeOK, C!CollectorInv
<1>3. BatchInHand /\ CallCarriesBatch /\ AckedSettled
  BY DEF Init, BatchInHand, CallCarriesBatch, AckedSettled
<1>4. RequestsBehind
  BY DEF Init, C!CollectorInit, C!NoRequest, RequestsBehind
<1>5. PassedSettled /\ StoredInOrder
  BY SpoolIs DEF Init, C!CollectorInit, PassedSettled, StoredInOrder, Stored
<1> QED BY <1>1, <1>2, <1>3, <1>4, <1>5 DEF DeliveryIInv

(* Every step keeps the types. *)
LEMMA TypeStep ==
    ASSUME DeliveryIInv, [Next]_vars
    PROVE  TypeOK'
<1>0. /\ TypeOK /\ N \in Nat /\ MaxRestarts \in Nat /\ MaxFailures \in Nat
      /\ N * (1 + MaxRestarts) \in Nat
  BY SpoolIs, DeliveryAssumption DEF DeliveryIInv
<1>1. C!CollectorTypeOK'
  BY CollectorStep DEF C!CollectorInv
<1>2. apc # "read" => batch \in BatchIds
  BY DEF DeliveryIInv, BatchInHand
<1> USE <1>0, <1>1 DEF TypeOK
<1>3. CASE Read
  <2>1. PICK b \in BatchIds : b.serial = serial + 1 /\ batch' = b
    BY <1>3 DEF Read
  <2>2. b.serial \in 1..N * (1 + MaxRestarts)
    BY DEF BatchIds, Serials
  <2> QED BY <1>3, <2>1, <2>2 DEF Read
<1>4. CASE Post
  BY <1>4 DEF Post
<1>5. CASE OnStored \/ OnUnavailable
  <2>1. CASE OnStored
    BY <2>1 DEF OnStored
  <2>2. CASE OnUnavailable
    BY <2>2 DEF OnUnavailable
  <2> QED BY <1>5, <2>1, <2>2
<1>6. CASE OnRejected
  <2>1. batch.from + 1..batch.to \subseteq 1..N
    BY <1>2, <1>6, BodyIs DEF OnRejected
  <2> QED BY <1>6, <2>1 DEF OnRejected
<1>7. CASE DeadLetterFails \/ GiveUp
  <2>1. CASE DeadLetterFails
    BY <2>1 DEF DeadLetterFails, Failure
  <2>2. CASE GiveUp
    BY <2>2 DEF GiveUp, Failure
  <2> QED BY <1>7, <2>1, <2>2
<1>8. CASE Disconnected
  BY <1>8 DEF Disconnected
<1>9. CASE Commit
  <2>1. batch.to \in 0..N
    BY <1>2, <1>9, BodyIs DEF Commit
  <2> QED BY <1>9, <2>1 DEF Commit, Failure
<1>10. CASE Restart
  BY <1>10 DEF Restart
<1>11. CASE CollectorFails
  BY <1>11 DEF CollectorFails, Failure, agentVars
<1>12. ASSUME NEW r \in Requests, Lose(r) \/ Discard(r) \/ Work(r) PROVE TypeOK'
  <2>1. CASE Lose(r)
    BY <2>1 DEF Lose, Failure, agentVars
  <2>2. CASE Discard(r)
    BY <2>2 DEF Discard, agentVars
  <2>3. CASE Work(r)
    BY <2>3 DEF Work, agentVars
  <2> QED BY <1>12, <2>1, <2>2, <2>3
<1>13. CASE Done \/ UNCHANGED vars
  BY <1>13 DEF Done, vars, agentVars
<1> QED
  BY <1>3, <1>4, <1>5, <1>6, <1>7, <1>8, <1>9, <1>10, <1>11, <1>12, <1>13 DEF Next, Agent

(* The steps of the collector and of the network leave the agent alone. *)
LEMMA EnvironmentKeeps ==
    ASSUME CollectorFails \/ (\E r \in Requests : Lose(r) \/ Discard(r) \/ Work(r)) \/ Done
               \/ UNCHANGED vars
    PROVE  UNCHANGED agentVars
BY DEF CollectorFails, Lose, Discard, Work, Done, vars

(* The batch in hand and the request for it stay together. *)
LEMMA HandStep ==
    ASSUME DeliveryIInv, [Next]_vars
    PROVE  BatchInHand' /\ CallCarriesBatch'
<1>0. TypeOK /\ BatchInHand /\ CallCarriesBatch /\ NoCall \notin Requests
  BY DeliveryAssumption DEF DeliveryIInv
<1>1. CASE Post
  <2>1. BatchInHand'
    BY <1>0, <1>1 DEF Post, BatchInHand
  <2>2. PICK r \in Requests : C!Send(r, batch) /\ call' = r
    BY <1>1 DEF Post
  <2>3. req'[r].id = batch
    BY <1>0, <2>2 DEF C!Send, C!NoRequest, TypeOK, C!CollectorTypeOK
  <2>4. batch' = batch
    BY <1>1 DEF Post
  <2> QED BY <2>1, <2>2, <2>3, <2>4 DEF CallCarriesBatch
<1>2. CASE ReadAnswer \/ GiveUp \/ Disconnected
  BY <1>0, <1>2 DEF ReadAnswer, OnStored, OnRejected, DeadLetterFails, OnUnavailable, GiveUp,
         Disconnected, BatchInHand, CallCarriesBatch
<1>3. CASE Read
  BY <1>0, <1>3 DEF Read, BatchInHand, CallCarriesBatch
<1>4. CASE Commit \/ Restart
  BY <1>4 DEF Commit, Restart, BatchInHand, CallCarriesBatch
<1>5. CASE CollectorFails \/ (\E r \in Requests : Lose(r) \/ Discard(r) \/ Work(r)) \/ Done
              \/ UNCHANGED vars
  <2>1. UNCHANGED agentVars
    BY <1>5, EnvironmentKeeps
  <2>2. BatchInHand'
    BY <1>0, <2>1 DEF BatchInHand, agentVars
  <2>3. CASE apc = "wait"
    <3>1. ~Post
      BY <2>3 DEF Post
    <3>2. KeepsBatches
      BY <3>1, RequestsKept
    <3>3. /\ call \in Requests /\ (req[call].pc # "idle" => req[call].id = batch)
      BY <1>0, <2>3 DEF CallCarriesBatch
    <3>4. UNCHANGED <<call, batch>>
      BY <2>1 DEF agentVars
    <3> QED BY <2>2, <3>2, <3>3, <3>4 DEF CallCarriesBatch, KeepsBatches
  <2>4. CASE apc # "wait"
    BY <2>1, <2>2, <2>4 DEF CallCarriesBatch, agentVars
  <2> QED BY <2>3, <2>4
<1> QED BY <1>1, <1>2, <1>3, <1>4, <1>5 DEF Next, Agent, ReadAnswer

(* deliver returns only when the batch is settled. *)
LEMMA AckedStep ==
    ASSUME DeliveryIInv, [Next]_vars
    PROVE  AckedSettled'
<1>0. /\ TypeOK /\ BatchInHand /\ CallCarriesBatch /\ AckedSettled /\ C!AckedDurable
      /\ N \in Nat
  BY SpoolIs DEF DeliveryIInv, C!CollectorInv
<1>1. CASE OnStored
  <2>1. /\ call \in Requests /\ req[call].id = batch /\ batch \in BatchIds
    BY <1>0, <1>1 DEF OnStored, CallCarriesBatch, BatchInHand
  <2>2. Range(Body[batch]) \subseteq events
    BY <1>0, <1>1, <2>1 DEF OnStored, Status, C!AckedDurable, C!Events, C!Range, Range
  <2>3. \A e \in batch.from + 1..batch.to : KeyOf[e] \in events
    BY <2>1, <2>2, StoredBatch
  <2>4. events' = events /\ batch' = batch
    BY <1>1 DEF OnStored, C!Forget
  <2> QED BY <2>3, <2>4 DEF AckedSettled, Settled, Stored
<1>2. CASE OnRejected
  BY <1>2 DEF OnRejected, AckedSettled, Settled
<1>3. CASE Read \/ Post \/ DeadLetterFails \/ OnUnavailable \/ GiveUp \/ Disconnected \/ Commit
           \/ Restart
  BY <1>3 DEF Read, Post, DeadLetterFails, OnUnavailable, GiveUp, Disconnected, Commit, Restart,
              AckedSettled
<1>4. CASE CollectorFails \/ (\E r \in Requests : Lose(r) \/ Discard(r) \/ Work(r)) \/ Done
              \/ UNCHANGED vars
  <2>1. UNCHANGED <<apc, batch>>
    BY <1>4, EnvironmentKeeps DEF agentVars
  <2>2. apc = "acked" => batch.from + 1..batch.to \subseteq 1..N
    BY <1>0, BodyIs DEF BatchInHand
  <2> QED BY <1>0, <2>1, <2>2, SettledKept DEF AckedSettled
<1> QED BY <1>1, <1>2, <1>3, <1>4 DEF Next, Agent

(* What is passed is settled, and so is what a request leaves behind.      *)
LEMMA PassedStep ==
    ASSUME DeliveryIInv, [Next]_vars
    PROVE  PassedSettled' /\ RequestsBehind'
<1>0. /\ TypeOK /\ BatchInHand /\ AckedSettled /\ PassedSettled /\ RequestsBehind
      /\ C!CollectorInv /\ N \in Nat /\ NoBatch \notin BatchIds
  BY SpoolIs, DeliveryAssumption DEF DeliveryIInv
<1>a. \A e \in 1..N : Settled(e) => Settled(e)'
  BY SettledKept
<1>1. ASSUME UNCHANGED <<committed, offset>> PROVE PassedSettled'
  BY <1>0, <1>1, <1>a DEF PassedSettled
<1>2. ASSUME KeepsBatches PROVE RequestsBehind'
  <2> SUFFICES ASSUME NEW r \in Requests, req'[r].pc # "idle", NEW e \in 1..req'[r].id.from
               PROVE  Settled(e)'
    BY DEF RequestsBehind
  <2>1. req[r].pc # "idle" /\ req'[r].id = req[r].id
    BY <1>2 DEF KeepsBatches
  <2>2. req[r].id \in BatchIds
    BY <1>0, <2>1 DEF C!CollectorInv, C!Progress
  <2>3. e \in 1..N
    BY <2>1, <2>2, BodyIs, SpoolIs
  <2> QED BY <1>0, <1>a, <2>1, <2>3 DEF RequestsBehind
<1>3. CASE Post
  <2>1. PassedSettled'
    BY <1>1, <1>3 DEF Post
  <2>2. PICK r \in Requests : C!Send(r, batch)
    BY <1>3 DEF Post
  <2>3. /\ req'[r].id = batch /\ \A s \in Requests \ {r} : req'[s] = req[s]
    BY <1>0, <2>2 DEF C!Send, C!NoRequest, TypeOK, C!CollectorTypeOK
  <2>4. batch \in BatchIds /\ batch.from = committed
    BY <1>0, <1>3 DEF BatchInHand, Post
  <2>5. \A e \in 1..batch.from : e \in 1..N /\ Settled(e)'
    BY <1>0, <1>a, <2>4, BodyIs DEF PassedSettled
  <2>6. ASSUME NEW s \in Requests, req'[s].pc # "idle" PROVE \A e \in 1..req'[s].id.from : Settled(e)'
    <3>1. CASE s = r
      BY <2>3, <2>5, <3>1
    <3>2. CASE s # r
      <4>1. req'[s] = req[s] /\ req[s].id \in BatchIds
        BY <1>0, <2>3, <2>6, <3>2 DEF C!CollectorInv, C!Progress
      <4>2. \A e \in 1..req[s].id.from : e \in 1..N
        BY <4>1, BodyIs, SpoolIs
      <4> QED BY <1>0, <1>a, <2>6, <4>1, <4>2 DEF RequestsBehind
    <3> QED BY <3>1, <3>2
  <2>7. RequestsBehind'
    BY <2>6 DEF RequestsBehind
  <2> QED BY <2>1, <2>7
<1>4. CASE Commit
  <2>1. batch \in BatchIds /\ batch.from = committed
    BY <1>0, <1>4 DEF BatchInHand, Commit
  <2>2. \A e \in 1..N : e <= batch.to => Settled(e)
    <3> SUFFICES ASSUME NEW e \in 1..N, e <= batch.to PROVE Settled(e)
      OBVIOUS
    <3>1. CASE e <= committed
      BY <1>0, <3>1 DEF PassedSettled
    <3>2. CASE e > committed
      BY <1>0, <1>4, <2>1, <3>2, BodyIs DEF AckedSettled, Commit
    <3> QED BY <1>0, <3>1, <3>2 DEF TypeOK
  <2>3. committed' = batch.to /\ (offset' = batch.to \/ offset' = offset)
    BY <1>4 DEF Commit
  <2>4. PassedSettled'
    BY <1>0, <1>a, <2>2, <2>3 DEF PassedSettled
  <2>5. ~Post
    BY <1>4 DEF Post, Commit
  <2> QED BY <1>2, <2>4, <2>5, RequestsKept
<1>5. CASE Restart
  <2>1. PassedSettled'
    BY <1>0, <1>5, <1>a DEF PassedSettled, Restart
  <2>2. ~Post
    BY <1>5 DEF Post, Restart
  <2> QED BY <1>2, <2>1, <2>2, RequestsKept
<1>6. CASE ~Post /\ ~Commit /\ ~Restart
  <2>1. UNCHANGED <<committed, offset>>
    BY <1>6 DEF Next, Agent, Read, OnStored, OnRejected, DeadLetterFails, OnUnavailable, GiveUp,
                Disconnected, CollectorFails, Lose, Discard, Work, Done, vars, agentVars
  <2> QED BY <1>1, <1>2, <1>6, <2>1, RequestsKept
<1> QED BY <1>3, <1>4, <1>5, <1>6

(* Rows appear a whole batch at a time, behind settled events. *)
LEMMA OrderStep ==
    ASSUME DeliveryIInv, [Next]_vars
    PROVE  StoredInOrder'
<1>0. /\ StoredInOrder /\ RequestsBehind /\ C!CollectorInv /\ N \in Nat
  BY SpoolIs DEF DeliveryIInv
<1>a. \A e \in 1..N : Settled(e) => Settled(e)'
  BY SettledKept
<1>1. ASSUME events' = events PROVE StoredInOrder'
  BY <1>0, <1>1, <1>a DEF StoredInOrder, Stored
<1>2. ASSUME NEW r \in Requests, req[r].pc = "events", req[r].done = Len(Body[req[r].id]),
             events' = events \cup req[r].added
      PROVE  StoredInOrder'
  <2> DEFINE b == req[r].id
  <2>1. b \in BatchIds
    BY <1>0, <1>2 DEF C!CollectorInv, C!Progress
  <2>2. /\ req[r].added \subseteq Range(Body[b])
        /\ \A i \in 1..Len(Body[b]) : Body[b][i] \in events'
    BY <1>0, <1>2 DEF C!CollectorInv, C!Progress, C!Events, C!Range, Range
  <2>3. \A e \in b.from + 1..b.to : KeyOf[e] \in events'
    <3>1. Range(Body[b]) \subseteq events'
      BY <2>1, <2>2, BodyIs DEF Range
    <3> QED BY <2>1, <3>1, StoredBatch
  <2>4. \A e \in 1..b.from : Settled(e)
    BY <1>0, <1>2 DEF RequestsBehind
  <2> HIDE DEF b
  <2> SUFFICES ASSUME NEW e \in 1..N, KeyOf[e] \in events',
                      \A f \in 1..(e - 1) : KeyOf[f] # KeyOf[e],
                      NEW g \in 1..(e - 1)
               PROVE  Settled(g)'
    BY DEF StoredInOrder, Stored
  <2>5. CASE KeyOf[e] \in events
    <3>1. Settled(g) /\ g \in 1..N
      BY <1>0, <2>5 DEF StoredInOrder, Stored
    <3> QED BY <1>a, <3>1
  <2>6. CASE KeyOf[e] \notin events
    <3>1. KeyOf[e] \in Range(Body[b])
      BY <1>2, <2>2, <2>6
    <3>2. PICK f \in b.from + 1..b.to : KeyOf[f] = KeyOf[e]
      BY <2>1, <3>1, KeyInBatch
    <3>3. e <= b.to /\ g \in 1..N
      BY <1>0, <2>1, <3>2, BodyIs
    <3>4. CASE g <= b.from
      BY <1>a, <2>1, <2>4, <3>3, <3>4, BodyIs
    <3>5. CASE g > b.from
      <4>1. g \in b.from + 1..b.to
        BY <2>1, <3>3, <3>5, BodyIs
      <4> QED BY <2>3, <4>1 DEF Settled, Stored
    <3> QED BY <2>1, <3>3, <3>4, <3>5, BodyIs
  <2> QED BY <2>5, <2>6
<1>3. CASE Silent
  BY <1>1, <1>3, SilentKeeps
<1>4. CASE Post \/ ReadAnswer
  BY <1>1, <1>4, ReadAnswerForgets DEF Post, C!Send, C!Forget
<1>5. CASE C!CollectorCrash
  BY <1>1, <1>5 DEF C!CollectorCrash
<1>6. ASSUME NEW r \in Requests, Lose(r) \/ Discard(r) PROVE StoredInOrder'
  BY <1>1, <1>6 DEF Lose, Discard, C!Forget
<1>7. ASSUME NEW r \in Requests, C!Work(r) \/ C!Fail(r) PROVE StoredInOrder'
  BY <1>0, <1>1, <1>2, <1>7, HandlerStep
<1> QED BY NextSplit, <1>3, <1>4, <1>5, <1>6, <1>7 DEF CollectorFails, Work

(* The invariant is inductive. *)
LEMMA DeliveryInductive == Spec => []DeliveryIInv
<1>1. DeliveryIInv /\ [Next]_vars => DeliveryIInv'
  BY CollectorStep, TypeStep, HandStep, AckedStep, PassedStep, OrderStep DEF DeliveryIInv
<1> QED BY <1>1, InitInv, PTL DEF Spec

-----------------------------------------------------------------------------
(* Whatever the network, the collector and restarts do, nothing is passed  *)
(* over, in memory or in the offset file, that is neither durable in the   *)
(* collector nor in a dead letter.                                         *)
THEOREM NothingPassedUnsettled == Spec => []DeliveryInv
<1>1. DeliveryIInv => DeliveryInv
  BY DEF DeliveryIInv, DeliveryInv
<1> QED BY <1>1, DeliveryInductive, PTL

(* Events are stored in the order of the spool. *)
THEOREM OrderOfSpool == Spec => []StoredInOrder
<1>1. DeliveryIInv => StoredInOrder
  BY DEF DeliveryIInv
<1> QED BY <1>1, DeliveryInductive, PTL

-----------------------------------------------------------------------------
(***************************************************************************)
(* No circle of waiting transactions                                       *)
(***************************************************************************)
(* The rows that a transaction has added are those of events it has come   *)
(* past.                                                                   *)
AddedPassed ==
    \A r \in Requests : \A k \in req[r].added :
        \E i \in 1..req[r].done : Body[req[r].id][i] = k

(* A handler adds the row of the event it has just come to. *)
LEMMA HandlerAdds ==
    ASSUME C!CollectorInv, AddedPassed, NEW r \in Requests, C!Work(r) \/ C!Fail(r)
    PROVE  AddedPassed'
<1>0. /\ req \in [Requests -> CP!RequestType] /\ req[r] \in CP!RequestType
      /\ req[r].done \in Nat /\ \A s \in Requests : req[s].done \in Nat
  BY DEF C!CollectorInv, C!CollectorTypeOK, CP!RequestType, C!Steps, CP!Steps, C!Statuses,
         CP!Statuses
<1>1. /\ req'[r].id = req[r].id /\ \A s \in Requests \ {r} : req'[s] = req[s]
  BY HandlerStep
<1>2. ASSUME \A k \in req'[r].added : \E i \in 1..req'[r].done : Body[req[r].id][i] = k
      PROVE  AddedPassed'
  <2> SUFFICES ASSUME NEW s \in Requests, NEW k \in req'[s].added
               PROVE  \E i \in 1..req'[s].done : Body[req'[s].id][i] = k
    BY DEF AddedPassed
  <2>1. CASE s = r
    BY <1>1, <1>2, <2>1
  <2>2. CASE s # r
    BY <1>1, <2>2 DEF AddedPassed
  <2> QED BY <2>1, <2>2
<1>3. ASSUME NEW st, req' = C!Answered(r, st) PROVE AddedPassed'
  <2>1. req'[r].added = {}
    BY <1>0, <1>3 DEF C!Answered, CP!RequestType
  <2> QED BY <1>2, <2>1
<1>4. CASE C!Refuse(r) \/ C!FindBatch(r) \/ C!CannotStore(r) \/ C!BreakDeadlock(r)
  BY <1>3, <1>4 DEF C!Refuse, C!FindBatch, C!CannotStore, C!BreakDeadlock, C!Answer
<1>5. CASE C!Unauthorized(r) \/ C!BadBody(r) \/ C!SaveFails(r)
  BY <1>3, <1>5 DEF C!Unauthorized, C!BadBody, C!SaveFails, C!Answer
<1>6. CASE C!CommitTx(r) \/ C!CommitUnknown(r)
  BY <1>3, <1>6 DEF C!CommitTx, C!CommitUnknown
<1>7. CASE C!Begin(r) \/ C!InsertBatch(r)
  <2>1. req'[r].added = req[r].added /\ req'[r].done = req[r].done
    BY <1>0, <1>7 DEF C!Begin, C!InsertBatch, CP!RequestType
  <2> QED BY <1>2, <2>1 DEF AddedPassed
<1>8. CASE C!InsertEvent(r)
  <2>1. /\ req'[r].added \subseteq req[r].added \cup {C!NextKey(r)}
        /\ req'[r].done = req[r].done + 1
    <3> DEFINE q == [req[r] EXCEPT !.done = @ + 1]
               a == IF C!NextKey(r) \in events THEN req[r].added
                                             ELSE req[r].added \cup {C!NextKey(r)}
    <3>1. q \in CP!RequestType /\ q.done = req[r].done + 1 /\ q.added = req[r].added
      BY <1>0 DEF CP!RequestType
    <3>2. req'[r] = [q EXCEPT !.added = a]
      BY <1>0, <1>8 DEF C!InsertEvent, CP!RequestType
    <3>3. a \subseteq req[r].added \cup {C!NextKey(r)}
      OBVIOUS
    <3> HIDE DEF q, a
    <3> QED BY <3>1, <3>2, <3>3 DEF CP!RequestType
  <2>2. C!NextKey(r) = Body[req[r].id][req[r].done + 1]
    BY DEF C!NextKey, C!Events
  <2> HIDE <1>8
  <2> QED BY <1>0, <1>2, <2>1, <2>2 DEF AddedPassed
<1> QED BY <1>4, <1>5, <1>6, <1>7, <1>8 DEF C!Work, C!Fail

(* The same for every step. *)
LEMMA AddedStep ==
    ASSUME DeliveryIInv, AddedPassed, [Next]_vars
    PROVE  AddedPassed'
<1>0. C!CollectorInv /\ DOMAIN req = Requests
  BY DEF DeliveryIInv, C!CollectorInv, C!CollectorTypeOK
<1>1. CASE Silent
  BY <1>1, SilentKeeps DEF AddedPassed
<1>2. CASE Post
  <2>1. PICK r \in Requests : C!Send(r, batch)
    BY <1>2 DEF Post
  <2>2. req'[r].added = {} /\ \A s \in Requests \ {r} : req'[s] = req[s]
    BY <1>0, <2>1 DEF C!Send, C!NoRequest
  <2> QED BY <2>2 DEF AddedPassed
<1>3. ASSUME NEW r \in Requests, C!Forget(r) \/ Lose(r) PROVE AddedPassed'
  <2>1. req'[r].added = {} /\ \A s \in Requests \ {r} : req'[s] = req[s]
    BY <1>0, <1>3 DEF C!Forget, Lose, C!NoRequest
  <2> QED BY <2>1 DEF AddedPassed
<1>4. CASE ReadAnswer
  BY <1>3, <1>4, ReadAnswerForgets DEF DeliveryIInv, CallCarriesBatch
<1>5. CASE C!CollectorCrash
  <2>1. \A s \in Requests : req'[s] = req[s] \/ req'[s].added = {}
    BY <1>5 DEF C!CollectorCrash, C!NoRequest
  <2> QED BY <2>1 DEF AddedPassed
<1> QED BY NextSplit, <1>0, <1>1, <1>2, <1>3, <1>4, <1>5, HandlerAdds DEF CollectorFails, Discard, Work

(* How far a transaction has come in the spool: the events that it has     *)
(* dealt with and, at the first one, whether the row of the batch is in.   *)
At(r) == 2 * (req[r].id.from + req[r].done) + (IF req[r].pc = "events" THEN 1 ELSE 0)

(* A transaction waits for one that is further on in the spool.            *)
LEMMA WaitsForward ==
    ASSUME DeliveryIInv, AddedPassed, dead = {} \/ IsInjective(KeyOf),
           NEW r \in Requests, NEW s \in Requests, C!WaitsFor(r, s)
    PROVE  At(r) < At(s) /\ At(r) \in 0..2 * N + 1
<1>0. /\ C!CollectorTypeOK /\ C!RowsOnce /\ C!Progress /\ RequestsBehind /\ N \in Nat
  BY SpoolIs DEF DeliveryIInv, C!CollectorInv
<1>1. req[r].done \in Nat /\ req[s].done \in Nat
  BY <1>0 DEF C!CollectorTypeOK
<1>2. CASE req[r].pc = "batch" /\ s \in C!BatchHolders(r)
  <2>1. req[s].owner /\ req[s].id = req[r].id
    BY <1>2 DEF C!BatchHolders
  <2>2. req[s].pc = "events" /\ req[r].done = 0 /\ req[r].id \in BatchIds
    BY <1>0, <1>2, <2>1 DEF C!Progress
  <2>3. req[r].id.from \in Nat /\ req[r].id.from <= N
    BY <1>0, <2>2, BodyIs
  <2>4. /\ At(r) = 2 * req[r].id.from
        /\ At(s) = 2 * (req[r].id.from + req[s].done) + 1
    BY <1>1, <1>2, <2>1, <2>2, <2>3 DEF At
  <2> QED BY <1>0, <1>1, <2>3, <2>4
<1>3. CASE /\ req[r].pc = "events" /\ req[r].done < Len(C!Events(r))
           /\ s \in C!KeyHolders(r, C!NextKey(r))
  <2> DEFINE b == req[r].id
             c == req[s].id
             k == C!NextKey(r)
             p == b.from + req[r].done + 1
  <2>1. b \in BatchIds /\ req[r].done < Len(Body[b]) /\ k = Body[b][req[r].done + 1]
    BY <1>0, <1>3 DEF C!Progress, C!Events, C!NextKey
  <2>2. s # r /\ k \in req[s].added
    BY <1>3 DEF C!KeyHolders
  <2>3. req[s].pc = "events" /\ c \in BatchIds /\ req[s].done <= Len(Body[c])
    BY <1>0, <2>2 DEF C!Progress, C!Events
  <2>4. p \in 1..N /\ KeyOf[p] = k /\ p <= b.to /\ b.from \in Nat
    <3>1. req[r].done + 1 \in 1..(b.to - b.from)
      BY <1>1, <2>1, BodyIs
    <3>2. Body[b][req[r].done + 1] = KeyOf[b.from + (req[r].done + 1)]
      BY <2>1, <3>1, BodyIs
    <3>3. b.from \in Nat /\ b.to \in Nat /\ b.to <= N
      BY <2>1, BodyIs
    <3>4. p = b.from + (req[r].done + 1)
      BY <1>1, <3>3
    <3>5. KeyOf[p] = k
      BY <2>1, <3>2, <3>4
    <3>6. p \in 1..N /\ p <= b.to
      BY <1>0, <1>1, <3>1, <3>3
    <3> QED BY <3>3, <3>5, <3>6
  <2>5. PICK i \in 1..req[s].done : Body[c][i] = k
    BY <2>2 DEF AddedPassed
  <2> DEFINE q == c.from + i
  <2>6. q \in 1..N /\ KeyOf[q] = k /\ c.from \in Nat
    <3>1. i \in 1..(c.to - c.from)
      BY <1>1, <2>3, <2>5, BodyIs
    <3>2. c.from \in Nat /\ c.to \in Nat /\ c.to <= N /\ Body[c][i] = KeyOf[c.from + i]
      BY <2>3, <3>1, BodyIs
    <3>3. q \in 1..N
      BY <1>0, <3>1, <3>2
    <3> QED BY <2>5, <3>2, <3>3
  <2>7. p <= q
    <3>1. CASE IsInjective(KeyOf)
      BY <2>4, <2>6, <3>1, SpoolIs DEF IsInjective
    <3>2. CASE dead = {}
      <4> SUFFICES ASSUME q < p PROVE FALSE
        BY <2>4, <2>6
      <4>1. k \notin events
        BY <1>0, <2>2 DEF C!RowsOnce
      <4>2. CASE q <= b.from
        <5>1. Settled(q)
          BY <1>0, <1>3, <2>6, <4>2 DEF RequestsBehind
        <5> QED BY <2>6, <3>2, <4>1, <5>1 DEF Settled, Stored
      <4>3. CASE q > b.from
        <5>1. q - b.from \in 1..req[r].done /\ b.from + (q - b.from) = q
          BY <1>1, <2>4, <2>6, <4>3
        <5>2. q - b.from \in 1..(b.to - b.from)
          BY <1>1, <2>1, <5>1, BodyIs
        <5>3. Body[b][q - b.from] = k
          BY <2>1, <2>6, <5>1, <5>2, BodyIs
        <5>4. k \in events \cup req[r].added
          BY <1>0, <1>3, <5>1, <5>3 DEF C!Progress, C!Events
        <5>5. req[r].added \cap req[s].added = {}
          BY <1>0, <2>2 DEF C!RowsOnce
        <5> QED BY <2>2, <4>1, <5>4, <5>5
      <4> QED BY <2>4, <2>6, <4>2, <4>3
    <3> QED BY <3>1, <3>2
  <2>8. At(r) = 2 * (p - 1) + 1 /\ At(s) = 2 * (c.from + req[s].done) + 1
    <3>1. /\ At(r) = 2 * (b.from + req[r].done) + 1
          /\ At(s) = 2 * (c.from + req[s].done) + 1
      BY <1>3, <2>3 DEF At
    <3> QED BY <1>1, <2>4, <3>1
  <2> HIDE DEF k
  <2> QED BY <1>0, <1>1, <2>4, <2>5, <2>6, <2>7, <2>8
<1> QED BY <1>2, <1>3 DEF C!WaitsFor

(* A set of naturals has a least element. *)
LEMMA LeastOf ==
    ASSUME NEW T, T \subseteq Nat, T # {}
    PROVE  \E x \in T : \A y \in T : x <= y
<1>1. PICK x \in T : \A y \in T : ~(<<y, x>> \in OpToRel(<, Nat))
  BY NatLessThanWellFounded, WFMin, Zenon
<1> DEFINE R == OpToRel(<, Nat)
<1>2. R = {ss \in Nat \X Nat : ss[1] < ss[2]}
  BY Zenon DEF OpToRel
<1>3. \A y \in T : ~(<<y, x>> \in R)
  BY <1>1, Zenon
<1> HIDE DEF R
<1>4. \A y \in Nat : y < x => <<y, x>> \in R
  BY <1>2
<1>5. \A y \in T : ~(y < x)
  BY <1>3, <1>4, Zenon
<1> QED BY <1>5

(* So there is no circle: one of them would be furthest on. *)
LEMMA NoCircle ==
    ASSUME DeliveryIInv, AddedPassed
    PROVE  NoWaitCycle
<1> SUFFICES ASSUME dead = {} \/ IsInjective(KeyOf), NEW S \in SUBSET Requests, C!WaitCycle(S)
             PROVE  FALSE
  BY DEF NoWaitCycle
<1>1. S # {} /\ \A r \in S : \E s \in S : C!WaitsFor(r, s)
  BY DEF C!WaitCycle
<1>2. \A r \in S : At(r) \in 0..2 * N + 1 /\ \E s \in S : At(r) < At(s)
  BY <1>1, WaitsForward
<1> DEFINE T == {2 * N + 1 - At(r) : r \in S}
<1>3. N \in Nat
  BY SpoolIs
<1> HIDE DEF At
<1>4. T \subseteq Nat /\ T # {}
  BY <1>1, <1>2, <1>3
<1>5. PICK x \in T : \A y \in T : x <= y
  BY <1>4, LeastOf
<1>6. PICK r \in S : x = 2 * N + 1 - At(r)
  BY <1>5
<1>7. PICK s \in S : At(r) < At(s)
  BY <1>2, <1>6
<1>8. x <= 2 * N + 1 - At(s)
  BY <1>5, <1>7
<1> QED BY <1>2, <1>3, <1>6, <1>7, <1>8

(* The transactions of one agent never wait for each other in a circle, as *)
(* long as no batch went to a dead letter or no event_id repeats.          *)
THEOREM NoDeadlockOfTransactions == Spec => []NoWaitCycle
<1>1. Init => AddedPassed
  BY DEF Init, C!CollectorInit, C!NoRequest, AddedPassed
<1>2. DeliveryIInv /\ AddedPassed /\ [Next]_vars => AddedPassed'
  BY AddedStep
<1>3. DeliveryIInv /\ AddedPassed => NoWaitCycle
  BY NoCircle
<1> QED BY <1>1, <1>2, <1>3, DeliveryInductive, PTL DEF Spec

-----------------------------------------------------------------------------
(***************************************************************************)
(* Delivery implements Handoff                                             *)
(***************************************************************************)
AllSettled == {e \in 1..N : Settled(e)}

(* No event is settled at the start. *)
LEMMA HandoffInit == Init => H!Init
BY DEF Init, C!CollectorInit, H!Init, Settled, Stored

(* Commit settles nothing and advances over what is settled, Restart goes  *)
(* back to the offset file, and every other step settles events, if        *)
(* anything.                                                               *)
LEMMA HandoffStep ==
    ASSUME DeliveryIInv, [Next]_vars
    PROVE  [H!Next]_H!vars
<1>0. /\ TypeOK /\ BatchInHand /\ AckedSettled /\ PassedSettled /\ N \in Nat
      /\ committed \in 0..N
  BY SpoolIs DEF DeliveryIInv, TypeOK
<1>a. AllSettled' = {e \in 1..N : Settled(e)'}
  BY DEF AllSettled, Settled, Stored
<1>b. AllSettled \subseteq AllSettled' /\ AllSettled' \subseteq 1..N
  BY <1>a, SettledKept DEF AllSettled
<1>c. ASSUME UNCHANGED <<events, dead>> PROVE AllSettled' = AllSettled
  BY <1>c DEF AllSettled, Settled, Stored
<1>1. CASE Commit
  <2>1. batch \in BatchIds /\ batch.from = committed
    BY <1>0, <1>1 DEF BatchInHand, Commit
  <2>2. batch.to \in (committed + 1)..N
    BY <1>0, <2>1, BodyIs
  <2>3. 1..batch.to \subseteq AllSettled
    <3> SUFFICES ASSUME NEW e \in 1..batch.to PROVE e \in 1..N /\ Settled(e)
      BY DEF AllSettled
    <3>1. e \in 1..N
      BY <1>0, <2>2
    <3>2. CASE e <= committed
      BY <1>0, <3>1, <3>2 DEF PassedSettled
    <3>3. CASE e > committed
      BY <1>0, <1>1, <2>1, <2>2, <3>3 DEF AckedSettled, Commit
    <3> QED BY <1>0, <3>1, <3>2, <3>3
  <2>4. AllSettled' = AllSettled /\ committed' = batch.to /\ offset' \in {offset, batch.to}
    BY <1>1, <1>c DEF Commit
  <2>5. H!Advance
    BY <2>2, <2>3, <2>4 DEF H!Advance, AllSettled
  <2> QED BY <2>5 DEF H!Next
<1>2. CASE Restart
  <2>1. AllSettled' = AllSettled /\ committed' = offset /\ offset' = offset
    BY <1>2, <1>c DEF Restart
  <2>2. H!Restart
    BY <2>1 DEF H!Restart, AllSettled
  <2> QED BY <2>2 DEF H!Next
<1>3. CASE ~Commit /\ ~Restart
  <2>1. UNCHANGED <<committed, offset>>
    BY <1>3 DEF Next, Agent, Read, Post, OnStored, OnRejected, DeadLetterFails, OnUnavailable,
                GiveUp, Disconnected, CollectorFails, Lose, Discard, Work, Done, vars, agentVars
  <2>2. AllSettled' = AllSettled \cup AllSettled' /\ AllSettled' \in SUBSET (1..N)
    BY <1>b
  <2>3. H!Settle
    BY <2>1, <2>2 DEF H!Settle, AllSettled
  <2> QED BY <2>3 DEF H!Next
<1> QED BY <1>1, <1>2, <1>3

(* deliver, Commit and the collector together do what Handoff promises,    *)
(* whatever the network does and however often either side restarts.       *)
THEOREM DeliveryImplementsHandoff == Spec => HandoffSpec
<1>1. DeliveryIInv /\ [Next]_vars => [H!Next]_H!vars
  BY HandoffStep
<1> QED BY <1>1, HandoffInit, DeliveryInductive, PTL DEF Spec, HandoffSpec, H!Spec
=============================================================================
