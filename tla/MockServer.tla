----------------------------- MODULE MockServer -----------------------------
(***************************************************************************)
(* The mock server of the integration tests (internal/mockserver): faults  *)
(* that a test injects, statistics that it reads, and the deduplication    *)
(* that stands for the collector's.  Every request has a goroutine of its  *)
(* own; they meet in Server.mu, and a test calls SetFault, ClearFault and  *)
(* Reset while requests are in progress.                                   *)
(*                                                                         *)
(* Two batches of records of EventKey are posted, and posted again, in any *)
(* order.  rows is what SaveEvents of the collector makes of the same      *)
(* requests.                                                               *)
(***************************************************************************)
EXTENDS EventKey, Sequences, FiniteSets, Functions

CONSTANTS
    Handlers,     \* requests in progress at a time
    BatchIds,
    Bodies,       \* the batches a test may send: functions on BatchIds
    Faults,       \* the faults a test may inject
    MaxRequests,  \* bound
    MaxControls   \* bound: calls of SetFault, ClearFault and Reset

(* The zero value of Fault; count is 0 for a fault that stays. *)
NoFault == [effect |-> "none", count |-> 0, paths |-> {}]

Effects == {"none", "delay", "drop", "status"}
Paths   == {"/events", "/heartbeat"}

AnyFault == [effect : Effects, count : Nat, paths : SUBSET Paths]

ASSUME MockAssumption ==
    /\ IsFiniteSet(Handlers)
    /\ Faults \subseteq AnyFault
    /\ Bodies \subseteq [BatchIds -> Seq(Records)]
    /\ MaxRequests \in Nat /\ MaxControls \in Nat

VARIABLES
    body,         \* the batches of this test
    fault,        \* Server.fault
    stats,        \* Server.stats
    batches, keys, accepted,   \* Server.batches, keys and accepted
    rows,         \* the events the collector would have stored
    handler,      \* the requests in progress
    injected,     \* history: the last fault set, and how often it was taken
    strays,       \* history: requests that ended after a Reset they did not begin after
    sent, controls

serverVars == <<fault, stats, batches, keys, accepted, rows>>
vars == <<body, serverVars, handler, injected, strays, sent, controls>>

NoStats == [requests |-> 0, statuses |-> 0, drops |-> 0, eventsReceived |-> 0,
            eventsAccepted |-> 0, eventsDuplicated |-> 0, heartbeats |-> 0]

(* fresh: there has been no Reset since the request came. *)
Idle == [pc |-> "idle", path |-> "", batch |-> "", effect |-> "none", fresh |-> TRUE]

Init ==
    /\ body \in Bodies
    /\ fault = NoFault /\ stats = NoStats
    /\ batches = {} /\ keys = {} /\ accepted = << >> /\ rows = << >>
    /\ handler = [h \in Handlers |-> Idle]
    /\ injected = [fault |-> NoFault, taken |-> 0]
    /\ strays = 0 /\ sent = 0 /\ controls = 0

Go(h, pc) == handler' = [handler EXCEPT ![h].pc = pc]

(* writeJSON and writeError: the client has its answer, whatever it says.  *)
Write(h) == Go(h, "written")

(* ServeHTTP returns. *)
End(h) == /\ handler' = [handler EXCEPT ![h] = Idle]
          /\ strays' = IF handler[h].fresh THEN strays ELSE strays + 1

-----------------------------------------------------------------------------
(***************************************************************************)
(* ServeHTTP                                                               *)
(***************************************************************************)
Arrive(h, path, b) ==
    /\ handler[h].pc = "idle" /\ sent < MaxRequests
    /\ sent' = sent + 1
    /\ stats' = [stats EXCEPT !.requests = @ + 1]
    /\ handler' = [handler EXCEPT ![h] = [Idle EXCEPT !.pc = "read", !.path = path, !.batch = b]]
    /\ UNCHANGED <<body, fault, batches, keys, accepted, rows, injected, strays, controls>>

(* A wrong token, or a body that cannot be read or is too large. *)
Refuse(h) ==
    /\ handler[h].pc = "read"
    /\ Write(h)
    /\ UNCHANGED <<body, serverVars, injected, strays, sent, controls>>

(* Mutant of Used: the last use does not remove the fault, and a count of  *)
(* zero means for ever.                                                    *)
UsedForEver(f) == IF f.count > 0 THEN [f EXCEPT !.count = @ - 1] ELSE f

(* Each use counts down, and the last one removes the fault. *)
Used(f) == CASE f.count = 0 -> f
             [] f.count = 1 -> NoFault
             [] OTHER       -> [f EXCEPT !.count = @ - 1]

(* takeFault, under mu: the fault is active, and meant for the path. *)
Applies(path) == fault.effect # "none" /\ path \in fault.paths

TakeFault(h) ==
    /\ handler[h].pc = "read"
    /\ IF Applies(handler[h].path)
       THEN /\ fault' = Used(fault)
            /\ injected' = [injected EXCEPT !.taken = @ + 1]
            /\ handler' = [handler EXCEPT ![h].pc = "fault", ![h].effect = fault.effect]
       ELSE Go(h, "handle") /\ UNCHANGED <<fault, injected>>
    /\ UNCHANGED <<body, stats, batches, keys, accepted, rows, strays, sent, controls>>

(* The delay is over and the request is handled after all. *)
Delayed(h) ==
    /\ handler[h].pc = "fault" /\ handler[h].effect = "delay"
    /\ Go(h, "handle")
    /\ UNCHANGED <<body, serverVars, injected, strays, sent, controls>>

(* Mutant of Drop: the deferred function counts a status as well. *)
DropCountsStatus(h) ==
    /\ handler[h].pc = "fault" /\ handler[h].effect = "drop"
    /\ stats' = [stats EXCEPT !.drops = @ + 1, !.statuses = @ + 1]
    /\ End(h)
    /\ UNCHANGED <<body, fault, batches, keys, accepted, rows, injected, sent, controls>>

(* The panic: the deferred function finds no status. *)
Drop(h) ==
    /\ handler[h].pc = "fault" /\ handler[h].effect = "drop"
    /\ stats' = [stats EXCEPT !.drops = @ + 1]
    /\ End(h)
    /\ UNCHANGED <<body, fault, batches, keys, accepted, rows, injected, sent, controls>>

Inject(h) ==
    /\ handler[h].pc = "fault" /\ handler[h].effect = "status"
    /\ Write(h)
    /\ UNCHANGED <<body, serverVars, injected, strays, sent, controls>>

(* The deferred function counts the status after the answer was written.   *)
Finish(h) ==
    /\ handler[h].pc = "written"
    /\ stats' = [stats EXCEPT !.statuses = @ + 1]
    /\ End(h)
    /\ UNCHANGED <<body, fault, batches, keys, accepted, rows, injected, sent, controls>>

-----------------------------------------------------------------------------
(***************************************************************************)
(* handleEvents and handleHeartbeat                                        *)
(***************************************************************************)

MockKeys(events)      == [i \in DOMAIN events |-> MockKey(events[i])]
CollectorKeys(events) == [i \in DOMAIN events |-> CollectorKey(events[i])]

(* The events of a batch whose key is new, the first of each key ... *)
NewAt(key, old) == {i \in DOMAIN key : key[i] \notin old /\ \A j \in 1..(i - 1) : key[j] # key[i]}

(* ... in their order. *)
Kept(events, at) ==
    LET Add[i \in 0..Len(events)] ==
            IF i = 0 THEN << >> ELSE IF i \in at THEN Append(Add[i - 1], events[i]) ELSE Add[i - 1]
    IN Add[Len(events)]

NewEvents(events, key, old) == Kept(events, NewAt(key, old))

(* A batch that came before is counted and acknowledged, no more. *)
HandleEvents(h) ==
    LET b      == handler[h].batch
        events == body[b]
        new    == IF b \in batches THEN << >> ELSE NewEvents(events, MockKeys(events), keys)
    IN /\ handler[h].pc = "handle" /\ handler[h].path = "/events"
       /\ \A i \in DOMAIN events : Acceptable(events[i])
       /\ batches' = batches \cup {b}
       /\ keys' = keys \cup Range(MockKeys(new))
       /\ accepted' = accepted \o new
       /\ stats' = [stats EXCEPT !.eventsReceived = @ + Len(events),
                                 !.eventsAccepted = @ + Len(new),
                                 !.eventsDuplicated = @ + Len(events) - Len(new)]
       /\ rows' = IF b \in batches THEN rows
                  ELSE rows \o NewEvents(events, CollectorKeys(events), Range(CollectorKeys(rows)))
       /\ Write(h)
       /\ UNCHANGED <<body, fault, injected, strays, sent, controls>>

(* validateBatch: one event refuses the batch. *)
InvalidBatch(h) ==
    /\ handler[h].pc = "handle" /\ handler[h].path = "/events"
    /\ \E i \in DOMAIN body[handler[h].batch] : ~Acceptable(body[handler[h].batch][i])
    /\ Write(h)
    /\ UNCHANGED <<body, serverVars, injected, strays, sent, controls>>

HandleHeartbeat(h) ==
    /\ handler[h].pc = "handle" /\ handler[h].path = "/heartbeat"
    /\ stats' = [stats EXCEPT !.heartbeats = @ + 1]
    /\ Write(h)
    /\ UNCHANGED <<body, fault, batches, keys, accepted, rows, injected, strays, sent, controls>>

-----------------------------------------------------------------------------
(***************************************************************************)
(* What a test does, directly or through /_control/                        *)
(***************************************************************************)
Control == controls < MaxControls /\ controls' = controls + 1

SetFault(f) ==
    /\ Control
    /\ fault' = f
    /\ injected' = [fault |-> f, taken |-> 0]
    /\ UNCHANGED <<body, stats, batches, keys, accepted, rows, handler, strays, sent>>

(* Everything is forgotten, also what requests in progress have counted.   *)
Reset ==
    /\ Control
    /\ fault' = NoFault /\ injected' = [fault |-> NoFault, taken |-> 0]
    /\ stats' = NoStats /\ strays' = 0
    /\ batches' = {} /\ keys' = {} /\ accepted' = << >> /\ rows' = << >>
    /\ handler' = [h \in Handlers |-> [handler[h] EXCEPT !.fresh = (handler[h].pc = "idle")]]
    /\ UNCHANGED <<body, sent>>

Serve(h) ==
    \/ Refuse(h) \/ TakeFault(h) \/ Delayed(h) \/ Drop(h) \/ Inject(h) \/ Finish(h)
    \/ HandleEvents(h) \/ InvalidBatch(h) \/ HandleHeartbeat(h)

Next ==
    \/ \E h \in Handlers : \/ \E b \in BatchIds : Arrive(h, "/events", b)
                           \/ Arrive(h, "/heartbeat", "")
                           \/ Serve(h)
    \/ \E f \in Faults \cup {NoFault} : SetFault(f)
    \/ Reset

Spec == Init /\ [][Next]_vars

-----------------------------------------------------------------------------
(***************************************************************************)
(* Properties                                                              *)
(***************************************************************************)

(* The events that are posted. *)
Sent == UNION {{body[b][i] : i \in DOMAIN body[b]} : b \in BatchIds}

Pcs == {"idle", "read", "fault", "handle", "written"}

(* Every variable has its type; every accepted event is counted, and no    *)
(* two of them have the same key.                                          *)
TypeOK ==
    /\ fault \in AnyFault /\ injected \in [fault : AnyFault, taken : Nat]
    /\ stats \in [requests : Nat, statuses : Nat, drops : Nat, eventsReceived : Nat,
                  eventsAccepted : Nat, eventsDuplicated : Nat, heartbeats : Nat]
    /\ stats.eventsAccepted = Len(accepted)
    /\ keys = Range(MockKeys(accepted)) /\ IsInjective(MockKeys(accepted))
    /\ stats.eventsReceived = stats.eventsAccepted + stats.eventsDuplicated
    /\ batches \subseteq BatchIds /\ accepted \in Seq(Sent) /\ rows \in Seq(Sent)
    /\ handler \in [Handlers -> [pc : Pcs, path : Paths \cup {""},
                                 batch : BatchIds \cup {""}, fresh : BOOLEAN,
                                 effect : Effects]]
    /\ strays \in Nat /\ sent \in 0..MaxRequests /\ controls \in 0..MaxControls

HasId(e) == ~e.parse_error /\ e.parsed.id \notin {Absent, Null, String(Empty)}

(* The rule that the comment of mockserver.go:289 quotes: the event_id, or *)
(* else the time and the content, here of what was received.               *)
SameEvent(e, f) ==
    \/ HasId(e) /\ HasId(f) /\ e.parsed.id = f.parsed.id
    \/ ~HasId(e) /\ ~HasId(f) /\ e.received_at = f.received_at /\ e.data = f.data

(* What eventKey cannot tell apart: a number that a float64 does not hold  *)
(* and its neighbours, a number (or true) and a string of the same text,   *)
(* and two datagrams of one microsecond that differ in bytes that are not  *)
(* UTF-8 only.                                                             *)
Confused(e, f) ==
    \/ e.parsed.id.json = "number" /\ e.parsed.id.n > Mantissa
    \/ e.parsed.id.json \in {"number", "true"} /\ f.parsed.id.json = "string"
    \/ e.data.junk # 0 /\ f.data.junk # 0 /\ e.data # f.data
Clear == \A e, f \in Sent : ~Confused(e, f)

(* Whatever is posted, again and in whatever order, the collector's        *)
(* deduplication by eventKey keeps every event of an acknowledged batch,   *)
(* each once, as long as no two of them are confused.                      *)
EachOnce ==
    Clear => /\ \A b \in batches : \A i \in DOMAIN body[b] :
                    \E k \in DOMAIN rows : SameEvent(body[b][i], rows[k])
             /\ \A j, k \in DOMAIN rows : j # k => ~SameEvent(rows[j], rows[k])

(* A test against the mock server says something of the collector: both    *)
(* keep the same events in the same order, unless an event_id is not a     *)
(* string.                                                                 *)
MockAgrees == (\A e \in Sent : e.parsed.id.json \notin {"number", "true"}) => accepted = rows

(* A fault that is set for some number of requests applies to that many,   *)
(* however many come at the same time.                                     *)
FaultExact ==
    injected.fault.count > 0 => injected.taken + fault.count = injected.fault.count

(* A test can rely on the counters: every request is in progress, or has   *)
(* been answered, or dropped; after a Reset the answers of requests that   *)
(* came before it are counted as well.                                     *)
Accounted ==
    stats.requests + strays
        = stats.statuses + stats.drops
          + Cardinality({h \in Handlers : handler[h].pc # "idle" /\ handler[h].fresh})

(* Every variable has its type, and the counters add up whatever requests, *)
(* faults and calls of Reset do at the same time.                          *)
MockInv == TypeOK /\ Accounted
=============================================================================
