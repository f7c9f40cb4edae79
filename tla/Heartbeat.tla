----------------------------- MODULE Heartbeat -----------------------------
(***************************************************************************)
(* The heartbeats of one agent (internal/agent/agent.go: runHeartbeat,     *)
(* sendHeartbeat) and the row that the collector keeps for it              *)
(* (internal/collector: handleHeartbeat, SaveHeartbeat).  A heartbeat is   *)
(* sent once, never again; whichever request is handled last is the row,   *)
(* and a request that the agent has given up may be handled at any time.   *)
(*                                                                         *)
(* Abstractions.  A heartbeat is known by its age, the number of later     *)
(* heartbeats that have been built, counted up to MaxAge.  Of the answer   *)
(* only the status and min_supported_version matter.  What the counters of *)
(* a payload say is in Stats; ReportProofs extends both modules, so that   *)
(* they share no name.                                                     *)
(***************************************************************************)
EXTENDS Integers

CONSTANTS
    Requests,   \* bound: requests in the network or the collector
    NoCall,
    Versions,   \* values of MIN_SUPPORTED_VERSION, in their order
    Version,    \* the version of the agent
    MaxAge,     \* bound: ages that are told apart
    MaxFailures \* bound: time-outs, losses, failures and restarts

ASSUME HeartbeatAssumption ==
    /\ NoCall \notin Requests
    /\ Versions \subseteq Nat \ {0} /\ Version \in Nat
    /\ MaxAge \in Nat \ {0} /\ MaxFailures \in Nat

(* Before the first heartbeat, and before the agent knows a version. *)
Never     == MaxAge + 1
NoVersion == 0

VARIABLES
    call,       \* the request that sendHeartbeat waits for, or NoCall
    lastHeartbeatAt, lastHeartbeatError, minSupportedVersion,   \* Stats
    row,        \* the row of table heartbeats: its age, whether it came late
    minVersion, \* Server.minVersion
    req,        \* the requests
    acked,      \* history: the last heartbeat that was acknowledged
    failures

agentVars == <<call, lastHeartbeatAt, lastHeartbeatError, minSupportedVersion>>
heartbeatVars == <<agentVars, row, minVersion, req, acked, failures>>

(* late: the agent does not wait for the answer any more. *)
NoRequest == [pc |-> "idle", age |-> Never, valid |-> TRUE, late |-> FALSE, status |-> 0,
              version |-> NoVersion]

HeartbeatInit ==
    /\ call = NoCall
    /\ lastHeartbeatAt = Never /\ lastHeartbeatError = FALSE /\ minSupportedVersion = NoVersion
    /\ row = [age |-> Never, late |-> FALSE]
    /\ minVersion \in Versions
    /\ req = [r \in Requests |-> NoRequest]
    /\ acked = Never /\ failures = 0

Failure == failures < MaxFailures /\ failures' = failures + 1

Older(age) == IF age < MaxAge THEN age + 1 ELSE age

-----------------------------------------------------------------------------
(***************************************************************************)
(* The agent                                                               *)
(***************************************************************************)

(* The payload is built and posted. *)
Beat(valid) ==
    /\ call = NoCall
    /\ \E r \in Requests :
         /\ req[r].pc = "idle"
         /\ call' = r
         /\ req' = [s \in Requests |->
                      IF s = r THEN [NoRequest EXCEPT !.pc = "sent", !.age = 0, !.valid = valid]
                      ELSE [req[s] EXCEPT !.age = Older(@)]]
    /\ lastHeartbeatAt' = Older(lastHeartbeatAt)
    /\ row' = [row EXCEPT !.age = Older(@)]
    /\ acked' = Older(acked)
    /\ UNCHANGED <<lastHeartbeatError, minSupportedVersion, minVersion>>

(* At the start and with every tick of the interval ... *)
SendHeartbeat == Beat(TRUE) /\ UNCHANGED failures

(* ... also if os.Hostname fails, with a payload that will be refused.     *)
SendNameless == Failure /\ Beat(FALSE)

(* Mutant of OnSuccess: the first version is kept. *)
OnSuccessFirstVersion ==
    /\ call # NoCall /\ req[call].pc = "answered" /\ req[call].status = 200
    /\ lastHeartbeatAt' = req[call].age /\ lastHeartbeatError' = FALSE
    /\ minSupportedVersion' = IF minSupportedVersion = NoVersion THEN req[call].version
                              ELSE minSupportedVersion
    /\ acked' = req[call].age
    /\ req' = [req EXCEPT ![call] = NoRequest] /\ call' = NoCall
    /\ UNCHANGED <<row, minVersion, failures>>

(* 2xx: its time and the version that comes with the answer are noted.     *)
OnSuccess ==
    /\ call # NoCall /\ req[call].pc = "answered" /\ req[call].status = 200
    /\ lastHeartbeatAt' = req[call].age /\ lastHeartbeatError' = FALSE
    /\ minSupportedVersion' = req[call].version
    /\ acked' = req[call].age
    /\ req' = [req EXCEPT ![call] = NoRequest] /\ call' = NoCall
    /\ UNCHANGED <<row, minVersion, failures>>

(* Another status, or the collector has closed the connection: the error   *)
(* is noted, and the next tick awaited.                                    *)
OnFailure ==
    /\ call # NoCall
    /\ req[call].pc = "idle" \/ (req[call].pc = "answered" /\ req[call].status # 200)
    /\ lastHeartbeatError' = TRUE
    /\ req' = [req EXCEPT ![call] = NoRequest] /\ call' = NoCall
    /\ UNCHANGED <<lastHeartbeatAt, minSupportedVersion, row, minVersion, acked, failures>>

(* The client's time-out or a broken connection: the request goes on.      *)
GiveUp ==
    /\ Failure
    /\ call # NoCall
    /\ lastHeartbeatError' = TRUE
    /\ req' = [req EXCEPT ![call].late = TRUE] /\ call' = NoCall
    /\ UNCHANGED <<lastHeartbeatAt, minSupportedVersion, row, minVersion, acked>>

(* The agent ends at any point and starts again with new statistics.       *)
Restart ==
    /\ Failure
    /\ req' = IF call = NoCall THEN req ELSE [req EXCEPT ![call].late = TRUE]
    /\ call' = NoCall
    /\ lastHeartbeatAt' = Never /\ lastHeartbeatError' = FALSE
    /\ minSupportedVersion' = NoVersion
    /\ UNCHANGED <<row, minVersion, acked>>

-----------------------------------------------------------------------------
(***************************************************************************)
(* Network and collector                                                   *)
(***************************************************************************)
Lose(r) ==
    /\ Failure
    /\ req[r].pc = "sent" /\ req[r].late
    /\ req' = [req EXCEPT ![r] = NoRequest]
    /\ UNCHANGED <<agentVars, row, minVersion, acked>>

Discard(r) ==
    /\ req[r].pc # "sent" /\ req[r].late
    /\ req' = [req EXCEPT ![r] = NoRequest]
    /\ UNCHANGED <<agentVars, row, minVersion, acked, failures>>

Answer(r, status) ==
    req' = [req EXCEPT ![r].pc = "answered", ![r].status = status,
                       ![r].version = IF status = 200 THEN minVersion ELSE NoVersion]

(* handleHeartbeat: validateHeartbeat refuses the request ... *)
Refuse(r) ==
    /\ req[r].pc = "sent" /\ ~req[r].valid
    /\ Answer(r, 400)
    /\ UNCHANGED <<agentVars, row, minVersion, acked, failures>>

(* Mutant of SaveHeartbeat: ON CONFLICT DO NOTHING. *)
SaveHeartbeatOnce(r) == IF row.age = Never THEN row' = [age |-> req[r].age, late |-> req[r].late]
                        ELSE UNCHANGED row

(* INSERT ... ON CONFLICT DO UPDATE, whatever the row holds. *)
SaveHeartbeat(r) == row' = [age |-> req[r].age, late |-> req[r].late]

(* ... or it is saved and acknowledged, ... *)
Save(r) ==
    /\ req[r].pc = "sent" /\ req[r].valid
    /\ SaveHeartbeat(r)
    /\ Answer(r, 200)
    /\ UNCHANGED <<agentVars, minVersion, acked, failures>>

(* ... or an answer tells of a failure: the token, the body, a statement   *)
(* that fails, or one that fails only in appearance.                       *)
Fail(r) ==
    /\ Failure
    /\ req[r].pc = "sent"
    /\ \/ \E status \in {400, 401, 413, 503} : Answer(r, status) /\ UNCHANGED row
       \/ req[r].valid /\ SaveHeartbeat(r) /\ Answer(r, 503)
    /\ UNCHANGED <<agentVars, minVersion, acked>>

(* The collector is started again, perhaps with another configuration;     *)
(* requests it has not received yet find the new one.                      *)
CollectorRestart ==
    /\ Failure
    /\ minVersion' \in Versions
    /\ req' = [r \in Requests |-> IF req[r].pc = "answered"
                                  THEN [NoRequest EXCEPT !.late = req[r].late] ELSE req[r]]
    /\ UNCHANGED <<agentVars, row, acked>>

HeartbeatNext ==
    \/ SendHeartbeat \/ SendNameless \/ OnSuccess \/ OnFailure \/ GiveUp \/ Restart
    \/ CollectorRestart
    \/ \E r \in Requests : Lose(r) \/ Discard(r) \/ Refuse(r) \/ Save(r) \/ Fail(r)

(* The ticker fires and sendHeartbeat goes on; a request that has been     *)
(* sent is received and handled.  Nothing is assumed of failures.          *)
HeartbeatFairness ==
    /\ WF_heartbeatVars(SendHeartbeat) /\ WF_heartbeatVars(OnSuccess \/ OnFailure)
    /\ \A r \in Requests : WF_heartbeatVars(Refuse(r) \/ Save(r)) /\ WF_heartbeatVars(Discard(r))

HeartbeatSpec == HeartbeatInit /\ [][HeartbeatNext]_heartbeatVars /\ HeartbeatFairness

-----------------------------------------------------------------------------
(***************************************************************************)
(* Properties                                                              *)
(***************************************************************************)
Ages == 0..Never

(* Every variable has its type; the agent notes no heartbeat that it has   *)
(* not sent and no version that no collector has had.                      *)
HeartbeatTypeOK ==
    /\ call \in Requests \cup {NoCall}
    /\ lastHeartbeatAt \in Ages /\ lastHeartbeatError \in BOOLEAN
    /\ minSupportedVersion \in Versions \cup {NoVersion}
    /\ row \in [age : Ages, late : BOOLEAN] /\ minVersion \in Versions /\ acked \in Ages
    /\ req \in [Requests -> [pc : {"idle", "sent", "answered"}, age : Ages, valid : BOOLEAN,
                             late : BOOLEAN, status : {0, 200, 400, 401, 413, 503},
                             version : Versions \cup {NoVersion}]]
    /\ failures \in 0..MaxFailures

(* What the collector shows is the last heartbeat it acknowledged to the   *)
(* agent or a later one, except when SaveHeartbeat has overwritten it with *)
(* one that the agent had given up, in this life or the one before.        *)
AckedShown == row.age > acked => row.late

(* An old row does not stay: if failures come to an end, the row is the    *)
(* newest heartbeat again and again.                                       *)
RowRenewed == []<>(row.age = 0)

(* upgrade_required of the status file is eventually right and stays so,   *)
(* whichever answers were lost and however often either side restarted.    *)
UpgradeRequired == minSupportedVersion # NoVersion /\ Version < minSupportedVersion

VersionLearnt == <>[](UpgradeRequired <=> Version < minVersion)
=============================================================================
