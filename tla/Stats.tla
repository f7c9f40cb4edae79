------------------------------- MODULE Stats -------------------------------
(***************************************************************************)
(* The agent's statistics (internal/agent/agent.go: Stats), the heartbeat  *)
(* and the status file that report them, and the end of Agent.Run.         *)
(*                                                                         *)
(* Receiver, forwarder and janitor first do something to the spool and     *)
(* then count it; the heartbeat and the status ticker copy the counters    *)
(* and then look at the spool.  Nothing makes these pairs atomic: Stats.mu *)
(* protects the counters and pmu the read position.                        *)
(*                                                                         *)
(* Abstractions.  The spool is a sequence of lines of which a prefix has   *)
(* been removed; which files Cleanup chooses, and the races in which it    *)
(* removes the wrong one, are the subject of Spool.  A size counts lines.  *)
(* Texts, addresses and times that are only shown are left out, those of   *)
(* the last heartbeat included.  The counters of a heartbeat are what it   *)
(* says was stored, received less write errors.  The counters of a status  *)
(* file are their sum: counters only grow, so two copies of one run with   *)
(* the same sum are equal.                                                 *)
(***************************************************************************)
EXTENDS Integers, FiniteSetsExt

CONSTANTS
    Backlog,    \* lines in the spool when the agent starts
    BatchSize,  \* forwarder.batch_size
    MaxEvents,  \* bound: lines written after the start
    MaxErrors   \* bound: events that cannot be written

ASSUME StatsAssumption ==
    /\ Backlog \in Nat /\ BatchSize \in Nat \ {0}
    /\ MaxEvents \in Nat /\ MaxErrors \in Nat

VARIABLES
    written,    \* lines ever written to the spool
    removed,    \* lines 1..removed are in files that Cleanup has removed
    committed,  \* Spool.committed
    inflight,   \* Spool.inflight
    pmu,        \* the goroutine that holds Spool.pmu, or "free"
    rpc,        \* receiver: "recv", "stored", "failed"
    fpc,        \* forwarder: "idle", "read", "send", "commit", "count"
    lines,      \* size of the forwarder's batch
    outcome,    \* what became of it: "forwarded" or "dead", the counter to increase
    jpc,        \* janitor: "idle", "locked", "count"
    jdropped,   \* what Cleanup returns
    uncounted,  \* history: unsent lines in removed files that countLines did not get to
    stats,      \* Stats.v
    hpc,        \* heartbeat: "wait", "sizes", "list", "ready", "posted"
    payload,    \* its HeartbeatPayload
    mark,       \* Sizes: the committed position
    spc,        \* status ticker: "wait", "write"
    copy,       \* what it writes
    status,     \* the status file
    cancelled,  \* ctx is done
    stopped,    \* goroutines that have returned
    done        \* agent.Run has written the last status file

spoolVars  == <<written, removed, committed, inflight, pmu>>
workVars   == <<rpc, fpc, lines, outcome, jpc, jdropped, uncounted>>
reportVars == <<hpc, payload, mark, spc, copy, status>>
endVars    == <<cancelled, stopped, done>>
vars == <<spoolVars, workVars, stats, reportVars, endVars>>

Goroutines == {"receiver", "forwarder", "janitor", "heartbeat", "status"}

NoStats   == [received |-> 0, errors |-> 0, forwarded |-> 0, dead |-> 0, dropped |-> 0]
NoPayload == [stored |-> 0, backlog |-> 0]

Init ==
    /\ written = Backlog /\ removed = 0 /\ committed = 0 /\ inflight = 0 /\ pmu = "free"
    /\ rpc = "recv" /\ fpc = "idle" /\ lines = 0 /\ outcome = "forwarded"
    /\ jpc = "idle" /\ jdropped = 0 /\ uncounted = 0
    /\ stats = NoStats
    /\ hpc = "wait" /\ payload = NoPayload /\ mark = 0
    /\ spc = "wait" /\ copy = 0 /\ status = 0
    /\ cancelled = FALSE /\ stopped = {} /\ done = FALSE

MaxOf(m, n) == IF m < n THEN n ELSE m

-----------------------------------------------------------------------------
(***************************************************************************)
(* Receiver, forwarder and janitor: the work, then its count.              *)
(***************************************************************************)

(* runReceiver: Append succeeds ...                                        *)
Receive ==
    /\ rpc = "recv" /\ "receiver" \notin stopped /\ written < Backlog + MaxEvents
    /\ written' = written + 1
    /\ rpc' = "stored"
    /\ UNCHANGED <<removed, committed, inflight, pmu, fpc, lines, outcome, jpc, jdropped, uncounted,
                   stats, reportVars, endVars>>

(* ... or fails, and the event is lost. *)
ReceiveFails ==
    /\ rpc = "recv" /\ "receiver" \notin stopped /\ stats.errors < MaxErrors
    /\ rpc' = "failed"
    /\ UNCHANGED <<spoolVars, fpc, lines, outcome, jpc, jdropped, uncounted, stats, reportVars,
                   endVars>>

CountReceived ==
    /\ rpc \in {"stored", "failed"}
    /\ stats' = [stats EXCEPT !.received = @ + 1, !.errors = IF rpc = "failed" THEN @ + 1 ELSE @]
    /\ rpc' = "recv"
    /\ UNCHANGED <<spoolVars, fpc, lines, outcome, jpc, jdropped, uncounted, reportVars, endVars>>

(* readBatch takes pmu ... *)
ReadLock ==
    /\ fpc = "idle" /\ "forwarder" \notin stopped /\ pmu = "free"
    /\ pmu' = "forwarder" /\ fpc' = "read"
    /\ UNCHANGED <<written, removed, committed, inflight, rpc, lines, outcome, jpc, jdropped,
                   uncounted, stats, reportVars, endVars>>

From == MaxOf(committed, removed)
To   == Min({From + BatchSize, written})

(* ReadReadyBatch: a batch that is not full is taken or left, as the       *)
(* interval has passed or not.                                             *)
TakeBatch ==
    \/ From < To /\ inflight' = To /\ lines' = To - From /\ fpc' = "send"
    \/ To - From < BatchSize /\ fpc' = "idle" /\ UNCHANGED <<inflight, lines>>

(* Mutant of ReadBatch: pmu is held until the batch is delivered. *)
ReadBatchKeepsLock ==
    /\ fpc = "read"
    /\ TakeBatch
    /\ pmu' = IF fpc' = "idle" THEN "free" ELSE pmu
    /\ UNCHANGED <<written, removed, committed, rpc, outcome, jpc, jdropped, uncounted, stats,
                   reportVars, endVars>>

(* ... and returns with a batch, if there is one. *)
ReadBatch ==
    /\ fpc = "read"
    /\ TakeBatch
    /\ pmu' = "free"
    /\ UNCHANGED <<written, removed, committed, rpc, outcome, jpc, jdropped, uncounted, stats,
                   reportVars, endVars>>

(* deliver: the batch is stored or written to a dead letter (an attempt    *)
(* that fails changes nothing here, and none succeeds when ctx is done),   *)
Settle ==
    /\ fpc = "send" /\ ~cancelled
    /\ outcome' \in {"forwarded", "dead"}
    /\ fpc' = "commit"
    /\ UNCHANGED <<spoolVars, rpc, lines, jpc, jdropped, uncounted, stats, reportVars, endVars>>

(* committed, *)
Commit ==
    /\ fpc = "commit" /\ pmu = "free"
    /\ committed' = inflight
    /\ fpc' = "count"
    /\ UNCHANGED <<written, removed, inflight, pmu, rpc, lines, outcome, jpc, jdropped, uncounted,
                   stats, reportVars, endVars>>

(* and counted. *)
CountDelivered ==
    /\ fpc = "count"
    /\ stats' = [stats EXCEPT ![outcome] = @ + lines]
    /\ fpc' = "idle" /\ lines' = 0 /\ outcome' = "forwarded"
    /\ UNCHANGED <<spoolVars, rpc, jpc, jdropped, uncounted, reportVars, endVars>>

(* Cleanup takes pmu ... *)
CleanupLock ==
    /\ jpc = "idle" /\ "janitor" \notin stopped /\ pmu = "free"
    /\ pmu' = "janitor" /\ jpc' = "locked"
    /\ UNCHANGED <<written, removed, committed, inflight, rpc, fpc, lines, outcome, jdropped,
                   uncounted, stats, reportVars, endVars>>

(* Mutant of Effective: the batch in flight is not looked at. *)
EffectiveCommitted == committed

(* removeLocked: the later of committed and inflight. *)
Effective == MaxOf(committed, inflight)

(* The lines up to n that are there and neither sent nor in flight.        *)
Unsent(n) == MaxOf(n - MaxOf(Effective, removed), 0)

(* ... removes the files up to some line, if any, and counts the lines in  *)
(* them that are not and will not be sent; a file that countLines cannot   *)
(* read to its end is removed all the same, ...                            *)
Cleanup ==
    /\ jpc = "locked"
    /\ \E n \in removed..written :
         /\ removed' = n
         /\ jdropped' \in 0..Unsent(n)
         /\ uncounted' = uncounted + Unsent(n) - jdropped'
    /\ jpc' = IF jdropped' > 0 THEN "count" ELSE "idle"
    /\ pmu' = "free"
    /\ UNCHANGED <<written, committed, inflight, rpc, fpc, lines, outcome, stats, reportVars,
                   endVars>>

(* ... which runJanitor adds to the statistics. *)
CountDropped ==
    /\ jpc = "count"
    /\ stats' = [stats EXCEPT !.dropped = @ + jdropped]
    /\ jpc' = "idle" /\ jdropped' = 0
    /\ UNCHANGED <<spoolVars, rpc, fpc, lines, outcome, uncounted, reportVars, endVars>>

-----------------------------------------------------------------------------
(***************************************************************************)
(* The heartbeat: heartbeatPayload and sendHeartbeat                       *)
(***************************************************************************)

(* Mutant of Snapshot: the counters are copied after the sizes. *)
SnapshotAfterSizes ==
    /\ "heartbeat" \notin stopped
    /\ \/ hpc = "wait" /\ hpc' = "sizes" /\ UNCHANGED payload
       \/ /\ hpc = "ready"
          /\ payload' = [payload EXCEPT !.stored = stats.received - stats.errors]
          /\ UNCHANGED hpc
    /\ UNCHANGED <<spoolVars, workVars, stats, mark, spc, copy, status, endVars>>

(* stats.snapshot; a ticker that is due may still fire after the cancel.   *)
Snapshot ==
    /\ hpc = "wait" /\ "heartbeat" \notin stopped
    /\ payload' = [payload EXCEPT !.stored = stats.received - stats.errors]
    /\ hpc' = "sizes"
    /\ UNCHANGED <<spoolVars, workVars, stats, mark, spc, copy, status, endVars>>

(* Sizes: Committed ... *)
ReadCommitted ==
    /\ hpc = "sizes" /\ pmu = "free"
    /\ mark' = committed
    /\ hpc' = "list"
    /\ UNCHANGED <<spoolVars, workVars, stats, payload, spc, copy, status, endVars>>

BacklogSize == written - MaxOf(mark, removed)

(* ... and then the files, without a lock. *)
ListFiles ==
    /\ hpc = "list"
    /\ payload' = [payload EXCEPT !.backlog = BacklogSize]
    /\ hpc' = "ready" /\ mark' = 0
    /\ UNCHANGED <<spoolVars, workVars, stats, spc, copy, status, endVars>>

(* The request is sent, unless ctx is done. *)
PostBeat ==
    /\ hpc = "ready" /\ ~cancelled
    /\ hpc' = "posted" /\ payload' = NoPayload
    /\ UNCHANGED <<spoolVars, workVars, stats, mark, spc, copy, status, endVars>>

(* sendHeartbeat returns with an answer, after the client's time-out or    *)
(* because ctx is done; the next one waits for the ticker in any case.     *)
EndBeat ==
    /\ hpc = "posted"
    /\ hpc' = "wait"
    /\ UNCHANGED <<spoolVars, workVars, stats, payload, mark, spc, copy, status, endVars>>

-----------------------------------------------------------------------------
(***************************************************************************)
(* The status file and the end of agent.Run                                *)
(***************************************************************************)
Total == stats.received + stats.errors + stats.forwarded + stats.dead + stats.dropped

(* writeStatus: the counters are copied (that it looks at the spool, too,  *)
(* changes none of them) ...                                               *)
BuildStatus ==
    /\ spc = "wait" /\ "status" \notin stopped
    /\ copy' = Total
    /\ spc' = "write"
    /\ UNCHANGED <<spoolVars, workVars, stats, hpc, payload, mark, status, endVars>>

(* ... and the file is replaced, or stays if that fails. *)
WriteStatus ==
    /\ spc = "write"
    /\ status' \in {status, copy}
    /\ spc' = "wait" /\ copy' = 0
    /\ UNCHANGED <<spoolVars, workVars, stats, hpc, payload, mark, endVars>>

Cancel ==
    /\ ~cancelled
    /\ cancelled' = TRUE
    /\ UNCHANGED <<spoolVars, workVars, stats, reportVars, stopped, done>>

(* Where a goroutine finds that ctx is done: between two rounds, or when a *)
(* request cannot be sent.                                                 *)
AtRest(g) ==
    CASE g = "receiver"  -> rpc = "recv"
      [] g = "forwarder" -> fpc \in {"idle", "send"}
      [] g = "janitor"   -> jpc = "idle"
      [] g = "heartbeat" -> hpc \in {"wait", "ready"}
      [] g = "status"    -> spc = "wait"

Return(g) ==
    /\ cancelled /\ g \notin stopped /\ AtRest(g)
    /\ stopped' = stopped \cup {g}
    /\ UNCHANGED <<spoolVars, workVars, stats, reportVars, cancelled, done>>

(* Mutant of AllReturned: Run does not wait for its goroutines. *)
DoNotWait == cancelled

(* wg.Wait *)
AllReturned == stopped = Goroutines

(* The last writeStatus succeeds (if it fails, the file stays as it is).   *)
Finish ==
    /\ AllReturned /\ ~done
    /\ done' = TRUE
    /\ status' = Total
    /\ UNCHANGED <<spoolVars, workVars, stats, hpc, payload, mark, spc, copy, cancelled, stopped>>

-----------------------------------------------------------------------------
Next ==
    \/ Receive \/ ReceiveFails \/ CountReceived
    \/ ReadLock \/ ReadBatch \/ Settle \/ Commit \/ CountDelivered
    \/ CleanupLock \/ Cleanup \/ CountDropped
    \/ Snapshot \/ ReadCommitted \/ ListFiles \/ PostBeat \/ EndBeat
    \/ BuildStatus \/ WriteStatus
    \/ Cancel \/ Finish \/ \E g \in Goroutines : Return(g)

(* The heartbeat goroutine is scheduled and its request times out; who     *)
(* holds pmu goes on; a mutex does not starve a waiter (sync.Mutex).       *)
Fairness ==
    /\ WF_vars(Snapshot \/ ListFiles \/ PostBeat \/ EndBeat)
    /\ SF_vars(ReadCommitted)
    /\ WF_vars(ReadBatch) /\ WF_vars(Cleanup)

Spec == Init /\ [][Next]_vars /\ Fairness

-----------------------------------------------------------------------------
(***************************************************************************)
(* Properties                                                              *)
(***************************************************************************)
(* Every variable has its type; in particular no size or count that is     *)
(* reported is negative.                                                   *)
TypeOK ==
    /\ written \in Nat /\ removed \in 0..written
    /\ committed \in 0..written /\ inflight \in 0..written
    /\ pmu \in {"free", "forwarder", "janitor"}
    /\ rpc \in {"recv", "stored", "failed"}
    /\ fpc \in {"idle", "read", "send", "commit", "count"} /\ lines \in 0..BatchSize
    /\ outcome \in {"forwarded", "dead"}
    /\ jpc \in {"idle", "locked", "count"} /\ jdropped \in Nat
    /\ uncounted \in Nat
    /\ stats \in [received : Nat, errors : Nat, forwarded : Nat, dead : Nat, dropped : Nat]
    /\ hpc \in {"wait", "sizes", "list", "ready", "posted"}
    /\ payload \in [stored : Nat, backlog : Nat] /\ mark \in 0..written
    /\ spc \in {"wait", "write"} /\ copy \in 0..Total /\ status \in 0..Total
    /\ cancelled \in BOOLEAN /\ stopped \subseteq Goroutines /\ done \in BOOLEAN

(* What is in somebody's hand: sent, or being sent, and not counted yet.   *)
InHand == lines + jdropped

(* Lines that are neither sent nor in flight nor removed. *)
AheadOf == written - Max({committed, inflight, removed})

(* Every event is counted once: forwarded, dead-lettered and dropped add   *)
(* up, with what is in hand and ahead, to the backlog and what was         *)
(* received; although Cleanup may remove the file of the batch in flight,  *)
(* and each goroutine counts in a step of its own.  Only lines that        *)
(* countLines could not read are missing, and no others.                   *)
CountedOnce ==
    stats.forwarded + stats.dead + stats.dropped + InHand + AheadOf + uncounted
        = Backlog + stats.received - stats.errors + (IF rpc = "stored" THEN 1 ELSE 0)

(* Every variable has its type, and whenever receiver, forwarder and       *)
(* janitor count, every event is counted once.                             *)
StatsInv == TypeOK /\ CountedOnce

(* A report of no backlog is to be trusted: everything it says was         *)
(* received has been passed by the forwarder or removed by Cleanup.  This  *)
(* is what scripts/verify.sh takes it to mean.                             *)
NoBacklogMeansSent ==
    hpc = "ready" /\ payload.backlog = 0 =>
        Backlog + payload.stored <= MaxOf(committed, removed)

(* When the agent has stopped, the status file holds the final counters.   *)
FinalStatus == done => status = Total

(* Heartbeats go on until the agent is stopped, although the forwarder may *)
(* be stuck with a batch for ever: pmu is all that the two share.          *)
HeartbeatsGoOn == []<>(hpc = "posted" \/ cancelled)
=============================================================================
