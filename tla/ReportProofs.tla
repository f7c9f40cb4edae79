---------------------------- MODULE ReportProofs ----------------------------
(***************************************************************************)
(* What the agent reports, to the collector and in its status file.        *)
(*                                                                         *)
(* Stats: StatsInv, NoBacklogMeansSent and FinalStatus for every backlog,  *)
(* batch size and number of events.                                        *)
(*                                                                         *)
(* None of them is inductive.  That events are counted once needs what the *)
(* two positions of the spool are to each other at each step of the        *)
(* forwarder; that no backlog means sent needs what a heartbeat that is    *)
(* being put together has read so far; and that the last status is final   *)
(* needs that a goroutine that has returned stays where it was.            *)
(*                                                                         *)
(* Heartbeat: AckedShown for any number of requests, failures and ages.    *)
(*                                                                         *)
(* It is not inductive by itself: what an acknowledgement says of the row  *)
(* has to be known from the moment the row is written until the answer is  *)
(* read, while requests that were given up may overwrite the row.  The     *)
(* strengthening is that a request in progress which is not late is the    *)
(* call, that the call is the newest heartbeat, and that after a 200 for   *)
(* it the row is that heartbeat or one that came late.                     *)
(***************************************************************************)
EXTENDS Stats, Heartbeat, TLAPS

Counters == [received : Nat, errors : Nat, forwarded : Nat, dead : Nat, dropped : Nat]

(* A batch is in flight while it is sent and until it is committed; who    *)
(* has counted has nothing in hand.                                        *)
Positions ==
    /\ committed <= inflight
    /\ fpc \notin {"send", "commit"} => inflight = committed
    /\ fpc \in {"idle", "read"} => lines = 0
    /\ jpc # "count" => jdropped = 0

(* What was written is what is counted as stored, but for the line that    *)
(* the receiver has written and not counted.                               *)
WrittenCounted ==
    /\ stats.errors <= stats.received
    /\ written = Backlog + stats.received - stats.errors + (IF rpc = "stored" THEN 1 ELSE 0)

(* What a heartbeat has read so far is not ahead of the spool. *)
ReportBehind ==
    /\ mark <= committed
    /\ hpc \in {"sizes", "list"} => Backlog + payload.stored <= written

(* Who has returned was cancelled and does nothing more. *)
StoppedAtRest ==
    /\ stopped # {} => cancelled
    /\ \A g \in stopped : AtRest(g)
    /\ done => stopped = Goroutines

StatsIInv ==
    /\ TypeOK /\ Positions /\ WrittenCounted /\ CountedOnce
    /\ ReportBehind /\ NoBacklogMeansSent
    /\ StoppedAtRest /\ FinalStatus

-----------------------------------------------------------------------------
(* The largest and the smallest of a few integers. *)
LEMMA MaxIsOne ==
    ASSUME NEW a \in Int, NEW b \in Int, NEW c \in Int
    PROVE  /\ Max({a, b, c}) \in {a, b, c}
           /\ Max({a, b, c}) >= a /\ Max({a, b, c}) >= b /\ Max({a, b, c}) >= c
<1>1. \E x \in {a, b, c} : \A y \in {a, b, c} : x >= y
  OBVIOUS
<1> QED BY <1>1 DEF Max

(* The same of the smallest. *)
LEMMA MinIsOne ==
    ASSUME NEW a \in Int, NEW b \in Int
    PROVE  Min({a, b}) \in {a, b} /\ Min({a, b}) <= a /\ Min({a, b}) <= b
<1>1. \E x \in {a, b} : \A y \in {a, b} : x <= y
  OBVIOUS
<1> QED BY <1>1 DEF Min

(* A batch ends behind where it begins, at most BatchSize lines further,   *)
(* or there is nothing to read.                                            *)
LEMMA BatchEnds ==
    ASSUME TypeOK
    PROVE  /\ From \in Nat /\ From >= committed /\ From >= removed /\ From <= written
           /\ From \in {committed, removed}
           /\ To \in Nat /\ To <= written /\ To <= From + BatchSize /\ From <= To
<1>1. /\ From \in Nat /\ From >= committed /\ From >= removed /\ From <= written
      /\ From \in {committed, removed}
  BY DEF TypeOK, From, MaxOf
<1>2. BatchSize \in Nat /\ BatchSize > 0 /\ written \in Nat
  BY StatsAssumption DEF TypeOK
<1> HIDE DEF From
<1>3. From + BatchSize \in Int /\ written \in Int
  BY <1>1, <1>2
<1>4. To \in {From + BatchSize, written} /\ To <= From + BatchSize /\ To <= written
  BY <1>3, MinIsOne, Zenon DEF To
<1> QED BY <1>1, <1>2, <1>4

(* The counters only grow where one is added to. *)
LEMMA TotalType == TypeOK => Total \in Nat
BY DEF TypeOK, Total

(* What a step of the receiver, the forwarder or the janitor adds. *)
LEMMA CountReceivedStats ==
    ASSUME stats \in Counters, CountReceived
    PROVE  /\ stats' \in Counters
           /\ stats'.received = stats.received + 1
           /\ stats'.errors = stats.errors + (IF rpc = "failed" THEN 1 ELSE 0)
           /\ stats'.forwarded = stats.forwarded /\ stats'.dead = stats.dead
           /\ stats'.dropped = stats.dropped
<1> DEFINE s == [stats EXCEPT !.received = @ + 1]
<1>1. /\ s \in Counters /\ s.received = stats.received + 1 /\ s.errors = stats.errors
      /\ s.forwarded = stats.forwarded /\ s.dead = stats.dead /\ s.dropped = stats.dropped
  BY DEF Counters
<1>2. stats' = [s EXCEPT !.errors = IF rpc = "failed" THEN s.errors + 1 ELSE s.errors]
  BY DEF CountReceived
<1> HIDE DEF s
<1> QED BY <1>1, <1>2 DEF Counters

(* The batch is added to one of two counters. *)
LEMMA CountDeliveredStats ==
    ASSUME stats \in Counters, outcome \in {"forwarded", "dead"}, lines \in Nat, CountDelivered
    PROVE  /\ stats' \in Counters
           /\ stats'.forwarded + stats'.dead = stats.forwarded + stats.dead + lines
           /\ stats'.received = stats.received /\ stats'.errors = stats.errors
           /\ stats'.dropped = stats.dropped
<1>1. CASE outcome = "forwarded"
  BY <1>1 DEF CountDelivered, Counters
<1>2. CASE outcome = "dead"
  BY <1>2 DEF CountDelivered, Counters
<1> QED BY <1>1, <1>2

(* What Cleanup returned is added to the dropped ones. *)
LEMMA CountDroppedStats ==
    ASSUME stats \in Counters, jdropped \in Nat, CountDropped
    PROVE  /\ stats' \in Counters
           /\ stats'.dropped = stats.dropped + jdropped
           /\ stats'.received = stats.received /\ stats'.errors = stats.errors
           /\ stats'.forwarded = stats.forwarded /\ stats'.dead = stats.dead
BY DEF CountDropped, Counters

-----------------------------------------------------------------------------
(* The invariant holds when the agent starts. *)
LEMMA InitInv == Init => StatsIInv
<1> SUFFICES ASSUME Init PROVE StatsIInv
  OBVIOUS
<1>1. TypeOK
  <2>1. stats \in Counters /\ Total = 0
    BY DEF Init, NoStats, Counters, Total
  <2>2. payload \in [stored : Nat, backlog : Nat]
    BY DEF Init, NoPayload
  <2>3. cancelled \in BOOLEAN /\ stopped \subseteq Goroutines /\ done \in BOOLEAN
    BY DEF Init
  <2>4. /\ written \in Nat /\ removed \in 0..written
        /\ committed \in 0..written /\ inflight \in 0..written
        /\ lines \in 0..BatchSize /\ jdropped \in Nat /\ uncounted \in Nat /\ mark \in 0..written
        /\ copy \in 0..Total /\ status \in 0..Total
    BY <2>1, StatsAssumption DEF Init
  <2> QED BY <2>1, <2>2, <2>3, <2>4 DEF Init, TypeOK, Counters
<1>2. Positions /\ WrittenCounted
  BY StatsAssumption DEF Init, Positions, WrittenCounted, NoStats
<1>3. CountedOnce
  <2>1. committed = 0 /\ inflight = 0 /\ removed = 0
    BY DEF Init
  <2>a. committed \in Int /\ inflight \in Int /\ removed \in Int
    BY <2>1
  <2>2. Max({committed, inflight, removed}) \in {committed, inflight, removed}
    BY <2>a, MaxIsOne, Zenon
  <2>3. Max({committed, inflight, removed}) = 0
    BY <2>1, <2>2
  <2> QED BY <2>3, StatsAssumption DEF Init, CountedOnce, InHand, AheadOf, NoStats
<1>4. ReportBehind /\ NoBacklogMeansSent /\ StoppedAtRest /\ FinalStatus
  BY DEF Init, ReportBehind, NoBacklogMeansSent, StoppedAtRest, FinalStatus
<1> QED BY <1>1, <1>2, <1>3, <1>4 DEF StatsIInv

-----------------------------------------------------------------------------
(***************************************************************************)
(* Types                                                                   *)
(***************************************************************************)
(* Every step keeps the types; what is added to a counter is not negative. *)
LEMMA TypeStep ==
    ASSUME StatsIInv, [Next]_vars
    PROVE  TypeOK'
<1> USE DEF StatsIInv
<1>0. /\ TypeOK /\ Total \in Nat
      /\ BatchSize \in Nat /\ Backlog \in Nat
  BY TotalType, StatsAssumption
<1>1. CASE Receive
  BY <1>0, <1>1 DEF Receive, TypeOK, Total, reportVars, endVars
<1>2. CASE ReceiveFails
  BY <1>0, <1>2 DEF ReceiveFails, TypeOK, Total, spoolVars, reportVars, endVars
<1>3. CASE CountReceived
  <2>1. stats' \in Counters /\ Total' \in Nat /\ Total <= Total'
    BY <1>0, <1>3, CountReceivedStats DEF TypeOK, Total, Counters
  <2> QED BY <1>0, <1>3, <2>1 DEF CountReceived, TypeOK, Counters, spoolVars, reportVars, endVars
<1>4. CASE ReadLock
  BY <1>0, <1>4 DEF ReadLock, TypeOK, Total, reportVars, endVars
<1>5. CASE ReadBatch
  <2>1. inflight' \in 0..written /\ lines' \in 0..BatchSize /\ fpc' \in {"send", "idle"}
    BY <1>0, <1>5, BatchEnds DEF ReadBatch, TakeBatch, TypeOK
  <2> QED BY <1>0, <1>5, <2>1 DEF ReadBatch, TypeOK, Total, reportVars, endVars
<1>6. CASE Settle
  BY <1>0, <1>6 DEF Settle, TypeOK, Total, spoolVars, reportVars, endVars
<1>7. CASE Commit
  BY <1>0, <1>7 DEF Commit, TypeOK, Total, reportVars, endVars
<1>8. CASE CountDelivered
  <2>1. lines \in Nat
    BY <1>0 DEF TypeOK
  <2>2. stats' \in Counters /\ Total' \in Nat /\ Total <= Total'
    BY <1>0, <1>8, <2>1, CountDeliveredStats DEF TypeOK, Total, Counters
  <2> QED BY <1>0, <1>8, <2>2 DEF CountDelivered, TypeOK, Counters, spoolVars, reportVars, endVars
<1>9. CASE CleanupLock
  BY <1>0, <1>9 DEF CleanupLock, TypeOK, Total, reportVars, endVars
<1>10. CASE Cleanup
  <2>1. \A n \in removed..written : Unsent(n) \in Nat
    BY <1>0 DEF TypeOK, Unsent, Effective, MaxOf
  <2>2. /\ removed' \in 0..written /\ jdropped' \in Nat
        /\ uncounted' \in Nat
    <3> HIDE DEF StatsIInv
    <3> QED BY <1>0, <1>10, <2>1 DEF Cleanup, TypeOK
  <2> QED BY <1>0, <1>10, <2>2 DEF Cleanup, TypeOK, Total, reportVars, endVars
<1>11. CASE CountDropped
  <2>1. stats' \in Counters /\ Total' \in Nat /\ Total <= Total'
    BY <1>0, <1>11, CountDroppedStats DEF TypeOK, Total, Counters
  <2> QED BY <1>0, <1>11, <2>1 DEF CountDropped, TypeOK, Counters, spoolVars, reportVars, endVars
<1>12. CASE Snapshot
  BY <1>0, <1>12 DEF Snapshot, TypeOK, Total, WrittenCounted, spoolVars, workVars, endVars
<1>13. CASE ReadCommitted
  BY <1>0, <1>13 DEF ReadCommitted, TypeOK, Total, spoolVars, workVars, endVars
<1>14. CASE ListFiles
  <2>1. BacklogSize \in Nat
    BY <1>0 DEF TypeOK, BacklogSize, MaxOf
  <2> QED BY <1>0, <1>14, <2>1 DEF ListFiles, TypeOK, Total, spoolVars, workVars, endVars
<1>15. CASE PostBeat
  BY <1>0, <1>15 DEF PostBeat, TypeOK, Total, NoPayload, spoolVars, workVars, endVars
<1>16. CASE EndBeat
  BY <1>0, <1>16 DEF EndBeat, TypeOK, Total, spoolVars, workVars, endVars
<1>17. CASE BuildStatus
  BY <1>0, <1>17 DEF BuildStatus, TypeOK, Total, spoolVars, workVars, endVars
<1>18. CASE WriteStatus
  BY <1>0, <1>18 DEF WriteStatus, TypeOK, Total, spoolVars, workVars, endVars
<1>19. CASE Cancel
  BY <1>0, <1>19 DEF Cancel, TypeOK, Total, spoolVars, workVars, reportVars
<1>20. CASE Finish
  BY <1>0, <1>20 DEF Finish, TypeOK, Total, spoolVars, workVars
<1>21. ASSUME NEW g \in Goroutines, Return(g) PROVE TypeOK'
  BY <1>0, <1>21 DEF Return, TypeOK, Total, spoolVars, workVars, reportVars
<1>22. CASE UNCHANGED vars
  BY <1>0, <1>22 DEF vars, TypeOK, Total, spoolVars, workVars, reportVars, endVars
<1> QED
  BY <1>1, <1>2, <1>3, <1>4, <1>5, <1>6, <1>7, <1>8, <1>9, <1>10, <1>11, <1>12, <1>13, <1>14,
     <1>15, <1>16, <1>17, <1>18, <1>19, <1>20, <1>21, <1>22 DEF Next

-----------------------------------------------------------------------------
(***************************************************************************)
(* Every event is counted once                                             *)
(***************************************************************************)
(* The steps of the reports and of the end of Run leave spool and counters *)
(* alone.                                                                  *)
Reporting ==
    \/ Snapshot \/ ReadCommitted \/ ListFiles \/ PostBeat \/ EndBeat
    \/ BuildStatus \/ WriteStatus
    \/ Cancel \/ Finish \/ (\E g \in Goroutines : Return(g)) \/ UNCHANGED vars

(* What Reporting leaves alone. *)
LEMMA ReportingKeeps == Reporting => UNCHANGED <<spoolVars, workVars, stats>>
BY DEF Reporting, Snapshot, ReadCommitted, ListFiles, PostBeat, EndBeat, BuildStatus, WriteStatus,
       Cancel, Finish, Return, vars

(* Reporting is what Next consists of beside the work. *)
LEMMA NextSplit ==
    ASSUME [Next]_vars
    PROVE  \/ Receive \/ ReceiveFails \/ CountReceived
           \/ ReadLock \/ ReadBatch \/ Settle \/ Commit \/ CountDelivered
           \/ CleanupLock \/ Cleanup \/ CountDropped
           \/ Reporting
BY DEF Next, Reporting

(* The positions stay in order, and the written lines are counted. *)
LEMMA PositionsStep ==
    ASSUME StatsIInv, [Next]_vars
    PROVE  Positions' /\ WrittenCounted'
<1>0. /\ TypeOK /\ Positions /\ WrittenCounted /\ stats \in Counters
      /\ Backlog \in Nat /\ BatchSize \in Nat
  BY StatsAssumption DEF StatsIInv, TypeOK, Counters
<1>1. CASE Receive
  BY <1>0, <1>1 DEF Receive, Positions, WrittenCounted, TypeOK
<1>2. CASE ReceiveFails
  BY <1>0, <1>2 DEF ReceiveFails, Positions, WrittenCounted, spoolVars
<1>3. CASE CountReceived
  <2>1. Positions'
    BY <1>0, <1>3 DEF CountReceived, Positions, spoolVars
  <2>2. WrittenCounted'
    BY <1>0, <1>3, CountReceivedStats DEF CountReceived, WrittenCounted, spoolVars, Counters, TypeOK
  <2> QED BY <2>1, <2>2
<1>4. CASE ReadLock
  BY <1>0, <1>4 DEF ReadLock, Positions, WrittenCounted
<1>5. CASE ReadBatch
  <2>1. WrittenCounted'
    BY <1>0, <1>5 DEF ReadBatch, WrittenCounted
  <2>2. Positions'
    BY <1>0, <1>5, BatchEnds DEF ReadBatch, TakeBatch, Positions, TypeOK
  <2> QED BY <2>1, <2>2
<1>6. CASE Settle
  BY <1>0, <1>6 DEF Settle, Positions, WrittenCounted, spoolVars
<1>7. CASE Commit
  BY <1>0, <1>7 DEF Commit, Positions, WrittenCounted, TypeOK
<1>8. CASE CountDelivered
  <2>1. Positions'
    BY <1>0, <1>8 DEF CountDelivered, Positions, spoolVars
  <2>2. lines \in Nat /\ outcome \in {"forwarded", "dead"}
    BY <1>0 DEF TypeOK
  <2>3. WrittenCounted'
    BY <1>0, <1>8, <2>2, CountDeliveredStats DEF CountDelivered, WrittenCounted, spoolVars
  <2> QED BY <2>1, <2>3
<1>9. CASE CleanupLock
  BY <1>0, <1>9 DEF CleanupLock, Positions, WrittenCounted
<1>10. CASE Cleanup
  <2>1. WrittenCounted'
    BY <1>0, <1>10 DEF Cleanup, WrittenCounted
  <2>2. jdropped' \in Nat
    BY <1>0, <1>10 DEF Cleanup, TypeOK, Unsent, Effective, MaxOf
  <2>3. Positions'
    BY <1>0, <1>10, <2>2 DEF Cleanup, Positions
  <2> QED BY <2>1, <2>3
<1>11. CASE CountDropped
  <2>1. Positions'
    BY <1>0, <1>11 DEF CountDropped, Positions, spoolVars
  <2>2. WrittenCounted'
    BY <1>0, <1>11, CountDroppedStats DEF CountDropped, WrittenCounted, spoolVars, TypeOK
  <2> QED BY <2>1, <2>2
<1>12. CASE Reporting
  BY <1>0, <1>12, ReportingKeeps DEF Positions, WrittenCounted, spoolVars, workVars
<1> QED
  BY NextSplit, <1>1, <1>2, <1>3, <1>4, <1>5, <1>6, <1>7, <1>8, <1>9, <1>10, <1>11, <1>12

(* The furthest of the three positions, up to which lines are dealt with.  *)
Furthest == Max({committed, inflight, removed})

(* Where it is, and that it moves to the end of a batch that is read and   *)
(* to the end of what Cleanup removes.                                     *)
LEMMA FurthestIs ==
    ASSUME TypeOK
    PROVE  /\ Furthest \in {committed, inflight, removed}
           /\ Furthest >= committed /\ Furthest >= inflight /\ Furthest >= removed
<1>1. committed \in Int /\ inflight \in Int /\ removed \in Int
  BY DEF TypeOK
<1> QED BY <1>1, MaxIsOne, Zenon DEF Furthest

(* No event is counted twice, and none is forgotten. *)
LEMMA CountedStep ==
    ASSUME StatsIInv, [Next]_vars
    PROVE  CountedOnce'
<1>0. /\ TypeOK /\ Positions /\ CountedOnce /\ stats \in Counters
      /\ Backlog \in Nat /\ BatchSize \in Nat
  BY StatsAssumption DEF StatsIInv, TypeOK, Counters
<1>a. TypeOK'
  BY TypeStep
<1>b. /\ Furthest \in {committed, inflight, removed}
      /\ Furthest >= committed /\ Furthest >= inflight /\ Furthest >= removed
  BY <1>0, FurthestIs
<1>c. /\ Furthest' \in {committed', inflight', removed'}
      /\ Furthest' >= committed' /\ Furthest' >= inflight' /\ Furthest' >= removed'
  <2>1. committed' \in Int /\ inflight' \in Int /\ removed' \in Int
    BY <1>a DEF TypeOK
  <2> QED BY <2>1, MaxIsOne, Zenon DEF Furthest
<1>d. AheadOf = written - Furthest /\ AheadOf' = written' - Furthest'
  BY DEF AheadOf, Furthest
<1>e. /\ written \in Nat /\ removed \in Nat /\ committed \in Nat /\ inflight \in Nat
      /\ lines \in Nat /\ jdropped \in Nat /\ uncounted \in Nat /\ outcome \in {"forwarded", "dead"}
      /\ rpc \in {"recv", "stored", "failed"}
      /\ removed' \in Nat /\ inflight' \in Nat /\ committed' \in Nat
  BY <1>0, <1>a DEF TypeOK
<1> HIDE DEF Furthest
<1>1. CASE Receive
  <2>1. Furthest' = Furthest
    BY <1>1 DEF Receive, Furthest
  <2> QED BY <1>0, <1>b, <1>d, <1>e, <1>1, <2>1 DEF Receive, CountedOnce, InHand, Counters
<1>2. CASE ReceiveFails
  <2>1. Furthest' = Furthest
    BY <1>2 DEF ReceiveFails, Furthest, spoolVars
  <2> QED BY <1>0, <1>b, <1>d, <1>e, <1>2, <2>1 DEF ReceiveFails, CountedOnce, InHand, spoolVars
<1>3. CASE CountReceived
  <2>1. Furthest' = Furthest
    BY <1>3 DEF CountReceived, Furthest, spoolVars
  <2>2. /\ rpc \in {"stored", "failed"} /\ rpc' = "recv" /\ written' = written
        /\ lines' = lines /\ jdropped' = jdropped /\ uncounted' = uncounted
    BY <1>3 DEF CountReceived, spoolVars
  <2>3. /\ stats.received \in Nat /\ stats.errors \in Nat /\ stats.forwarded \in Nat
        /\ stats.dead \in Nat /\ stats.dropped \in Nat
    BY <1>0 DEF Counters
  <2>4. /\ stats'.received = stats.received + 1
        /\ stats'.errors = stats.errors + (IF rpc = "failed" THEN 1 ELSE 0)
        /\ stats'.forwarded = stats.forwarded /\ stats'.dead = stats.dead
        /\ stats'.dropped = stats.dropped
    BY <1>0, <1>3, CountReceivedStats
  <2>5. AheadOf' = AheadOf /\ AheadOf \in Int
    BY <1>b, <1>d, <1>e, <2>1, <2>2
  <2> QED BY <1>0, <1>e, <2>2, <2>3, <2>4, <2>5 DEF CountedOnce, InHand
<1>4. CASE ReadLock
  <2>1. Furthest' = Furthest
    BY <1>4 DEF ReadLock, Furthest
  <2> QED BY <1>0, <1>d, <1>4, <2>1 DEF ReadLock, CountedOnce, InHand
<1>5. CASE ReadBatch
  <2>1. Furthest' = Furthest + (lines' - lines)
    BY <1>0, <1>b, <1>c, <1>e, <1>5, BatchEnds DEF ReadBatch, TakeBatch, Positions
  <2>2. lines' \in Nat
    BY <1>a DEF TypeOK
  <2> QED BY <1>0, <1>b, <1>d, <1>e, <1>5, <2>1, <2>2 DEF ReadBatch, CountedOnce, InHand, Counters
<1>6. CASE Settle
  <2>1. Furthest' = Furthest
    BY <1>6 DEF Settle, Furthest, spoolVars
  <2> QED BY <1>0, <1>d, <1>6, <2>1 DEF Settle, CountedOnce, InHand, spoolVars
<1>7. CASE Commit
  <2>1. Furthest' = Furthest
    BY <1>0, <1>b, <1>c, <1>e, <1>7 DEF Commit, Positions
  <2> QED BY <1>0, <1>d, <1>7, <2>1 DEF Commit, CountedOnce, InHand
<1>8. CASE CountDelivered
  <2>1. Furthest' = Furthest
    BY <1>8 DEF CountDelivered, Furthest, spoolVars
  <2> QED BY <1>0, <1>b, <1>d, <1>e, <1>8, <2>1, CountDeliveredStats
          DEF CountDelivered, CountedOnce, InHand, Counters, spoolVars
<1>9. CASE CleanupLock
  <2>1. Furthest' = Furthest
    BY <1>9 DEF CleanupLock, Furthest
  <2> QED BY <1>0, <1>d, <1>9, <2>1 DEF CleanupLock, CountedOnce, InHand
<1>10. CASE Cleanup
  <2>1. jdropped = 0
    BY <1>0, <1>10 DEF Cleanup, Positions
  <2>2. PICK n \in removed..written :
          removed' = n /\ uncounted' = uncounted + Unsent(n) - jdropped'
    BY <1>10 DEF Cleanup
  <2>3. PICK u \in Nat : u = Unsent(n)
    BY <1>e, <2>2 DEF Unsent, Effective, MaxOf
  <2>a. Furthest' = Furthest + u
    BY <1>b, <1>c, <1>e, <1>10, <2>2, <2>3 DEF Cleanup, Unsent, Effective, MaxOf
  <2>b. uncounted' = uncounted + u - jdropped'
    BY <2>2, <2>3
  <2>4. jdropped' \in Nat /\ uncounted' \in Nat
    BY <1>a DEF TypeOK
  <2>5. /\ stats' = stats /\ lines' = lines /\ rpc' = rpc /\ written' = written
    BY <1>10 DEF Cleanup
  <2>6. /\ stats.received \in Nat /\ stats.errors \in Nat /\ stats.forwarded \in Nat
        /\ stats.dead \in Nat /\ stats.dropped \in Nat
    BY <1>0 DEF Counters
  <2>7. AheadOf' = AheadOf - u /\ AheadOf \in Int
    BY <1>b, <1>d, <1>e, <2>a, <2>5
  <2>8. PICK d \in Nat, v \in Nat, y \in Nat, a \in Int, l \in Nat :
            d = jdropped' /\ v = uncounted' /\ y = uncounted /\ a = AheadOf /\ l = lines
    BY <1>e, <2>4, <2>7
  <2>9. v = y + u - d
    BY <2>b, <2>8
  <2>10. PICK f \in Nat, e \in Nat, o \in Nat :
            f = stats.forwarded /\ e = stats.dead /\ o = stats.dropped
    BY <2>6
  <2> DEFINE r == Backlog + stats.received - stats.errors + (IF rpc = "stored" THEN 1 ELSE 0)
  <2>11. r \in Int /\ r' = r
    BY <1>0, <2>5, <2>6
  <2>12. f + e + o + (l + 0) + a + y = r
    BY <1>0, <2>1, <2>8, <2>10 DEF CountedOnce, InHand
  <2>13. CountedOnce' <=> f + e + o + (l + d) + (a - u) + v = r'
    BY <2>5, <2>7, <2>8, <2>10 DEF CountedOnce, InHand
  <2> HIDE DEF r
  <2>14. f + e + o + (l + d) + (a - u) + v = r
    BY <2>9, <2>11, <2>12
  <2> QED BY <2>11, <2>13, <2>14
<1>11. CASE CountDropped
  <2>1. Furthest' = Furthest
    BY <1>11 DEF CountDropped, Furthest, spoolVars
  <2> QED BY <1>0, <1>b, <1>d, <1>e, <1>11, <2>1, CountDroppedStats
          DEF CountDropped, CountedOnce, InHand, Counters, spoolVars
<1>12. CASE Reporting
  <2>1. Furthest' = Furthest
    BY <1>12, ReportingKeeps DEF Furthest, spoolVars
  <2> QED BY <1>0, <1>d, <1>12, <2>1, ReportingKeeps DEF CountedOnce, InHand, spoolVars, workVars
<1> QED
  BY NextSplit, <1>1, <1>2, <1>3, <1>4, <1>5, <1>6, <1>7, <1>8, <1>9, <1>10, <1>11, <1>12

-----------------------------------------------------------------------------
(***************************************************************************)
(* A report of no backlog                                                  *)
(***************************************************************************)
(* The spool only moves forward. *)
LEMMA SpoolForward ==
    ASSUME StatsIInv, [Next]_vars
    PROVE  written <= written' /\ committed <= committed' /\ removed <= removed'
<1>0. TypeOK /\ Positions
  BY DEF StatsIInv
<1>1. CASE Receive \/ ReceiveFails \/ CountReceived
  BY <1>0, <1>1 DEF Receive, ReceiveFails, CountReceived, TypeOK, spoolVars
<1>2. CASE ReadLock \/ ReadBatch \/ Settle \/ Commit \/ CountDelivered
  BY <1>0, <1>2
  DEF ReadLock, ReadBatch, Settle, Commit, CountDelivered, TypeOK, Positions, spoolVars
<1>3. CASE CleanupLock \/ Cleanup \/ CountDropped
  BY <1>0, <1>3 DEF CleanupLock, Cleanup, CountDropped, TypeOK, spoolVars
<1>4. CASE Reporting
  BY <1>0, <1>4, ReportingKeeps DEF TypeOK, spoolVars
<1> QED BY NextSplit, <1>1, <1>2, <1>3, <1>4

(* A heartbeat stays behind the spool while it is put together, and what   *)
(* it says of no backlog stays true.                                       *)
LEMMA ReportStep ==
    ASSUME StatsIInv, [Next]_vars
    PROVE  ReportBehind' /\ NoBacklogMeansSent'
<1>0. /\ TypeOK /\ WrittenCounted /\ ReportBehind /\ NoBacklogMeansSent
      /\ Backlog \in Nat
  BY StatsAssumption DEF StatsIInv
<1>a. /\ written \in Nat /\ committed \in Nat /\ removed \in Nat /\ mark \in Nat
      /\ payload \in [stored : Nat, backlog : Nat]
      /\ stats.received \in Nat /\ stats.errors \in Nat
      /\ removed <= written /\ committed <= written
  BY <1>0 DEF TypeOK
<1>b. /\ written' \in Nat /\ committed' \in Nat /\ removed' \in Nat
  BY TypeStep DEF TypeOK
<1>c. written <= written' /\ committed <= committed' /\ removed <= removed'
  BY SpoolForward
<1>1. ASSUME UNCHANGED <<hpc, payload, mark>> PROVE ReportBehind' /\ NoBacklogMeansSent'
  BY <1>0, <1>a, <1>b, <1>c, <1>1 DEF ReportBehind, NoBacklogMeansSent, MaxOf
<1>2. CASE Snapshot
  <2>1. payload'.stored = stats.received - stats.errors
    BY <1>a, <1>2 DEF Snapshot
  <2> QED BY <1>0, <1>a, <1>b, <1>c, <1>2, <2>1
          DEF Snapshot, ReportBehind, NoBacklogMeansSent, WrittenCounted
<1>3. CASE ReadCommitted
  BY <1>0, <1>a, <1>c, <1>3 DEF ReadCommitted, ReportBehind, NoBacklogMeansSent, spoolVars
<1>4. CASE ListFiles
  <2>1. payload'.stored = payload.stored /\ payload'.backlog = BacklogSize
    BY <1>a, <1>4 DEF ListFiles
  <2>2. NoBacklogMeansSent'
    BY <1>0, <1>a, <1>4, <2>1
       DEF ListFiles, ReportBehind, NoBacklogMeansSent, BacklogSize, MaxOf, spoolVars
  <2>3. ReportBehind'
    BY <1>a, <1>b, <1>4 DEF ListFiles, ReportBehind
  <2> QED BY <2>2, <2>3
<1>5. CASE PostBeat \/ EndBeat
  BY <1>0, <1>a, <1>5 DEF PostBeat, EndBeat, ReportBehind, NoBacklogMeansSent, spoolVars
<1>6. CASE \/ Receive \/ ReceiveFails \/ CountReceived
           \/ ReadLock \/ ReadBatch \/ Settle \/ Commit \/ CountDelivered
           \/ CleanupLock \/ Cleanup \/ CountDropped
           \/ BuildStatus \/ WriteStatus \/ Cancel \/ Finish
           \/ (\E g \in Goroutines : Return(g)) \/ UNCHANGED vars
  <2>1. UNCHANGED <<hpc, payload, mark>>
    BY <1>6 DEF Receive, ReceiveFails, CountReceived, ReadLock, ReadBatch, Settle, Commit,
                CountDelivered, CleanupLock, Cleanup, CountDropped, BuildStatus, WriteStatus,
                Cancel, Finish, Return, vars, reportVars
  <2> QED BY <1>1, <2>1
<1> QED BY <1>2, <1>3, <1>4, <1>5, <1>6 DEF Next

-----------------------------------------------------------------------------
(***************************************************************************)
(* The end of Run                                                          *)
(***************************************************************************)
(* AtRest, goroutine by goroutine. *)
LEMMA AtRestIs ==
    /\ AtRest("receiver") <=> rpc = "recv"
    /\ AtRest("forwarder") <=> fpc \in {"idle", "send"}
    /\ AtRest("janitor") <=> jpc = "idle"
    /\ AtRest("heartbeat") <=> hpc \in {"wait", "ready"}
    /\ AtRest("status") <=> spc = "wait"
BY DEF AtRest

(* The same of the next state. *)
LEMMA AtRestNext ==
    /\ AtRest("receiver")' <=> rpc' = "recv"
    /\ AtRest("forwarder")' <=> fpc' \in {"idle", "send"}
    /\ AtRest("janitor")' <=> jpc' = "idle"
    /\ AtRest("heartbeat")' <=> hpc' \in {"wait", "ready"}
    /\ AtRest("status")' <=> spc' = "wait"
BY DEF AtRest

(* Who has returned stays at rest, and the last status stays final. *)
LEMMA StopStep ==
    ASSUME StatsIInv, [Next]_vars
    PROVE  StoppedAtRest' /\ FinalStatus'
<1>0. TypeOK /\ StoppedAtRest /\ FinalStatus
  BY DEF StatsIInv
<1>a. /\ "receiver" \in stopped => rpc = "recv"
      /\ "forwarder" \in stopped => fpc \in {"idle", "send"} /\ cancelled
      /\ "janitor" \in stopped => jpc = "idle"
      /\ "heartbeat" \in stopped => hpc \in {"wait", "ready"} /\ cancelled
      /\ "status" \in stopped => spc = "wait"
      /\ stopped \subseteq Goroutines
  BY <1>0, AtRestIs DEF StoppedAtRest, TypeOK
<1>b. done => /\ rpc = "recv" /\ fpc \in {"idle", "send"} /\ jpc = "idle" /\ spc = "wait"
              /\ cancelled
  BY <1>0, <1>a DEF StoppedAtRest, Goroutines
<1>c. ASSUME UNCHANGED <<stopped, done>>, cancelled => cancelled',
             \A g \in stopped : AtRest(g)'
      PROVE  StoppedAtRest'
  BY <1>0, <1>c DEF StoppedAtRest
<1>d. ASSUME stopped \subseteq Goroutines,
             "receiver" \in stopped => rpc' = "recv",
             "forwarder" \in stopped => fpc' \in {"idle", "send"},
             "janitor" \in stopped => jpc' = "idle",
             "heartbeat" \in stopped => hpc' \in {"wait", "ready"},
             "status" \in stopped => spc' = "wait"
      PROVE  \A g \in stopped : AtRest(g)'
  <2> SUFFICES ASSUME NEW g \in stopped PROVE AtRest(g)'
    OBVIOUS
  <2>1. CASE g = "receiver"
    BY <1>d, <2>1, AtRestNext
  <2>2. CASE g = "forwarder"
    BY <1>d, <2>2, AtRestNext
  <2>3. CASE g = "janitor"
    BY <1>d, <2>3, AtRestNext
  <2>4. CASE g = "heartbeat"
    BY <1>d, <2>4, AtRestNext
  <2>5. CASE g = "status"
    BY <1>d, <2>5, AtRestNext
  <2> QED BY <1>d, <2>1, <2>2, <2>3, <2>4, <2>5 DEF Goroutines
<1>1. CASE Receive \/ ReceiveFails \/ CountReceived
  <2>1. StoppedAtRest'
    BY <1>1, <1>a, <1>c, <1>d DEF Receive, ReceiveFails, CountReceived, reportVars, endVars
  <2>2. FinalStatus'
    BY <1>0, <1>1, <1>b DEF Receive, ReceiveFails, CountReceived, FinalStatus, Total, reportVars,
                            endVars
  <2> QED BY <2>1, <2>2
<1>2. CASE ReadLock \/ ReadBatch \/ Settle \/ Commit \/ CountDelivered
  <2>1. StoppedAtRest'
    BY <1>2, <1>a, <1>c, <1>d DEF ReadLock, ReadBatch, TakeBatch, Settle, Commit, CountDelivered,
                                  reportVars, endVars
  <2>2. FinalStatus'
    BY <1>0, <1>2, <1>b DEF ReadLock, ReadBatch, Settle, Commit, CountDelivered, FinalStatus, Total,
                            reportVars, endVars
  <2> QED BY <2>1, <2>2
<1>3. CASE CleanupLock \/ Cleanup \/ CountDropped
  <2>1. StoppedAtRest'
    BY <1>3, <1>a, <1>c, <1>d DEF CleanupLock, Cleanup, CountDropped, reportVars, endVars
  <2>2. FinalStatus'
    BY <1>0, <1>3, <1>b DEF CleanupLock, Cleanup, CountDropped, FinalStatus, Total, reportVars,
                            endVars
  <2> QED BY <2>1, <2>2
<1>4. CASE Snapshot \/ ReadCommitted \/ ListFiles \/ PostBeat \/ EndBeat
  <2>1. StoppedAtRest'
    BY <1>4, <1>a, <1>c, <1>d DEF Snapshot, ReadCommitted, ListFiles, PostBeat, EndBeat, workVars,
                                  endVars
  <2>2. FinalStatus'
    BY <1>0, <1>4 DEF Snapshot, ReadCommitted, ListFiles, PostBeat, EndBeat, FinalStatus, Total,
                      endVars
  <2> QED BY <2>1, <2>2
<1>5. CASE BuildStatus \/ WriteStatus
  <2>1. StoppedAtRest'
    BY <1>5, <1>a, <1>c, <1>d DEF BuildStatus, WriteStatus, workVars, endVars
  <2>2. FinalStatus'
    BY <1>0, <1>5, <1>b DEF BuildStatus, WriteStatus, FinalStatus, Total, endVars
  <2> QED BY <2>1, <2>2
<1>6. CASE Cancel
  <2>1. StoppedAtRest'
    BY <1>6, <1>a, <1>c, <1>d DEF Cancel, workVars, reportVars
  <2>2. FinalStatus'
    BY <1>0, <1>6 DEF Cancel, FinalStatus, Total, reportVars
  <2> QED BY <2>1, <2>2
<1>7. CASE Finish
  <2>1. \A g \in stopped : AtRest(g)'
    BY <1>7, <1>a, <1>d DEF Finish, workVars
  <2>2. StoppedAtRest'
    BY <1>0, <1>7, <2>1 DEF Finish, AllReturned, StoppedAtRest
  <2>3. FinalStatus'
    BY <1>7 DEF Finish, FinalStatus, Total
  <2> QED BY <2>2, <2>3
<1>8. ASSUME NEW g \in Goroutines, Return(g) PROVE StoppedAtRest' /\ FinalStatus'
  <2>1. AtRest(g)' /\ \A h \in stopped : AtRest(h)'
    <3>1. UNCHANGED <<rpc, fpc, jpc, hpc, spc>>
      BY <1>8 DEF Return, workVars, reportVars
    <3>2. \A h \in Goroutines : AtRest(h)' = AtRest(h)
      BY <3>1 DEF AtRest
    <3> QED BY <1>0, <1>8, <1>a, <3>2 DEF Return, StoppedAtRest
  <2>2. ~done
    BY <1>0, <1>8 DEF Return, StoppedAtRest
  <2>3. StoppedAtRest'
    BY <1>8, <2>1, <2>2 DEF Return, StoppedAtRest
  <2>4. FinalStatus'
    BY <1>8, <2>2 DEF Return, FinalStatus
  <2> QED BY <2>3, <2>4
<1>9. CASE UNCHANGED vars
  <2>1. StoppedAtRest'
    BY <1>9, <1>a, <1>c, <1>d DEF vars, workVars, reportVars, endVars
  <2>2. FinalStatus'
    BY <1>0, <1>9 DEF vars, FinalStatus, Total, reportVars, endVars
  <2> QED BY <2>1, <2>2
<1> QED BY <1>1, <1>2, <1>3, <1>4, <1>5, <1>6, <1>7, <1>8, <1>9 DEF Next

-----------------------------------------------------------------------------
(* The invariant is inductive. *)
LEMMA StatsInductive == Spec => []StatsIInv
<1>1. StatsIInv /\ [Next]_vars => StatsIInv'
  BY TypeStep, PositionsStep, CountedStep, ReportStep, StopStep DEF StatsIInv
<1> QED BY <1>1, InitInv, PTL DEF Spec

(* Whatever receiver, forwarder and janitor have got to, every event that  *)
(* was in the spool or came is counted as forwarded, dead-lettered or      *)
(* dropped exactly once, is in hand, or is ahead of all positions; and no  *)
(* size or counter is ever negative.                                       *)
THEOREM EveryEventCountedOnce == Spec => []StatsInv
<1>1. StatsIInv => StatsInv
  BY DEF StatsIInv, StatsInv
<1> QED BY <1>1, StatsInductive, PTL

(* A heartbeat without backlog is to be trusted, although its counters,    *)
(* the position and the files are read one after the other.                *)
THEOREM EmptyBacklogTrusted == Spec => []NoBacklogMeansSent
<1>1. StatsIInv => NoBacklogMeansSent
  BY DEF StatsIInv
<1> QED BY <1>1, StatsInductive, PTL

(* No goroutine adds to a counter, and none writes an older status, after  *)
(* Run has written the last one.                                           *)
THEOREM LastStatusFinal == Spec => []FinalStatus
<1>1. StatsIInv => FinalStatus
  BY DEF StatsIInv
<1> QED BY <1>1, StatsInductive, PTL

-----------------------------------------------------------------------------
(***************************************************************************)
(* Heartbeat                                                               *)
(***************************************************************************)
States == {"idle", "sent", "answered"}
Statuses == {0, 200, 400, 401, 413, 503}
AnyVersion == Versions \cup {NoVersion}

RequestType == [pc : States, age : Ages, valid : BOOLEAN, late : BOOLEAN, status : Statuses,
                version : AnyVersion]

InProgress(r) == req[r].pc # "idle"

OneCall == \A r \in Requests : InProgress(r) /\ ~req[r].late => call = r

CallIsNewest == call # NoCall /\ InProgress(call) => req[call].age = 0 /\ ~req[call].late

AnswerTrue ==
    call # NoCall /\ req[call].pc = "answered" /\ req[call].status = 200
        => row.age = 0 \/ row.late

HeartbeatInv == HeartbeatTypeOK /\ OneCall /\ CallIsNewest /\ AnswerTrue /\ AckedShown

-----------------------------------------------------------------------------
(* Growing older keeps the order of two heartbeats. *)
LEMMA OlderMonotone ==
    ASSUME NEW a \in Ages, NEW b \in Ages, a <= b
    PROVE  Older(a) \in Ages /\ Older(b) \in Ages /\ Older(a) <= Older(b)
BY HeartbeatAssumption DEF Older, Ages, Never

(* The types of the constants and of an unused request. *)
LEMMA Constants ==
    /\ NoCall \notin Requests
    /\ Never \in Ages /\ 0 \in Ages /\ Ages \subseteq Nat
    /\ NoVersion \in AnyVersion
BY HeartbeatAssumption DEF Never, Ages, AnyVersion

LEMMA Words ==
    /\ "idle" \in States /\ "sent" \in States /\ "answered" \in States
    /\ 0 \in Statuses /\ {200, 400, 401, 413, 503} \subseteq Statuses
BY DEF States, Statuses

(* An unused request, and what a step makes of the record of a request.    *)
LEMMA Unused ==
    NoRequest \in RequestType
BY Constants, Words DEF NoRequest, RequestType

LEMMA Aged ==
    ASSUME NEW q \in RequestType, NEW a \in Ages
    PROVE  [q EXCEPT !.age = a] \in RequestType
BY DEF RequestType

LEMMA Late ==
    ASSUME NEW q \in RequestType, NEW l \in BOOLEAN
    PROVE  [q EXCEPT !.late = l] \in RequestType
BY DEF RequestType

LEMMA Sent ==
    ASSUME NEW v \in BOOLEAN
    PROVE  [NoRequest EXCEPT !.pc = "sent", !.age = 0, !.valid = v] \in RequestType
<1> DEFINE p  == [NoRequest EXCEPT !.pc = "sent"]
           pa == [p EXCEPT !.age = 0]
<1>1. p \in RequestType
  BY Unused, Words DEF RequestType
<1> HIDE DEF p
<1>2. pa \in RequestType
  BY <1>1, Constants DEF RequestType
<1> HIDE DEF pa
<1>3. [pa EXCEPT !.valid = v] \in RequestType
  BY <1>2 DEF RequestType
<1> QED BY <1>3 DEF p, pa

LEMMA Answered ==
    ASSUME NEW q \in RequestType, NEW st \in Statuses, NEW v \in AnyVersion
    PROVE  [q EXCEPT !.pc = "answered", !.status = st, !.version = v] \in RequestType
<1> DEFINE p  == [q EXCEPT !.pc = "answered"]
           ps == [p EXCEPT !.status = st]
<1>1. p \in RequestType
  BY Words DEF RequestType
<1> HIDE DEF p
<1>2. ps \in RequestType
  BY <1>1 DEF RequestType
<1> HIDE DEF ps
<1>3. [ps EXCEPT !.version = v] \in RequestType
  BY <1>2 DEF RequestType
<1> QED BY <1>3 DEF p, ps

(* A step that changes one request. *)
LEMMA OneRequest ==
    ASSUME req \in [Requests -> RequestType], NEW r \in Requests, NEW q \in RequestType
    PROVE  [req EXCEPT ![r] = q] \in [Requests -> RequestType]
OBVIOUS

(* The agent has sent nothing and the table is empty. *)
LEMMA HeartbeatInvInit ==
    HeartbeatInit => HeartbeatInv
<1> SUFFICES ASSUME HeartbeatInit PROVE HeartbeatInv
  OBVIOUS
<1>1. req \in [Requests -> RequestType]
  BY Unused DEF HeartbeatInit
<1>2. HeartbeatTypeOK
  <2>1. /\ lastHeartbeatAt \in Ages /\ lastHeartbeatError \in BOOLEAN
        /\ row \in [age : Ages, late : BOOLEAN] /\ acked \in Ages
    BY Constants DEF HeartbeatInit
  <2>2. /\ call \in Requests \cup {NoCall} /\ failures \in 0..MaxFailures
        /\ minSupportedVersion \in AnyVersion /\ minVersion \in Versions
    BY Constants, HeartbeatAssumption DEF HeartbeatInit
  <2> QED BY <1>1, <2>1, <2>2 DEF HeartbeatTypeOK, RequestType, States, Statuses, AnyVersion
<1>3. OneCall /\ CallIsNewest /\ AnswerTrue /\ AckedShown
  BY Constants DEF HeartbeatInit, OneCall, CallIsNewest, AnswerTrue, AckedShown, InProgress,
                   NoRequest, Ages
<1> QED BY <1>2, <1>3 DEF HeartbeatInv

(* Every step keeps the type of the requests ... *)
LEMMA RequestsStep ==
    HeartbeatTypeOK /\ [HeartbeatNext]_heartbeatVars => req' \in [Requests -> RequestType]
<1> SUFFICES ASSUME HeartbeatTypeOK, [HeartbeatNext]_heartbeatVars
             PROVE  req' \in [Requests -> RequestType]
  OBVIOUS
<1>0. /\ req \in [Requests -> RequestType] /\ minVersion \in AnyVersion
      /\ call \in Requests \cup {NoCall} /\ NoCall \notin Requests
  BY Constants DEF HeartbeatTypeOK, RequestType, States, Statuses, AnyVersion
<1>a. \A r \in Requests : req[r].age \in Ages /\ req[r].late \in BOOLEAN
  BY <1>0 DEF RequestType
<1>1. ASSUME NEW valid \in BOOLEAN, Beat(valid) PROVE req' \in [Requests -> RequestType]
  <2>1. \A r \in Requests : [req[r] EXCEPT !.age = Older(@)] \in RequestType
    <3>1. \A r \in Requests : Older(req[r].age) \in Ages
      BY <1>a, OlderMonotone DEF Ages
    <3> QED BY <1>0, <3>1, Aged
  <2>2. PICK r \in Requests :
          req' = [s \in Requests |->
                    IF s = r THEN [NoRequest EXCEPT !.pc = "sent", !.age = 0, !.valid = valid]
                    ELSE [req[s] EXCEPT !.age = Older(@)]]
    BY <1>1 DEF Beat
  <2> QED BY <2>1, <2>2, Sent
<1>2. CASE SendHeartbeat
  BY <1>1, <1>2 DEF SendHeartbeat
<1>3. CASE SendNameless
  BY <1>1, <1>3 DEF SendNameless
<1>4. CASE OnSuccess \/ OnFailure
  <2>1. call \in Requests /\ req' = [req EXCEPT ![call] = NoRequest]
    BY <1>0, <1>4 DEF OnSuccess, OnFailure
  <2> QED BY <1>0, <2>1, Unused, OneRequest
<1>5. ASSUME NEW r \in Requests, req' = [req EXCEPT ![r].late = TRUE]
      PROVE  req' \in [Requests -> RequestType]
  <2>1. [req[r] EXCEPT !.late = TRUE] \in RequestType
    BY <1>0, Late
  <2>2. req' = [req EXCEPT ![r] = [req[r] EXCEPT !.late = TRUE]]
    BY <1>5
  <2> QED BY <1>0, <2>1, <2>2, OneRequest
<1>6. CASE GiveUp \/ Restart
  <2>1. req' = req \/ (call \in Requests /\ req' = [req EXCEPT ![call].late = TRUE])
    BY <1>0, <1>6 DEF GiveUp, Restart
  <2> QED BY <1>0, <1>5, <2>1
<1>7. CASE CollectorRestart
  <2>1. \A r \in Requests : [NoRequest EXCEPT !.late = req[r].late] \in RequestType
    BY <1>a, Unused, Late
  <2> QED BY <1>0, <1>7, <2>1 DEF CollectorRestart
<1>8. ASSUME NEW r \in Requests, Lose(r) \/ Discard(r)
      PROVE  req' \in [Requests -> RequestType]
  <2>1. req' = [req EXCEPT ![r] = NoRequest]
    BY <1>8 DEF Lose, Discard
  <2> QED BY <1>0, <2>1, Unused, OneRequest
<1>9. ASSUME NEW r \in Requests, NEW st \in Statuses, Answer(r, st)
      PROVE  req' \in [Requests -> RequestType]
  <2> DEFINE v == IF st = 200 THEN minVersion ELSE NoVersion
             q == [req[r] EXCEPT !.pc = "answered", !.status = st, !.version = v]
  <2>1. v \in AnyVersion
    BY <1>0, Constants
  <2> HIDE DEF v
  <2>2. q \in RequestType
    BY <1>0, <2>1, Answered
  <2>3. req' = [req EXCEPT ![r] = q]
    BY <1>9 DEF Answer, v
  <2> QED BY <1>0, <2>2, <2>3, OneRequest
<1>10. ASSUME NEW r \in Requests, Refuse(r) \/ Save(r) \/ Fail(r)
       PROVE  req' \in [Requests -> RequestType]
  <2>1. \E st \in Statuses : Answer(r, st)
    BY <1>10, Words DEF Refuse, Save, Fail
  <2> QED BY <1>9, <2>1
<1>11. CASE UNCHANGED heartbeatVars
  BY <1>0, <1>11 DEF heartbeatVars
<1> QED
  BY <1>2, <1>3, <1>4, <1>6, <1>7, <1>8, <1>10, <1>11 DEF HeartbeatNext

(* ... and of the other variables. *)
LEMMA BeatTypeStep ==
    HeartbeatTypeOK /\ [HeartbeatNext]_heartbeatVars => HeartbeatTypeOK'
<1> SUFFICES ASSUME HeartbeatTypeOK, [HeartbeatNext]_heartbeatVars PROVE HeartbeatTypeOK'
  OBVIOUS
<1> DEFINE Others ==
      /\ call \in Requests \cup {NoCall}
      /\ lastHeartbeatAt \in Ages /\ lastHeartbeatError \in BOOLEAN
      /\ minSupportedVersion \in AnyVersion
      /\ row \in [age : Ages, late : BOOLEAN] /\ minVersion \in Versions /\ acked \in Ages
<1>1. req' \in [Requests -> RequestType]
  BY RequestsStep
<1>2. failures' \in 0..MaxFailures
  <2>1. failures' = failures \/ Failure
    BY DEF HeartbeatNext, SendHeartbeat, SendNameless, OnSuccess, OnFailure, GiveUp,
           Restart, CollectorRestart, Lose, Discard, Refuse, Save, Fail, heartbeatVars
  <2> QED BY <2>1, HeartbeatAssumption DEF HeartbeatTypeOK, Failure
<1>3. SUFFICES Others'
  BY <1>1, <1>2 DEF HeartbeatTypeOK, RequestType, States, Statuses, AnyVersion
<1>4. /\ Others /\ \A a \in Ages : Older(a) \in Ages
      /\ \A r \in Requests : /\ req[r].age \in Ages /\ req[r].late \in BOOLEAN
                             /\ req[r].version \in AnyVersion
  BY OlderMonotone DEF HeartbeatTypeOK, Ages, AnyVersion
<1> USE <1>4, Constants
<1>5. ASSUME NEW valid \in BOOLEAN, Beat(valid) PROVE Others'
  BY <1>5 DEF Beat
<1>6. CASE SendHeartbeat
  BY <1>5, <1>6 DEF SendHeartbeat
<1>7. CASE SendNameless
  BY <1>5, <1>7 DEF SendNameless
<1>8. CASE OnSuccess
  BY <1>8 DEF OnSuccess
<1>9. CASE OnFailure
  BY <1>9 DEF OnFailure
<1>10. CASE GiveUp
  BY <1>10 DEF GiveUp
<1>11. CASE Restart
  BY <1>11 DEF Restart
<1>12. CASE CollectorRestart
  BY <1>12 DEF CollectorRestart, agentVars
<1>13. ASSUME NEW r \in Requests, Lose(r) \/ Discard(r) \/ Refuse(r) PROVE Others'
  BY <1>13 DEF Lose, Discard, Refuse, agentVars
<1>14. ASSUME NEW r \in Requests, Save(r) \/ Fail(r) PROVE Others'
  BY <1>14 DEF Save, Fail, SaveHeartbeat, agentVars
<1>15. CASE UNCHANGED heartbeatVars
  BY <1>15 DEF heartbeatVars, agentVars
<1> QED
  BY <1>6, <1>7, <1>8, <1>9, <1>10, <1>11, <1>12, <1>13, <1>14, <1>15 DEF HeartbeatNext

(* Every step keeps the rest of the invariant. *)
LEMMA HeartbeatInvStep ==
    HeartbeatInv /\ [HeartbeatNext]_heartbeatVars => HeartbeatInv'
<1> SUFFICES ASSUME HeartbeatInv, [HeartbeatNext]_heartbeatVars PROVE HeartbeatInv'
  OBVIOUS
<1>0. HeartbeatTypeOK /\ HeartbeatTypeOK'
  BY BeatTypeStep DEF HeartbeatInv
<1> DEFINE Rest == OneCall /\ CallIsNewest /\ AnswerTrue /\ AckedShown
<1> SUFFICES Rest'
  BY <1>0 DEF HeartbeatInv
<1> USE <1>0, Constants DEF HeartbeatInv, HeartbeatTypeOK, OneCall, CallIsNewest, AnswerTrue,
                            AckedShown, InProgress, NoRequest
<1>1. ASSUME NEW valid \in BOOLEAN, Beat(valid) PROVE Rest'
  <2>1. row'.age = Older(row.age) /\ row'.late = row.late /\ acked' = Older(acked)
    BY <1>1 DEF Beat
  <2>2. AckedShown'
    BY <2>1, OlderMonotone DEF Ages
  <2>3. PICK r \in Requests :
          /\ call' = r /\ call = NoCall
          /\ req' = [s \in Requests |->
                       IF s = r THEN [NoRequest EXCEPT !.pc = "sent", !.age = 0, !.valid = valid]
                       ELSE [req[s] EXCEPT !.age = Older(@)]]
    BY <1>1 DEF Beat
  <2>4. req'[r].pc = "sent" /\ req'[r].age = 0 /\ req'[r].late = FALSE
    <3>1. req'[r] = [NoRequest EXCEPT !.pc = "sent", !.age = 0, !.valid = valid]
      BY <2>3
    <3> QED BY ONLY <3>1 DEF NoRequest
  <2>5. \A s \in Requests \ {r} : req'[s].pc = req[s].pc /\ req'[s].late = req[s].late
    BY <2>3
  <2>6. OneCall' /\ CallIsNewest' /\ AnswerTrue'
    BY <2>3, <2>4, <2>5
  <2> QED BY <2>2, <2>6
<1>2. CASE SendHeartbeat
  BY <1>1, <1>2 DEF SendHeartbeat
<1>3. CASE SendNameless
  BY <1>1, <1>3 DEF SendNameless
<1>4. CASE OnSuccess
  BY <1>4 DEF OnSuccess
<1>5. CASE OnFailure
  BY <1>5 DEF OnFailure
<1>6. CASE GiveUp
  BY <1>6 DEF GiveUp
<1>7. CASE Restart
  BY <1>7 DEF Restart
<1>8. CASE CollectorRestart
  BY <1>8 DEF CollectorRestart, agentVars
<1>9. ASSUME NEW r \in Requests, Lose(r) PROVE Rest'
  BY <1>9 DEF Lose, agentVars
<1>10. ASSUME NEW r \in Requests, Discard(r) PROVE Rest'
  BY <1>10 DEF Discard, agentVars
<1>11. ASSUME NEW r \in Requests, Refuse(r) PROVE Rest'
  BY <1>11 DEF Refuse, Answer, agentVars
<1>12. ASSUME NEW r \in Requests, Save(r) PROVE Rest'
  BY <1>12 DEF Save, Answer, SaveHeartbeat, agentVars, Ages
<1>13. ASSUME NEW r \in Requests, Fail(r) PROVE Rest'
  BY <1>13 DEF Fail, Answer, SaveHeartbeat, agentVars, Ages
<1>14. CASE UNCHANGED heartbeatVars
  BY <1>14 DEF heartbeatVars, agentVars
<1> QED
  BY <1>2, <1>3, <1>4, <1>5, <1>6, <1>7, <1>8, <1>9, <1>10, <1>11, <1>12, <1>13, <1>14
  DEF HeartbeatNext

-----------------------------------------------------------------------------
(* The inductive invariant of the heartbeats. *)
THEOREM HeartbeatInvariant == HeartbeatSpec => []HeartbeatInv
BY HeartbeatInvInit, HeartbeatInvStep, PTL DEF HeartbeatSpec

(* HeartbeatTypeOK: the agent notes no heartbeat that it has not sent.     *)
THEOREM HeartbeatTypes == HeartbeatSpec => []HeartbeatTypeOK
BY HeartbeatInvariant, PTL DEF HeartbeatInv

(* AckedShown of Heartbeat: SaveHeartbeat replaces an acknowledged         *)
(* heartbeat by an older one only if the agent has given that one up.      *)
THEOREM AckedIsShown == HeartbeatSpec => []AckedShown
BY HeartbeatInvariant, PTL DEF HeartbeatInv
=============================================================================
