-------------------------- MODULE ForwarderProofs --------------------------
(***************************************************************************)
(* ForwarderInv, BackoffPerBatch and CounterBounded for every batch size,  *)
(* interval, number of events and failures, width of an integer and list   *)
(* of backoff steps.                                                       *)
(*                                                                         *)
(* BackoffPerBatch is inductive.  That no wake-up is lost is not: a token  *)
(* may be missing while a batch is read or sent, and what makes up for it  *)
(* depends on whether the batch in hand is full (the loop reads again at   *)
(* once) or short (the lines that fill another batch came after it was     *)
(* read, and the call of Notify that counted the last of them has put a    *)
(* token into the channel, which only the wait takes out).  The bound on   *)
(* the counter needs the steps in between: a line that Notify has yet to   *)
(* count, and a batch that Run has yet to take off.                        *)
(***************************************************************************)
EXTENDS Forwarder, TLAPS

(* A batch in hand is in the spool. *)
BatchInSpool == fpc \in {"post", "backoff"} => sent + lines <= written

(* The loop is going to wait unless something wakes it up. *)
AboutToWait ==
    \/ fpc = "wait"
    \/ fpc = "top" /\ ~skipWait
    \/ fpc \in {"post", "backoff", "count", "store"} /\ lines < BatchSize

(* The lines that will be left when it waits. *)
Left == written - sent - (IF fpc \in {"post", "backoff"} THEN lines ELSE 0)

(* No wake-up is lost, from the moment a short batch is read. *)
WakeUpKept ==
    AboutToWait /\ ~readFailed /\ pending >= BatchSize /\ Left >= BatchSize
        => wake \/ rpc # "recv"

(* Lines in the spool that Notify has yet to count, and lines that have    *)
(* been sent and that Run has yet to take off.                             *)
ToAdd  == IF rpc = "notify" THEN 1 ELSE 0
ToTake == IF fpc = "count" THEN lines ELSE 0

(* The counter, were they counted, is at most one ahead, and it is only    *)
(* negative until it is set to zero.                                       *)
CounterKept ==
    /\ pending + ToAdd - ToTake <= written - sent + 1
    /\ fpc # "store" => pending >= 0

ForwarderIInv == TypeOK /\ BatchInSpool /\ WakeUpKept /\ BackoffPerBatch /\ CounterKept

-----------------------------------------------------------------------------
(* The smaller of two integers. *)
LEMMA MinIsOne ==
    ASSUME NEW a \in Int, NEW b \in Int
    PROVE  Min({a, b}) = IF a <= b THEN a ELSE b
<1>1. \E x \in {a, b} : \A y \in {a, b} : x <= y
  OBVIOUS
<1>2. Min({a, b}) \in {a, b} /\ Min({a, b}) <= a /\ Min({a, b}) <= b
  BY <1>1 DEF Min
<1> QED BY <1>2

(* What the assumption says of the constants. *)
LEMMA Constants ==
    /\ BatchSize \in Nat /\ BatchSize > 0 /\ Interval \in Nat /\ Interval > 0
    /\ Backlog \in Nat /\ MaxEvents \in Nat /\ MaxFailures \in Nat
    /\ Len(BackoffSteps) \in Nat /\ Len(BackoffSteps) > 0
    /\ \A i \in 1..Len(BackoffSteps) : BackoffSteps[i] \in Nat
    /\ RetryAfters \subseteq Nat /\ NoHeader \notin Nat
    /\ HalfRange \in Nat /\ HalfRange > 0 /\ Second \in Nat /\ MaxRetryAfter \in Nat
BY ForwarderAssumption

(* The size of the batch that can be read. *)
LEMMA ReadyIs ==
    ASSUME TypeOK
    PROVE  /\ Ready \in Nat /\ Ready <= BatchSize /\ Ready <= written - sent
           /\ Ready = BatchSize \/ Ready = written - sent
<1>1. BatchSize \in Int /\ written - sent \in Int /\ written - sent >= 0 /\ BatchSize > 0
  BY Constants DEF TypeOK
<1>2. Ready = IF BatchSize <= written - sent THEN BatchSize ELSE written - sent
  BY <1>1, MinIsOne, Zenon DEF Ready
<1> QED BY <1>1, <1>2

(* A product of two naturals is a natural, and what it wraps to an integer.*)
LEMMA WrapInt ==
    ASSUME NEW n \in Nat
    PROVE  Wrap(n) \in Int
<1>1. (n + HalfRange) % (2 * HalfRange) \in Int
  BY Constants
<1> QED BY <1>1, Constants DEF Wrap

(* A number below the range stays what it is, one above it, by less than   *)
(* the range, is off by twice the range.                                   *)
LEMMA WrapOnce ==
    ASSUME NEW n \in Nat
    PROVE  /\ n < HalfRange => Wrap(n) = n
           /\ HalfRange <= n /\ n < 2 * HalfRange => Wrap(n) = n - 2 * HalfRange
<1>1. ASSUME n < HalfRange
      PROVE  Wrap(n) = n
  <2>1. (n + HalfRange) % (2 * HalfRange) = n + HalfRange
    BY <1>1, Constants
  <2> QED BY <2>1, Constants DEF Wrap
<1>2. ASSUME HalfRange <= n, n < 2 * HalfRange
      PROVE  Wrap(n) = n - 2 * HalfRange
  <2>1. (n + HalfRange) % (2 * HalfRange) = n - HalfRange
    BY <1>2, Constants
  <2> QED BY <2>1, Constants DEF Wrap
<1> QED BY <1>1, <1>2

(* The delay that an answer 429 asks for. *)
LEMMA RetryAfterIs ==
    ASSUME NEW secs \in Nat
    PROVE  RetryAfter(secs) \in Int
<1>1. secs * Second \in Nat /\ MaxRetryAfter \in Int
  BY Constants
<1>2. Wrap(secs * Second) \in Int
  BY <1>1, WrapInt
<1> QED BY <1>1, <1>2, MinIsOne DEF RetryAfter

(* One step of the backoff. *)
LEMMA BackoffIs ==
    ASSUME TypeOK, Backoff
    PROVE  /\ attempt' \in 0..Len(BackoffSteps) /\ delay' \in Int
<1> DEFINE n == attempt + 1
           m == Len(BackoffSteps)
<1>1. n \in Int /\ m \in Int /\ n >= 1 /\ m >= 1
  BY Constants DEF TypeOK
<1>2. Min({n, m}) = IF n <= m THEN n ELSE m
  <2> HIDE DEF n, m
  <2> QED BY <1>1, MinIsOne
<1>3. Min({n, m}) \in 1..m
  <2> HIDE DEF n, m
  <2> QED BY <1>1, <1>2
<1>4. BackoffSteps[Min({n, m})] \in Nat
  BY <1>3, Constants
<1> QED BY <1>3, <1>4 DEF Backoff, NextDelay

(* What Run does after a delivery. *)
LEMMA CountIs ==
    ASSUME Count, skipWait \in BOOLEAN, lines \in Nat, pending \in Int
    PROVE  /\ fpc' = "store" \/ (fpc' = "top" /\ (~skipWait' => lines # BatchSize))
           /\ skipWait' \in BOOLEAN
           /\ elapsed' = elapsed \/ elapsed' = 0
           /\ pending' \in Int /\ pending' <= pending
<1>1. pending' \in Int /\ pending' <= pending
  BY DEF Count
<1>2. CASE pending - lines < 0
  BY <1>1, <1>2, Zenon DEF Count
<1>3. CASE ~(pending - lines < 0)
  BY <1>1, <1>3, Zenon DEF Count, AfterDeliver
<1> QED BY <1>2, <1>3

-----------------------------------------------------------------------------
(* The invariant holds when the agent starts. *)
LEMMA InitInv == Init => ForwarderIInv
<1> SUFFICES ASSUME Init PROVE ForwarderIInv
  OBVIOUS
<1>1. TypeOK
  <2>1. /\ wake \in BOOLEAN /\ startup \in BOOLEAN /\ skipWait \in BOOLEAN
        /\ cancelled \in BOOLEAN /\ readFailed \in BOOLEAN
    BY DEF Init
  <2>2. /\ written \in Backlog..(Backlog + MaxEvents) /\ pending \in Int
        /\ sent \in 0..written /\ lines \in 0..BatchSize /\ elapsed \in 0..Interval
        /\ attempt \in 0..Len(BackoffSteps) /\ delay \in Int /\ failures \in 0..MaxFailures
    BY Constants DEF Init
  <2> QED BY <2>1, <2>2 DEF Init, TypeOK
<1>2. BatchInSpool /\ WakeUpKept /\ BackoffPerBatch
  BY DEF Init, BatchInSpool, WakeUpKept, AboutToWait, BackoffPerBatch
<1>3. CounterKept
  BY Constants DEF Init, CounterKept, ToAdd, ToTake
<1> QED BY <1>1, <1>2, <1>3 DEF ForwarderIInv

(* Every step keeps the types, and a batch in the spool. *)
LEMMA TypeStep ==
    ASSUME TypeOK, BatchInSpool, [Next]_vars
    PROVE  TypeOK' /\ BatchInSpool'
<1> USE Constants DEF TypeOK, BatchInSpool, histVars
<1>1. CASE Receive
  BY <1>1 DEF Receive, sharedVars, loopVars, retryVars
<1>2. CASE NotifyAdd
  BY <1>2 DEF NotifyAdd, loopVars, retryVars
<1>3. CASE NotifySignal
  BY <1>3 DEF NotifySignal, loopVars, retryVars
<1>4. CASE Top
  BY <1>4 DEF Top, GoRead, receiverVars, sharedVars, retryVars
<1>5. CASE Timeout
  BY <1>5 DEF Timeout, GoRead, receiverVars, sharedVars, retryVars
<1>6. CASE WokenUp
  BY <1>6 DEF WokenUp, GoRead, receiverVars, retryVars
<1>7. CASE StopForwarder
  BY <1>7 DEF StopForwarder, receiverVars, sharedVars, loopVars, retryVars
<1>8. CASE ReadBatch
  <2>1. lines' \in 0..BatchSize /\ sent' + lines' <= written'
    BY <1>8, ReadyIs DEF ReadBatch, receiverVars
  <2> QED BY <1>8, <2>1 DEF ReadBatch, receiverVars, sharedVars, retryVars
<1>9. CASE ReadNothing
  <2>1. elapsed' \in 0..Interval
    BY <1>9 DEF ReadNothing
  <2> QED BY <1>9, <2>1 DEF ReadNothing, receiverVars, sharedVars, retryVars
<1>10. CASE Count
  <2>1. /\ fpc' \in {"top", "store"} /\ skipWait' \in BOOLEAN /\ elapsed' \in 0..Interval
    BY <1>10, CountIs
  <2> QED BY <1>10, <2>1 DEF Count, receiverVars, retryVars
<1>11. CASE StoreZero
  BY <1>11 DEF StoreZero, AfterDeliver, receiverVars, retryVars
<1>12. CASE Delivered \/ DeadLettered
  BY <1>12 DEF Delivered, DeadLettered, Reset, receiverVars, sharedVars
<1>13. CASE TryAgain
  BY <1>13 DEF TryAgain, receiverVars, sharedVars, loopVars, retryVars
<1>14. CASE ReadFails
  BY <1>14 DEF ReadFails, Failure, receiverVars, sharedVars, retryVars
<1>15. CASE AttemptFails
  BY <1>15, BackoffIs DEF AttemptFails, Failure, receiverVars, sharedVars, loopVars
<1>16. CASE TooManyRequests
  <2>1. attempt' \in 0..Len(BackoffSteps) /\ delay' \in Int
    BY <1>16, BackoffIs, RetryAfterIs DEF TooManyRequests
  <2> QED BY <1>16, <2>1 DEF TooManyRequests, Failure, receiverVars, sharedVars, loopVars
<1>17. CASE Tick
  BY <1>17 DEF Tick, receiverVars, sharedVars, retryVars
<1>18. CASE Cancel
  BY <1>18 DEF Cancel, receiverVars, sharedVars, loopVars, retryVars
<1>19. CASE UNCHANGED vars
  BY <1>19 DEF vars, receiverVars, sharedVars, loopVars, retryVars
<1> QED
  BY <1>1, <1>2, <1>3, <1>4, <1>5, <1>6, <1>7, <1>8, <1>9, <1>10, <1>11, <1>12, <1>13, <1>14,
     <1>15, <1>16, <1>17, <1>18, <1>19 DEF Next, Receiver, Run

(* No step loses a wake-up. *)
LEMMA WakeUpStep ==
    ASSUME TypeOK, BatchInSpool, WakeUpKept, [Next]_vars
    PROVE  WakeUpKept'
<1>0. /\ BatchSize \in Nat /\ BatchSize > 0 /\ written \in Nat /\ sent \in Nat /\ lines \in Nat
      /\ pending \in Int /\ readFailed \in BOOLEAN /\ sent <= written /\ rpc \in {"recv", "notify", "signal"}
  BY Constants DEF TypeOK
<1> USE <1>0 DEF WakeUpKept, AboutToWait, Left, histVars
<1>1. CASE Receive
  BY <1>1 DEF Receive
<1>2. CASE NotifyAdd
  BY <1>2 DEF NotifyAdd, IsFull, loopVars
<1>3. CASE NotifySignal
  BY <1>3 DEF NotifySignal
<1>4. CASE Top
  BY <1>4 DEF Top, GoRead, receiverVars, sharedVars
<1>5. CASE Timeout \/ WokenUp
  BY <1>5 DEF Timeout, WokenUp, GoRead
<1>6. CASE StopForwarder
  BY <1>6 DEF StopForwarder
<1>7. CASE ReadBatch
  BY <1>7, ReadyIs DEF ReadBatch, receiverVars
<1>8. CASE ReadNothing
  BY <1>8, ReadyIs DEF ReadNothing, receiverVars
<1>9. CASE Count
  <2>1. /\ fpc' = "store" \/ (fpc' = "top" /\ (~skipWait' => lines # BatchSize))
        /\ pending' \in Int /\ pending' <= pending
    BY <1>9, CountIs DEF TypeOK
  <2>2. UNCHANGED <<rpc, written, wake, sent, lines, readFailed>> /\ fpc = "count"
    BY <1>9 DEF Count, receiverVars
  <2>3. lines <= BatchSize
    BY DEF TypeOK
  <2> QED BY <2>1, <2>2, <2>3
<1>10. CASE StoreZero
  BY <1>10 DEF StoreZero, AfterDeliver
<1>11. CASE Delivered \/ DeadLettered
  BY <1>11 DEF Delivered, DeadLettered, receiverVars, sharedVars
<1>12. CASE TryAgain
  BY <1>12 DEF TryAgain, receiverVars, sharedVars, loopVars
<1>13. CASE ReadFails
  BY <1>13 DEF ReadFails
<1>17. CASE AttemptFails \/ TooManyRequests
  <2>1. /\ fpc = "post" /\ fpc' = "backoff"
        /\ UNCHANGED <<rpc, written, pending, wake, sent, lines, readFailed>>
    BY <1>17 DEF AttemptFails, TooManyRequests, receiverVars, sharedVars, loopVars
  <2> QED BY <2>1
<1>14. CASE Tick
  BY <1>14 DEF Tick, receiverVars, sharedVars
<1>15. CASE Cancel
  BY <1>15 DEF Cancel, receiverVars, sharedVars, loopVars
<1>16. CASE UNCHANGED vars
  BY <1>16 DEF vars, receiverVars, sharedVars, loopVars
<1> QED
  BY <1>1, <1>2, <1>3, <1>4, <1>5, <1>6, <1>7, <1>8, <1>9, <1>10, <1>11, <1>12, <1>13, <1>14,
     <1>15, <1>16, <1>17 DEF Next, Receiver, Run

(* Only the delivery of a batch has an attempt to count. *)
LEMMA BackoffStep ==
    ASSUME TypeOK, BackoffPerBatch, [Next]_vars
    PROVE  BackoffPerBatch'
<1> USE DEF BackoffPerBatch
<1>1. CASE Receiver \/ Tick \/ Cancel
  <2>1. UNCHANGED <<fpc, retryVars>>
    BY <1>1 DEF Receiver, Receive, NotifyAdd, NotifySignal, Tick, Cancel
  <2> QED BY <2>1 DEF retryVars
<1>2. CASE \/ Top \/ Timeout \/ WokenUp \/ ReadBatch \/ ReadNothing \/ Count \/ StoreZero
           \/ ReadFails
  <2>1. UNCHANGED retryVars /\ attempt = 0
    BY <1>2 DEF Top, Timeout, WokenUp, ReadBatch, ReadNothing, Count, StoreZero, ReadFails, retryVars
  <2> QED BY <2>1 DEF retryVars
<1>3. CASE StopForwarder \/ TryAgain \/ AttemptFails \/ TooManyRequests
  <2>1. fpc' \in {"stopped", "post", "backoff"}
    BY <1>3 DEF StopForwarder, TryAgain, AttemptFails, TooManyRequests
  <2> QED BY <2>1
<1>4. CASE Delivered \/ DeadLettered
  BY <1>4 DEF Delivered, DeadLettered, Reset
<1>5. CASE UNCHANGED vars
  BY <1>5 DEF vars, retryVars
<1> QED BY <1>1, <1>2, <1>3, <1>4, <1>5 DEF Next, Run

(* The counter and the lines left change together, once the steps in       *)
(* between are allowed for; a correction to zero only brings it down to    *)
(* what the bound has room for.                                            *)
LEMMA CounterStep ==
    ASSUME TypeOK, BatchInSpool, CounterKept, [Next]_vars
    PROVE  CounterKept'
<1>0. /\ written \in Nat /\ sent \in Nat /\ lines \in Nat /\ pending \in Int /\ sent <= written
  BY Constants DEF TypeOK
<1> USE <1>0 DEF CounterKept, ToAdd, ToTake
<1>1. CASE Receive
  BY <1>1 DEF Receive, sharedVars, loopVars
<1>2. CASE NotifyAdd
  <2>1. /\ rpc = "notify" /\ rpc' # "notify" /\ pending' = pending + 1
        /\ UNCHANGED <<written, fpc, sent, lines>>
    BY <1>2 DEF NotifyAdd, loopVars
  <2> QED BY <2>1
<1>3. CASE NotifySignal
  BY <1>3 DEF NotifySignal, loopVars
<1>4. CASE Top \/ Timeout \/ WokenUp \/ StopForwarder \/ TryAgain \/ ReadFails \/ ReadNothing
  <2>1. UNCHANGED <<rpc, written, pending, sent, lines>>
    BY <1>4 DEF Top, Timeout, WokenUp, StopForwarder, TryAgain, ReadFails, ReadNothing,
                receiverVars, sharedVars, loopVars
  <2>2. fpc \notin {"count", "store"} /\ fpc' \notin {"count", "store"}
    BY <1>4 DEF Top, Timeout, WokenUp, StopForwarder, TryAgain, ReadFails, ReadNothing, GoRead
  <2> QED BY <2>1, <2>2
<1>5. CASE ReadBatch
  BY <1>5 DEF ReadBatch, receiverVars, sharedVars
<1>6. CASE Count
  <2>1. /\ fpc = "count" /\ pending' = pending - lines
        /\ UNCHANGED <<rpc, written, sent, lines>>
    BY <1>6 DEF Count, receiverVars
  <2>2. IF pending - lines < 0 THEN fpc' = "store" ELSE fpc' = "top"
    BY <1>6 DEF Count, AfterDeliver
  <2> QED BY <2>1, <2>2
<1>7. CASE StoreZero
  BY <1>7 DEF StoreZero, AfterDeliver, receiverVars
<1>8. CASE Delivered \/ DeadLettered
  <2>1. /\ fpc = "post" /\ fpc' = "count" /\ sent' = sent + lines
        /\ UNCHANGED <<rpc, written, pending, lines>>
    BY <1>8 DEF Delivered, DeadLettered, receiverVars, sharedVars
  <2> QED BY <2>1
<1>9. CASE AttemptFails \/ TooManyRequests
  <2>1. /\ fpc = "post" /\ fpc' = "backoff"
        /\ UNCHANGED <<rpc, written, pending, sent, lines>>
    BY <1>9 DEF AttemptFails, TooManyRequests, receiverVars, sharedVars, loopVars
  <2> QED BY <2>1
<1>10. CASE Tick \/ Cancel
  <2>1. UNCHANGED <<rpc, written, pending, fpc, sent, lines>>
    BY <1>10 DEF Tick, Cancel, receiverVars, sharedVars, loopVars
  <2> QED BY <2>1
<1>11. CASE UNCHANGED vars
  BY <1>11 DEF vars, receiverVars, sharedVars, loopVars
<1> QED
  BY <1>1, <1>2, <1>3, <1>4, <1>5, <1>6, <1>7, <1>8, <1>9, <1>10, <1>11 DEF Next, Receiver, Run

-----------------------------------------------------------------------------
(* The invariant is inductive. *)
LEMMA ForwarderInductive == Spec => []ForwarderIInv
<1>1. ForwarderIInv /\ [Next]_vars => ForwarderIInv'
  BY TypeStep, WakeUpStep, BackoffStep, CounterStep DEF ForwarderIInv
<1> QED BY <1>1, InitInv, PTL DEF Spec

(* No interleaving of Notify and Run loses a wake-up: while the loop waits *)
(* with a full batch that the counter knows of, a token is or will be in   *)
(* the channel, unless the last read has failed; and no more is sent than  *)
(* has been written.                                                       *)
THEOREM WakeUpNeverLost == Spec => []ForwarderInv
<1>1. ForwarderIInv => ForwarderInv
  <2> SUFFICES ASSUME ForwarderIInv PROVE ForwarderInv
    OBVIOUS
  <2>1. TypeOK /\ WakeUpKept
    BY DEF ForwarderIInv
  <2>2. NoLostWakeUp
    <3>1. written - sent \in Int
      BY <2>1, Constants DEF TypeOK
    <3> QED BY <2>1, <3>1 DEF NoLostWakeUp, WakeUpKept, AboutToWait, Left
  <2> QED BY <2>1, <2>2 DEF ForwarderInv
<1> QED BY <1>1, ForwarderInductive, PTL

(* Each batch starts with the shortest delay. *)
THEOREM BackoffStartsAnew == Spec => []BackoffPerBatch
<1>1. ForwarderIInv => BackoffPerBatch
  BY DEF ForwarderIInv
<1> QED BY <1>1, ForwarderInductive, PTL

(* Between two batches the counter is never negative and at most one ahead *)
(* of the lines in the spool, however Notify, Add and Store interleave.    *)
THEOREM CounterNeverRunsAway == Spec => []CounterBounded
<1>1. ForwarderIInv => CounterBounded
  <2> SUFFICES ASSUME ForwarderIInv PROVE CounterBounded
    OBVIOUS
  <2>1. TypeOK /\ CounterKept
    BY DEF ForwarderIInv
  <2>2. written \in Nat /\ sent \in Nat /\ pending \in Int
    BY <2>1, Constants DEF TypeOK
  <2> QED BY <2>1, <2>2 DEF CounterBounded, CounterKept, ToAdd, ToTake
<1> QED BY <1>1, ForwarderInductive, PTL

(* The delay that Retry-After asks for is never above an hour, and it is   *)
(* what is asked for as long as that fits into a Duration; but a number of *)
(* seconds that does not fit, up to twice the range, gives a negative      *)
(* delay, so that deliver posts again at once.                             *)
THEOREM RetryAfterOverflows ==
    ASSUME NEW secs \in Nat
    PROVE  /\ RetryAfter(secs) <= MaxRetryAfter
           /\ secs * Second < HalfRange
                => RetryAfter(secs) = Min({secs * Second, MaxRetryAfter})
           /\ HalfRange <= secs * Second /\ secs * Second < 2 * HalfRange
                => RetryAfter(secs) < 0
<1> DEFINE n == secs * Second
           w == Wrap(secs * Second)
<1>1. n \in Nat /\ w \in Int /\ MaxRetryAfter \in Nat
  BY Constants, WrapInt
<1>2. RetryAfter(secs) = IF w <= MaxRetryAfter THEN w ELSE MaxRetryAfter
  <2>1. RetryAfter(secs) = Min({w, MaxRetryAfter})
    BY DEF RetryAfter
  <2> QED BY <2>1, <1>1, MinIsOne
<1>3. /\ n < HalfRange => w = n
      /\ HalfRange <= n /\ n < 2 * HalfRange => w = n - 2 * HalfRange
  BY <1>1, WrapOnce
<1>4. Min({n, MaxRetryAfter}) = IF n <= MaxRetryAfter THEN n ELSE MaxRetryAfter
  BY <1>1, MinIsOne
<1> HIDE DEF n, w
<1>5. HalfRange <= n /\ n < 2 * HalfRange => w < 0
  BY <1>1, <1>3, Constants
<1> QED BY <1>1, <1>2, <1>3, <1>4, <1>5 DEF n
=============================================================================
