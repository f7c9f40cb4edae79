----------------------------- MODULE Forwarder -----------------------------
(***************************************************************************)
(* The forwarder's loop (internal/agent/forwarder.go: Run, Notify, deliver *)
(* and backoff.go) and the receiver that wakes it up.                      *)
(*                                                                         *)
(* Receiver and forwarder share the counter pending and the channel wake   *)
(* and nothing else; each atomic operation on them is a step.  The loop    *)
(* waits for the batch interval or for a wake-up, whichever comes first.   *)
(*                                                                         *)
(* Abstractions.  The spool is the number of lines written and of lines    *)
(* sent.  Of the clock only the time since lastSend matters, up to the     *)
(* interval.  Jitter is left out: a delay is the step it is derived from.  *)
(***************************************************************************)
EXTENDS Integers, Sequences, FiniteSetsExt

CONSTANTS
    BatchSize,     \* forwarder.batch_size
    Interval,      \* forwarder.batch_interval
    Backlog,       \* lines the spool holds when the agent starts
    MaxEvents,     \* bound: events received
    MaxFailures,   \* bound: failed reads and attempts
    BackoffSteps,  \* backoffSteps, in units of a duration
    RetryAfters,   \* the values of the header in answers 429
    NoHeader,      \* no Retry-After, or one that cannot be parsed
    HalfRange,     \* a signed integer is less than this (2^63 in the code)
    Second,        \* units of a duration in a second (10^9 in the code)
    MaxRetryAfter  \* maxRetryAfter

ASSUME ForwarderAssumption ==
    /\ BatchSize \in Nat \ {0} /\ Interval \in Nat \ {0}
    /\ Backlog \in Nat /\ MaxEvents \in Nat /\ MaxFailures \in Nat
    /\ BackoffSteps \in Seq(Nat) /\ BackoffSteps # << >>
    /\ RetryAfters \subseteq Nat /\ NoHeader \notin Nat
    /\ HalfRange \in Nat \ {0} /\ Second \in Nat /\ MaxRetryAfter \in Nat

VARIABLES
    rpc,        \* receiver: "recv", "notify", "signal"
    written,    \* lines in the spool
    pending,    \* f.pending
    wake,       \* f.wake holds a token
    fpc,        \* forwarder: "top", "wait", "read", "post", "backoff", "count", "store", "stopped"
    sent,       \* lines that have been committed
    lines,      \* size of the batch in hand
    elapsed,    \* now - lastSend, up to Interval
    startup, skipWait,
    attempt,    \* backoff.attempt, up to Len(BackoffSteps)
    delay,      \* what deliver waits for
    cancelled,  \* ctx is done
    failures,   \* history: failures so far
    readFailed  \* history: the last read of the spool failed

receiverVars == <<rpc, written>>
sharedVars   == <<pending, wake>>
loopVars     == <<sent, lines, elapsed, startup, skipWait>>
retryVars    == <<attempt, delay>>
histVars     == <<failures, readFailed>>
vars == <<receiverVars, sharedVars, fpc, loopVars, retryVars, cancelled, histVars>>

Init ==
    /\ rpc = "recv" /\ written = Backlog
    /\ pending = 0 /\ wake = FALSE
    /\ fpc = "top" /\ sent = 0 /\ lines = 0 /\ elapsed = 0
    /\ startup = TRUE /\ skipWait = TRUE
    /\ attempt = 0 /\ delay = 0
    /\ cancelled = FALSE /\ failures = 0 /\ readFailed = FALSE

Failure == failures < MaxFailures /\ failures' = failures + 1

-----------------------------------------------------------------------------
(***************************************************************************)
(* Receiver                                                                *)
(***************************************************************************)

(* runReceiver: the line is in the spool, then Notify is called. *)
Receive ==
    /\ rpc = "recv" /\ ~cancelled /\ written < Backlog + MaxEvents
    /\ written' = written + 1
    /\ rpc' = "notify"
    /\ UNCHANGED <<sharedVars, fpc, loopVars, retryVars, cancelled, histVars>>

(* Mutant of IsFull: one event more than a batch is needed. *)
IsFullExceeded(n) == n > BatchSize

IsFull(n) == n >= BatchSize

(* Notify: pending.Add(1) ... *)
NotifyAdd ==
    /\ rpc = "notify"
    /\ pending' = pending + 1
    /\ rpc' = IF IsFull(pending + 1) THEN "signal" ELSE "recv"
    /\ UNCHANGED <<written, wake, fpc, loopVars, retryVars, cancelled, histVars>>

(* ... and the send that does not block: a full channel stays full. *)
NotifySignal ==
    /\ rpc = "signal"
    /\ wake' = TRUE
    /\ rpc' = "recv"
    /\ UNCHANGED <<written, pending, fpc, loopVars, retryVars, cancelled, histVars>>

-----------------------------------------------------------------------------
(***************************************************************************)
(* Run                                                                     *)
(***************************************************************************)
Due == elapsed >= Interval

GoRead ==
    /\ fpc' = IF cancelled THEN "stopped" ELSE "read"
    /\ skipWait' = IF cancelled THEN skipWait ELSE FALSE

(* The head of the loop: wait only if the interval is not over. *)
Top ==
    /\ fpc = "top"
    /\ IF ~skipWait /\ ~Due
       THEN fpc' = "wait" /\ UNCHANGED skipWait
       ELSE GoRead
    /\ UNCHANGED <<receiverVars, sharedVars, sent, lines, elapsed, startup, retryVars,
                   cancelled, histVars>>

(* Mutant of Timeout: only wake-ups end the wait. *)
TimeoutNever == FALSE

(* The select: the interval is over, ... *)
Timeout ==
    /\ fpc = "wait" /\ Due
    /\ GoRead
    /\ UNCHANGED <<receiverVars, sharedVars, sent, lines, elapsed, startup, retryVars,
                   cancelled, histVars>>

(* ... a wake-up, ... *)
WokenUp ==
    /\ fpc = "wait" /\ wake
    /\ wake' = FALSE
    /\ GoRead
    /\ UNCHANGED <<receiverVars, pending, sent, lines, elapsed, startup, retryVars, cancelled,
                   histVars>>

(* Mutant of StopForwarder: deliver does not look at the context. *)
StopOnlyWaiting ==
    /\ fpc = "wait" /\ cancelled
    /\ fpc' = "stopped"
    /\ UNCHANGED <<receiverVars, sharedVars, loopVars, retryVars, cancelled, histVars>>

(* ... or the end of the context; deliver has the same select for its      *)
(* delay, and looks at the context after every attempt.                    *)
StopForwarder ==
    /\ fpc \in {"wait", "backoff", "post"} /\ cancelled
    /\ fpc' = "stopped"
    /\ UNCHANGED <<receiverVars, sharedVars, loopVars, retryVars, cancelled, histVars>>

Ready == Min({BatchSize, written - sent})

(* ReadReadyBatch returns a batch: a full one, or a short one when the     *)
(* interval is over or at startup, ...                                     *)
ReadBatch ==
    /\ fpc = "read" /\ Ready > 0
    /\ Ready = BatchSize \/ Due \/ startup
    /\ lines' = Ready
    /\ startup' = FALSE /\ readFailed' = FALSE
    /\ fpc' = "post"
    /\ UNCHANGED <<receiverVars, sharedVars, sent, elapsed, skipWait, retryVars, cancelled,
                   failures>>

(* ... or none, ... *)
ReadNothing ==
    /\ fpc = "read"
    /\ Ready = 0 \/ ~(Ready = BatchSize \/ Due \/ startup)
    /\ elapsed' = IF Due THEN 0 ELSE elapsed
    /\ startup' = FALSE /\ readFailed' = FALSE
    /\ fpc' = "top"
    /\ UNCHANGED <<receiverVars, sharedVars, sent, lines, skipWait, retryVars, cancelled,
                   failures>>

(* ... or an error. *)
ReadFails ==
    /\ Failure /\ readFailed' = TRUE
    /\ fpc = "read"
    /\ elapsed' = 0
    /\ fpc' = "top"
    /\ UNCHANGED <<receiverVars, sharedVars, sent, lines, startup, skipWait, retryVars,
                   cancelled>>

(* Run after deliver: pending.Add(-len(lines)), and a negative counter is  *)
(* set to zero by a second operation.                                      *)
AfterDeliver == /\ elapsed' = 0
                /\ skipWait' = (lines = BatchSize)
                /\ fpc' = "top"

(* Mutant of Count: a negative counter is left as it is. *)
CountNegative ==
    /\ fpc = "count"
    /\ pending' = pending - lines
    /\ AfterDeliver
    /\ UNCHANGED <<receiverVars, wake, sent, lines, startup, retryVars, cancelled, histVars>>

Count ==
    /\ fpc = "count"
    /\ pending' = pending - lines
    /\ IF pending - lines < 0
       THEN fpc' = "store" /\ UNCHANGED <<elapsed, skipWait>>
       ELSE AfterDeliver
    /\ UNCHANGED <<receiverVars, wake, sent, lines, startup, retryVars, cancelled, histVars>>

StoreZero ==
    /\ fpc = "store"
    /\ pending' = 0
    /\ AfterDeliver
    /\ UNCHANGED <<receiverVars, wake, sent, lines, startup, retryVars, cancelled, histVars>>

-----------------------------------------------------------------------------
(***************************************************************************)
(* deliver                                                                 *)
(***************************************************************************)

(* The Backoff: Next returns the step of the attempt and counts it, ...    *)
NextDelay == BackoffSteps[Min({attempt + 1, Len(BackoffSteps)})]
Backoff ==
    /\ delay' = NextDelay
    /\ attempt' = Min({attempt + 1, Len(BackoffSteps)})

(* ... and Reset starts again. *)
Reset == attempt' = 0 /\ delay' = 0

(* Signed arithmetic wraps around. *)
Wrap(n) == ((n + HalfRange) % (2 * HalfRange)) - HalfRange

(* parseRetryAfter for a number of seconds: the product wraps around       *)
(* before it is compared with the cap.                                     *)
RetryAfter(secs) == Min({Wrap(secs * Second), MaxRetryAfter})

(* 2xx: Commit, and deliver returns. *)
Delivered ==
    /\ fpc = "post" /\ ~cancelled
    /\ sent' = sent + lines
    /\ Reset
    /\ fpc' = "count"
    /\ UNCHANGED <<receiverVars, sharedVars, lines, elapsed, startup, skipWait, cancelled,
                   histVars>>

(* Mutant of DeadLettered: the backoff is not reset. *)
DeadLetteredNoReset ==
    /\ fpc = "post" /\ ~cancelled
    /\ sent' = sent + lines
    /\ fpc' = "count"
    /\ UNCHANGED <<receiverVars, sharedVars, lines, elapsed, startup, skipWait, retryVars,
                   cancelled, histVars>>

(* Another 4xx, and the dead letter is written: Commit, and deliver        *)
(* returns as if the batch had been stored.                                *)
DeadLettered ==
    /\ fpc = "post" /\ ~cancelled
    /\ sent' = sent + lines
    /\ Reset
    /\ fpc' = "count"
    /\ UNCHANGED <<receiverVars, sharedVars, lines, elapsed, startup, skipWait, cancelled,
                   histVars>>

(* No connection, 5xx, or the dead letter cannot be written. *)
AttemptFails ==
    /\ Failure
    /\ fpc = "post" /\ ~cancelled
    /\ Backoff
    /\ fpc' = "backoff"
    /\ UNCHANGED <<receiverVars, sharedVars, loopVars, cancelled, readFailed>>

(* 429: the delay is what the collector asks for, if it asks. *)
TooManyRequests ==
    /\ Failure
    /\ fpc = "post" /\ ~cancelled
    /\ \E secs \in RetryAfters \cup {NoHeader} :
         IF secs = NoHeader
         THEN Backoff
         ELSE delay' = RetryAfter(secs) /\ UNCHANGED attempt
    /\ fpc' = "backoff"
    /\ UNCHANGED <<receiverVars, sharedVars, loopVars, cancelled, readFailed>>

(* The delay is over. *)
TryAgain ==
    /\ fpc = "backoff"
    /\ fpc' = "post"
    /\ UNCHANGED <<receiverVars, sharedVars, loopVars, retryVars, cancelled, histVars>>

-----------------------------------------------------------------------------
Tick ==
    /\ elapsed < Interval
    /\ elapsed' = elapsed + 1
    /\ UNCHANGED <<receiverVars, sharedVars, fpc, sent, lines, startup, skipWait, retryVars,
                   cancelled, histVars>>

(* The service is stopped. *)
Cancel ==
    /\ ~cancelled
    /\ cancelled' = TRUE
    /\ UNCHANGED <<receiverVars, sharedVars, fpc, loopVars, retryVars, histVars>>

Receiver == Receive \/ NotifyAdd \/ NotifySignal

Run == \/ Top \/ Timeout \/ WokenUp \/ StopForwarder \/ ReadBatch \/ ReadNothing \/ Count
       \/ StoreZero \/ Delivered \/ DeadLettered \/ TryAgain

Next == Receiver \/ Run \/ ReadFails \/ AttemptFails \/ TooManyRequests \/ Tick \/ Cancel

(* The forwarder is scheduled, time passes and a call of Notify returns;   *)
(* nothing is assumed of further events, of failures or of a stop.         *)
Fairness == /\ WF_vars(Run) /\ WF_vars(Tick)
            /\ WF_vars(NotifyAdd \/ NotifySignal)

Spec == Init /\ [][Next]_vars /\ Fairness

-----------------------------------------------------------------------------
(***************************************************************************)
(* Properties                                                              *)
(***************************************************************************)

(* Every variable has its type; no more is sent than has been written.     *)
TypeOK ==
    /\ rpc \in {"recv", "notify", "signal"}
    /\ written \in Backlog..(Backlog + MaxEvents)
    /\ pending \in Int /\ wake \in BOOLEAN
    /\ fpc \in {"top", "wait", "read", "post", "backoff", "count", "store", "stopped"}
    /\ sent \in 0..written /\ lines \in 0..BatchSize
    /\ elapsed \in 0..Interval
    /\ startup \in BOOLEAN /\ skipWait \in BOOLEAN
    /\ attempt \in 0..Len(BackoffSteps)
    /\ delay \in Int
    /\ cancelled \in BOOLEAN /\ failures \in 0..MaxFailures /\ readFailed \in BOOLEAN

(* Everything written is sent, although nothing more may be received: a    *)
(* wake-up that is lost, comes too early or was used up for an earlier     *)
(* batch delays a batch by at most the interval.                           *)
AllSent == \A n \in 1..(Backlog + MaxEvents) : (written >= n) ~> (sent >= n \/ cancelled)

(* A stop ends the loop, whether it waits, sends or backs off.             *)
StopEnds == cancelled ~> fpc = "stopped"

(* No wake-up is lost: while the loop waits with a full batch in the spool *)
(* that the counter knows of, a token is in the channel or Notify is about *)
(* to put one there.  Only after a failed read the loop waits without one: *)
(* Run takes the token before it reads, and starts another interval.       *)
NoLostWakeUp ==
    fpc = "wait" /\ ~readFailed /\ pending >= BatchSize /\ written - sent >= BatchSize
        => wake \/ rpc # "recv"

(* Every variable has its type, and no interleaving of Notify and Run      *)
(* loses a wake-up.                                                        *)
ForwarderInv == TypeOK /\ NoLostWakeUp

(* The backoff belongs to a batch: each batch starts with the shortest     *)
(* delay, whether the one before was stored or went to a dead letter.      *)
BackoffPerBatch == fpc \in {"top", "wait", "read", "count", "store"} => attempt = 0

(* The counter is not tied to the spool: Notify counts a line after it is  *)
(* in the spool, when it may have been sent already; lines of an earlier   *)
(* run are sent without having been counted; and the store that corrects a *)
(* negative counter may wipe out a line counted in between.  Still, between*)
(* two batches it is never negative, and never more than one ahead of the  *)
(* lines that are left, so that a wake-up comes at most one line early.    *)
CounterBounded ==
    fpc \notin {"count", "store"} =>
        /\ pending >= 0
        /\ pending + (IF rpc = "notify" THEN 1 ELSE 0) <= written - sent + 1
=============================================================================
