# Verification of UTM_Collector

TLA+ specifications of the Pico-UTM agent and of the collector API, with TLC
configurations and TLAPS proofs. Paths below are relative to the repository
(`src/`); `spool.go` and the like are files of `internal/agent` and
`internal/collector`.

## 1. The system

    Pico-UTM --UDP--> agent: receiver -> spool (files) -> forwarder --HTTPS--> collector --> PostgreSQL
                             janitor, heartbeat, status file ticker

| Component | State | Operations | Interaction |
|---|---|---|---|
| spool (`spool.go`) | daily `.jsonl` files, `.jsonl.gz` copies, dead-letter files, the offset file; `cur`, `curName`, `unsynced` under `wmu`; `committed`, `inflight` under `pmu` | `OpenSpool`, `Append`, `Sync`, `Close`, `ReadReadyBatch`, `Commit`, `Cleanup`, `WriteDeadLetter`, `Sizes` | called by receiver, forwarder, janitor and the heartbeat, each a goroutine of `agent.Run`; the two locks are never held together |
| receiver (`agent.go`, `parser.go`) | none of its own | one `Append` and one `Notify` per datagram | spool, forwarder |
| forwarder (`forwarder.go`, `backoff.go`) | `pending`, `wake`, `lastSend`, `startup`, `skipWait`, the backoff, the batch in hand | `Run`, `deliver`, `commit`, `writeDeadLetter` | reads and commits the spool; posts to the collector; is woken up by the receiver |
| HTTP client (`httpclient.go`) | connections | `post`, time-outs of 30 s and 60 s | forwarder and heartbeat |
| janitor (`agent.go`, `spool.go`) | none between runs | `Cleanup` every minute: retention, size limit, compression, old dead letters | deletes files under the forwarder and the receiver |
| heartbeat, statistics, status file (`agent.go`) | counters, last errors | `sendHeartbeat`, `writeStatus` | collector, spool sizes |
| collector (`server.go`, `store.go`, `001_init.sql`) | tables `batches`, `events`, `heartbeats` | `POST /events` (`SaveEvents`), `POST /heartbeat`, `GET /healthz` | one transaction per request of an agent; PostgreSQL orders them |
| command line (`cli.go`, `cmd/agent`) | none | `check`, `test-send`, `status`, `tail`, `logs`, `install`, `uninstall` | reads the spool directory and the status file |
| services, installers (`cmd/agent/service_*`, `scripts/`) | unit files, directories, the backup and the rollback stack of a run | install, roll back, uninstall | restart the agent for ever (`Restart=always`) |
| mock server (`mockserver.go`) | batches, keys, accepted events, counters, one fault | `ServeHTTP`, the control interface, `Reset` | stands in for the collector in the integration tests |
| generator, configuration, logging, redaction | - | - | test tool, parsing and formatting |

What is hard here: three goroutines work on the same directory under two locks
that are never held together; the process may die at any point and resumes from
an offset file; the machine may lose what was not fsynced; the clock may go back;
requests that the agent has given up go on in the collector; the wake-up of the
forwarder is a counter and a channel without a lock. `PROJECT.json` lists these
hazards at their lines.

What makes the components correct:

- spool file: what was accepted is a line of its own, whatever half lines failing
  writes and crashes leave; a repair cuts half lines only; `tail` prints every line
  of a file before it leaves it.
- spool: an accepted event is delivered, dead-lettered, counted as dropped, or
  still ahead of the position (at least once, nothing lost silently); the
  position never passes an event that is not settled and never moves back; the
  file being written is the newest; compression touches nobody's file.
- forwarder: everything is sent in the end; no wake-up is lost; a stop ends the
  loop; the backoff belongs to one batch; the counter stays within a line of the spool.
- collector: batches are atomic; 200 means durable; no event gets two rows.
- statistics: every event is counted once; a report of no backlog can be trusted;
  heartbeats do not depend on the forwarder; the last status file is final.
- heartbeat: what the collector shows is what it last acknowledged, but for
  requests that came late; it becomes current again; the agent learns the minimum
  version.
- installer: a rollback restores the machine; no original is lost; the `agent_id`
  stays the same.
- mock server: its counters add up and its faults are exact, so that a test may rely
  on them; it takes the same events for duplicates as the collector does.
- agent and collector together: what is passed is settled whatever the network
  does; order is kept; transactions do not wait in a circle.

## 2. Modules

| Module | Models | Used by |
|---|---|---|
| `Spool` | spool, receiver, forwarder's use of the spool, janitor, process and machine | `MCSpool`, `SpoolProofs` |
| `SpoolFile` | the spool files as pieces of lines: Append, Truncate, repairTails | `Tail` |
| `Tail` | `utm-agent tail` beside the writer; composes with `SpoolFile` | `MCTail`, `TailProofs` |
| `Dedup` | abstract: a store that takes whole batches and each event once | `Collector` |
| `Collector` | `POST /events` and its transactions; implements `Dedup` | `MCCollector`, `CollectorProofs`, `Delivery`, `DeliveryProofs` |
| `Handoff` | abstract: what the forwarder promises about a sequence of events | `Delivery` |
| `Delivery` | `deliver`, the network, restarts; composes with `Collector`; implements `Handoff` | `MCDelivery`, `DeliveryProofs` |
| `Forwarder` | `Run`, `Notify`, backoff, Retry-After, cancellation | `MCForwarder`, `ForwarderProofs` |
| `Stats` | the counters, heartbeat payload, status file and the end of `agent.Run` | `MCStats`, `ReportProofs` |
| `Heartbeat` | the sending of heartbeats and the collector's row | `MCHeartbeat`, `ReportProofs` |
| `EventKey` | records, and the keys that collector and mock server derive from them | `MockServer` |
| `MockServer` | the mock server, and the rows a collector would have | `MCMockServer`, `MockServerProofs` |
| `Installer` | `install.sh`, its rollback and the systemd service | `MCInstaller`, `InstallerProofs` |
| `SpoolProofs`, `TailProofs`, `ForwarderProofs`, `MockServerProofs`, `InstallerProofs` | theorems about the module of that name (`TailProofs` also about `SpoolFile`, `MockServerProofs` about `EventKey`) | - |
| `ReportProofs` | theorems about what the agent reports, `Stats` and `Heartbeat` | - |
| `CollectorProofs` | theorems about `Collector`, and that it implements `Dedup` | `DeliveryProofs` |
| `DeliveryProofs` | theorems about `Delivery`, and that it implements `Handoff` | - |

Definitions named "Mutant of ..." in a module are variants of the definition
that follows, each a plausible mistake in the code that one of the properties
must notice; `PROJECT.json` pairs them with the properties. They take no part in
the specifications.

### Spool

A file is named by its day, a line is an event, an offset counts lines. The
actions follow the code's critical sections, so that everything that can happen
between two of them does:

- receiver: `AppendOpen` and `AppendWrite` are the two halves of `Append`
  (openLocked, then the write), which holds `wmu`; `Sync` is the ticker of
  `agent.Run`. The ...`Fails` actions are the error returns.
- forwarder: `ReadBegin` (the listing), one `ReadFile` per `readFrom`, `ReadEnd`;
  `pmu` is held throughout (`PmuFree`). `PostStored` and `PostRejected` are the
  outcomes of `deliver`; an attempt that stores the batch and whose answer is lost
  leaves `fpc` at "deliver". A failed attempt changes nothing in this module.
  `Commit` moves memory and then the file.
- janitor: `CleanupBegin` reads the cutoff and the current name under `wmu` only;
  `CleanupLocked` is the section under `pmu` with both deletion loops;
  `CompressRename`, `CompressUnlink` are the unlocked steps of `compress`, whose
  copying changes nothing anyone sees; `CleanupEnd` removes old dead letters.
- process and machine: `Start`, `Stop`, `Crash`, `PowerLoss`, the clock.

`mishaps` records, as history, four things that the design does not survive and
that the properties except by name: `uncounted` (counting a file failed and it was
removed nevertheless, `spool.go:433`), `newestRemoved` (Cleanup removed the newest
file, `spool.go:397`), `inflightLost` (the batch in flight was in memory only when
the process ended, `spool.go:423`), `powerLost` (a power loss took lines that were
not fsynced). The runs expected to be violated show what the last three do.

`NoSilentLoss` and `SettledInOrder` except all four; the other properties those that
change files under the reader or the writer, `powerLost` and `newestRemoved`. So the
properties do not say what becomes of lines whose fsync has failed, beyond that they
survive as long as the power does.

Left out: the byte size of lines, half lines and a failure of ReadDir, which are in
`SpoolFile`. New directory entries are taken to survive a power loss.

### SpoolFile, Tail

A line is two pieces, the second of which ends in the newline, and a write stops
before, between or after them. `Append` is `AppendOpen`, `AppendFirst`,
`AppendRest`, with `AppendFails` and `Truncate` on the way out; the process may end
between any two of them, and `Start` repairs what is left (`completeLength` goes
through the file from its end, `Chunk` pieces at a time). `AppendOpenBlind` is
`openLocked` with a directory that cannot be listed. `CleanupRemove` takes a file that
is not open, `CleanupRemoveOpen` the open one, which Cleanup does when Append has opened
it in the meantime; what is appended then goes to a file without a name (`orphan`), by
`AppendOrphan`, until the next day's is opened. `mishaps` notes a Truncate, a repair or a
listing that failed and made a difference, a power loss, the removal of the newest file
and that of the open one. `sound` are the accepted lines that were put on a clean file:
they survive even those failures, and only lines glued to a half line are lost.

`Tail` adds the process that follows the files: one step per look at the
directory, per read and per switch. Between any two of them the agent writes,
rotates and cleans up. A read prints its whole lines from the first to the last:
`PrintLines` says so of the ends of the lines, in increasing order, instead of looping
over them. `tail` is a process of its own without state that outlives it: it may be
started and stopped at any time, and runs on while the agent is down.

### Collector

A request is a record: where its handler is, which batch it carries, how many
events it has inserted and which rows its open transaction holds. `InsertBatch`,
`FindBatch` and `InsertEvent` are the `INSERT ... ON CONFLICT DO NOTHING`
statements; such a statement waits while another open transaction holds the same
key (`BatchHolders`, `KeyHolders`), which is how PostgreSQL's unique indexes
behave. `CannotStore` is an INSERT that fails for the data (a NUL character in a
text), every time. `CommitUnknown` is a COMMIT whose answer is lost. `SaveFails` is any
error return, with the deferred Rollback. Both tables are keyed by agent, so one
agent's requests are enough. `Dedup` says the same without requests and
transactions: a batch and its events are stored in one step.

### Delivery, Handoff

`Delivery` instantiates `Collector` and adds the agent's side: `Read` gives a
batch a fresh `batch_id`, `Post` sends a request, one action per answer, `GiveUp`
(the client's time-out; the request goes on), `Disconnected`, `DeadLetterFails`,
`Commit` and `Restart`. The spool is a sequence and a position is a number; that
this is what the spool offers is the content of `NothingSkipped` and
`SettledInOrder` of `Spool`. `Handoff` is the abstraction: events are settled at
any time, the position advances over settled events only, a restart goes back to
the saved position. An event that the database cannot store holds up the queue for
ever (every answer is 503); `EventuallyAll` says that everything is delivered or that
the forwarder is stuck at the batch of such an event with all before it delivered.

### Forwarder

Every atomic operation on `pending` and `wake` is a step. `Delivered` (2xx) and
`DeadLettered` (4xx) are the two ends of a batch, each with its own reset of the
backoff. `NoLostWakeUp` excepts a loop whose last read of the spool failed
(`readFailed`): it has taken the token and waits without one until the interval is over.
`CounterBounded` says how far `pending` may be from the spool, to which nothing ties it.
Time is the number of ticks since `lastSend` up to the interval. Durations are integers
below `HalfRange` (2^63 in the code) with `Second` units per second, so that the
multiplication in `parseRetryAfter` wraps as it does in Go; `RetryAfterOverflows` says
what comes of it. The HTTP-date form of Retry-After and the jitter are left out.

### Stats

Receiver, forwarder and janitor each take a step to work and another to count, the
heartbeat one to copy the counters, one to read the committed position and one to
list the files, in that order (`heartbeatPayload`, `Sizes`). The spool is a number
of lines of which a prefix is committed, in flight or removed. If `countLines` fails,
Cleanup removes lines that nobody counts (`uncounted`, as history); `CountedOnce` says
that these and no others are missing from the counters. The races in which Cleanup
removes a file it should not are in `Spool`. `Settle` is `deliver` up to
the answer that ends it. The status ticker calls the same `heartbeatPayload`; only
its counters matter to `FinalStatus`, so its look at the spool is left out.
`stopped` is the wait group: `Finish` is what `Run` does after `wg.Wait`.

### Heartbeat

A heartbeat is known by its age, the number of heartbeats built after it. `Beat`
posts one; the agent waits for its answer (`call`) or gives it up, after which the
request goes on as `late`. The collector overwrites its row whatever the row holds
(`SaveHeartbeat`), so a late request may put an old heartbeat there. Versions are
numbers.

### EventKey, MockServer

`EventKey` gives the keys by which duplicates are recognised: `BuildRecord` and
`ParseSyslog` as far as the keys depend on them, `eventKey` of the collector with
`fmt.Sprint` of what `encoding/json` decodes (a number becomes a float64 and is
written with an exponent when it is large), and `eventKey` of the mock server. The
limits of a float64 are constants, small in the model. `MockServer` handles
requests in the steps between which the code unlocks: `Arrive` (counted),
`TakeFault`, the fault or the handler, `Finish` (the answer is counted), and between
them the test's `SetFault`, `Reset` and the control interface. A fault that is not active
(`effect` is "none") may have a count, and is not used up. `rows` is history:
the events that a collector with the same requests would have.

### Installer

`Program` lists the commands of `install.sh` in their order; a command succeeds, fails
(in part, where it can) or is killed, and may push a rollback command (one of
`UndoCommands`); `on_error` runs the stack from its top and keeps the backup if one of
them failed. A second run begins on what the first left. `quiet` notes what the rollback
cannot know of, which `Restored` excepts: a `useradd` that is interrupted before its
rollback is registered, a `chmod` that fails before a `chown` that works (only the last
command's status counts), and `systemctl enable` in `restore_service` (likewise). A
config of which only a part was written is `Torn` or, if its `agent_id` line is whole,
`Cut(v)` for the version v it is a part of: the installer accepts the latter and takes
the id over, and wants `--regenerate-id` for the former. `IdentityKept` excepts a run
that finds no config, which is what a kill between the removal of the old one and the
first write leaves: install.sh cannot tell it from a first installation.

## 3. Runs

| Run | Bounds | Result |
|---|---|---|
| `spool` | 2 days, 2 events, batches of 2; failing I/O and fsync, crashes, power loss, clock set back | pass: `SpoolInv`, `WriterAhead`, `NoSilentLoss`, `NothingSkipped`, `SettledInOrder`, `CompressedQuiet`, `NeverRewinds` |
| `spool_file` | 2 days, 3 datagrams, 3 failures of any kind, one `tail` at a time | pass: `FilesSound`, `LinesIntact`, `SoundLinesStay`, `PrintedInOrder`, `LeavesNothing` |
| `collector` | 3 requests at a time, 6 batches that overlap in keys, every fault | pass: `BatchAtomic`, `AckedDurable`, `RowsOnce`, `DedupSpec` |
| `delivery` | 5 events (one repeated id, one refused, one that cannot be stored), 2 requests at a time, 1 restart, 2 failures | pass: `DeliveryInv`, `StoredInOrder`, `NoWaitCycle`, `HandoffSpec`, `EventuallyAll` |
| `forwarder` | backlog of a batch and a half, 4 more events, 2 failures, stop at any time | pass: `ForwarderInv`, `BackoffPerBatch`, `CounterBounded`, `AllSent`, `StopEnds` |
| `stats` | backlog of 1, 1 more event, 1 write error, batches of 2; heartbeats without limit | pass: `StatsInv`, `NoBacklogMeansSent`, `FinalStatus`, `HeartbeatsGoOn` |
| `heartbeat` | 3 requests at a time, 2 minimum versions, 3 failures of any kind; heartbeats without limit | pass: `AckedShown`, `RowRenewed`, `VersionLearnt` |
| `mock_server` | 3 requests, 2 at a time, 2 calls of the test, every kind of record in pairs, an inactive fault among the faults | pass: `MockInv`, `EachOnce`, `MockAgrees`, `FaultExact` |
| `installer` | 3 runs on every kind of machine, 2 failures of any kind | pass: `InstallerInv`, `Restored`, `IdentityKept` |
| `spool_open_file` | 2 days, 3 events, batches of 2 | violated: `OpenFileKept` |
| `spool_inflight` | as before | violated: `InflightStillSent` |
| `spool_offset` | power loss, fsync every second append, no size limit in reach | violated: `ResentFromStart` |

Every module has a type invariant. It is checked as a part of `SpoolInv`, `FilesSound`
(with `RepairExact` and `OnNewest`), `DeliveryInv` (with `PassedSettled`),
`ForwarderInv` (with `NoLostWakeUp`), `StatsInv` (with `CountedOnce`), `MockInv` (with
`Accounted`) and `InstallerInv` (with `OriginalSafe`). It is proved for every module;
for `Collector` and `Heartbeat`, whose runs do not check it, by `CollectorTypes` and
`HeartbeatTypes`. `WriterNewest` is a part of `SpoolInv`.

Why the bounds are enough. Two days give a rotation and a sent and an unsent file; two
events give a sent and an unsent line in one file or in two, or a batch of two lines.
Nothing expires by age within two days, and a third day is more than the run can hold:
files that are removed by age are covered by the proofs only, while `MaxBytes = 1` makes
the size limit strike at any moment; `SyncEveryN = 2` leaves one line to lose. States of
`spool` that differ only in the old dead-letter files left on disk, which nothing else
depends on, are explored once (`View`). The interesting interleavings are those of the
three goroutines and do not need more data; the proofs remove the bounds altogether for
every safety property of every passing run. In `spool_file` three datagrams give a half
line, the one glued to it and the one after, and three failures a failing write, a
failing Truncate and a crash. In `delivery` two requests are one that has been given up
and its successor, which is what one agent can have beside each other after one
time-out; in `collector` and `heartbeat` there are three. In `forwarder` a backlog of
three and four new events give full batches from either side of the start. In `stats`
one old and one new line give a batch in flight with a line ahead of it, or both in
flight. In `installer` two failures are a command that fails and a rollback command that
fails as well, or a kill in one run and a failure in the next, and a third run finds
what they left; in `mock_server` a fault for two requests meets a third, and a Reset
comes between.

The violated runs compare a comment or a log message with the code; the findings
in `PROJECT.json` quote them. In all three
events can be lost.

Other places where a text and the code differ, which the passing properties except
or do not depend on:

- `forwarder.go:43` says that Notify wakes the forwarder whenever `batch_size` events
  have accumulated. Lines of the backlog are subtracted from `pending` but never
  added (`forwarder.go:94`), so a full batch can wait for the interval.
- `backoff.go:40` says "at most one hour". From 2^63 ns on the multiplication at
  `backoff.go:50` wraps before the cap is applied: an answer that asks for such a rest
  gets none, or a shorter one. No property of a run is about the length of a delay; what
  the multiplication does is proved (`RetryAfterOverflows`).
- `spool.go:53` says that the names of files only grow. After Cleanup has removed the
  newest file, a clock that has gone back and a restart put the writer behind the
  position; `WriterAhead` excepts it.
- `install.sh:115` says that the old config is saved as `$CONF.bak`, which nothing
  writes (the backup is a temporary directory); `install.sh:314` says "only if empty"
  of an `rm -rf`.
- The mock server takes an `event_id` that is not a string for none, the collector
  takes it as its text; `MockAgrees` is about strings, nulls and records without one.

Fairness. `Delivery`: the forwarder's loop, the handlers and the network's
clean-up go on (goroutines are scheduled, PostgreSQL ends a circle of waiting
transactions); nothing is assumed of failures and restarts, which the bounds end,
so `EventuallyAll` reads "once failures end". `Forwarder`: the loop runs, time
passes, and a call of `Notify` that has begun returns; nothing is assumed of
further datagrams. `Stats`: the heartbeat goroutine runs and its request ends (the
client has a time-out); whoever holds `pmu` lets go of it; and the heartbeat gets
`pmu` if it is free again and again (strong fairness: a waiter of a `sync.Mutex`
that has waited for a millisecond is served first). Nothing is assumed of the
delivery of a batch, which may retry for ever. `Heartbeat`: the ticker fires, an
answer that has come is read, and a request that has been sent is handled or
discarded; nothing is assumed of failures, which the bound ends. The other modules
are checked for safety only.

Deadlock checking is off in `forwarder` and `stats`, where a stopped agent does nothing
more, in `installer`, where all runs have been made, and in `mock_server`, where the
test makes no more calls.

## 4. Proofs

Every theorem is about all values of the constants that the module's assumption
allows: limits that are naturals, positive where the configuration requires it, and
any subset of the faults. No other assumption is made. The assumptions that are not of
that kind say that the special values are different from the ordinary ones (`NoBatch`,
`NoCall`, `NoHeader`, `Garbage`), and what a JSON value is (`EventKeyAssumption`: its
numbers are naturals up to twice the size at which a float64 loses some; numbers are
written with an exponent before that size). The constants that bound the runs (`MaxEvents`,
`MaxFailures`, `MaxRuns`, ...) are arbitrary naturals.

Each proof has the same shape: an inductive invariant, which TLC has checked on the
instance of the run; a lemma for the initial states; one step or lemma per action that
the action keeps it; and the property as a consequence.

`SpoolProofs`:

- `TypeAndNewest`: `TypeOK /\ WriterNewest`. They need each other: the type of
  the writer's file name needs the files on disk to be days, and the name chosen by
  `openLocked` is the newest because the open file was.
- `SpoolInvariant`: `SpoolInv`, the inductive invariant. The properties are not
  inductive as they stand: that Commit passes settled lines only depends on the
  batch holding every line between the committed position and the reading one
  (`BatchCovers`), which depends on the listing being complete from the committed
  file on except for newer files, which depends on `WriterNewest`; that appended
  lines land ahead of every position depends on no position lying beyond the end
  of its file (`Reachable`); that compression loses nothing depends on `todo`
  lying behind the position (`TodoBehind`). All of it holds while no mishap has
  changed files under the reader (`Calm`).
- `NothingIsSkipped`, `NothingIsLost`, `CommitNeverRewinds`, `WriterStaysAhead` follow
  from it, and with `TodoOnDisk` (nobody but the janitor removes a file) also
  `CompressionIsQuiet`.
  `CommitNeverRewinds` also says that every batch that is delivered moves the position on;
  for this it has `BatchAdvances`: a batch with lines ends behind the position, and no
  empty one is sent.
- `SettledInOrderAlways`: `SettledInOrder`, from `OrderInv` on top of `SpoolInv`. The
  lines, file after file, are in the order in which their events were received
  (`LinesInOrder`, which rests on the writer being on the newest file even after the
  clock was set back), so whatever was accepted before an event of the batch is in the
  batch, settled or dropped (`BatchInOrder`).

`TailProofs`, about `SpoolFile` and `Tail`:

- `FilesAreSound`: `FilesSound`, whose part `RepairExact` says that `completeLength`,
  which goes through a file in chunks from its end, finds where the whole lines end, for
  every content and every size of the buffer. It is a recursive function; that it has
  the closed form is shown without an induction theorem: the closed form satisfies the
  recursion, and an argument at which another solution differed from it would have a
  least one.
- `LinesStayIntact` and `SoundLinesAreKept`: what was accepted lies in what a Truncate
  would leave (`SoundKept`), because `curSize` is never behind an accepted line
  (`WriterInv`); and every file but the open one ends with a newline unless a mishap is
  noted (`CleanFiles`).
- `PrintsInOrder` and `TailLeavesNothing` add where `tail` is (`TailAt`): what it has
  printed is older than what it has still to read, and when it leaves a file the writer
  has left it for a newer one (`LeavesBehind`).

`CollectorProofs`, for any set of requests, batches and keys: `CollectorInvariant`
(types, the three properties, and `Progress`: an open transaction has a row, its own
or a committed one, for every event it has passed), and from it `BatchesAreAtomic`,
`AcksAreDurable`, `RowsAreUnique`, `CollectorTypes` and `CollectorImplementsDedup`: the
initial state is one of `Dedup`, a commit is `Store`, because the rows of the
transaction and those it found are together the events of the batch, and every other
step leaves both tables alone.

`DeliveryProofs`, for any sequence of events (with repeated ids, refused and unstorable
ones), any number of concurrent requests, restarts and failures:

- `NothingPassedUnsettled` (`DeliveryInv`) and `OrderOfSpool` (`StoredInOrder`), from
  `DeliveryIInv`. What the collector guarantees is taken from an instance of
  `CollectorProofs`. On the agent's side: the request that `post` waits for carries the
  batch in hand (`CallCarriesBatch`), the batch begins at the committed position
  (`BatchInHand`), and any request still under way, given up or not, begins behind
  settled events only (`RequestsBehind`), so that a late one cannot store ahead of its
  turn.
- `NoDeadlockOfTransactions` (`NoWaitCycle`): a transaction waits only for one that is
  further on in the spool (`WaitsForward`), because the rows it has added are those of
  events it has come past (`AddedPassed`); one transaction of a circle would be furthest
  on. `NoWaitCycle` excepts a dead letter together with a repeated id, for which the
  claim is false.
- `DeliveryImplementsHandoff`: the commit of a transaction and the counting of a dead
  letter are `Settle`, `Commit` is the advance, `Restart` goes back, everything else
  stutters.

`ForwarderProofs`, for any batch size, interval, list of backoff steps, and any width of
the integers: `WakeUpNeverLost` (`ForwarderInv`), `BackoffStartsAnew`
(`BackoffPerBatch`), `CounterNeverRunsAway` (`CounterBounded`), and
`RetryAfterOverflows`, which no run checks. `NoLostWakeUp` speaks of a loop that waits;
its strengthening `WakeUpKept` says from the moment a short batch is read that the token
is in the channel or a call of `Notify` will put it there.

`ReportProofs`, about `Stats`, for any backlog, batch size and number of events:
`EveryEventCountedOnce` (`StatsInv`), `EmptyBacklogTrusted` (`NoBacklogMeansSent`),
`LastStatusFinal` (`FinalStatus`), from `StatsIInv`: how the positions of the spool lie
at each step of the forwarder (`Positions`), that what is written is what is counted but
for the line in the receiver's hand (`WrittenCounted`), that what a heartbeat has read
so far is not ahead of the spool (`ReportBehind`), and that a goroutine that has
returned stays so (`StoppedAtRest`).

`ReportProofs`, about `Heartbeat`, for any number of requests, versions, ages and failures:
`AckedIsShown` (`AckedShown`) and `HeartbeatTypes`, from `HeartbeatInvariant`. What an
acknowledgement says of the row has to be known from the moment the row is written
until the answer is read, while late requests may overwrite it: a request that is not
late is the call, the call is the newest heartbeat, and after a 200 for it the row is
that heartbeat or one that came late.

`InstallerProofs`, for any number of runs and of failures: `OriginalsSafe`
(`InstallerInv`), `RollbackRestores` (`Restored`) and `AgentIdKept` (`IdentityKept`), from
`InstallerIInvAlways`. For each file, directory, the account, the rule and the service the
invariant says that it is as it was, or that the rollback command which makes it so is on
the stack, or that a failure has been reported; and that the command is the right one
(`restore` only if the backup has the original, `remove` and `rm -rf` only for what was
not there). `restore_service` lies at the bottom of the stack (`ServiceLast`), so that
nothing started by the installer runs any more when the old service is started again.
Once the stack is empty, only "as it was" is left. For `IdentityKept` it says of every
whole or cut config, installed, in the backup or from before, that its id goes back to
the first (`ContentsAre`, `PartsIs`: what a write may leave of a config is unreadable or
keeps its id).

`MockServerProofs`, for any number of handlers, requests and calls of a test, any batches
of records that `BuildRecord` makes, and any sizes at which a float64 changes:
`EveryEventStoredOnce` (`EachOnce`), `MockStandsForCollector` (`MockAgrees`), `FaultsCount`
(`FaultExact`) and `CountersAddUp` (`MockInv`), from `MockIInv`.

- About the keys: unless two events are `Confused`, `eventKey` of the collector gives them
  one key exactly if they are the same event (`KeysTellApart`; it rests on `fmt.Sprint`
  being injective on what is not a string, `SprintInjective`, and on ToValidUTF8 losing
  nothing but which bytes were not UTF-8, `SameRaw`). Without numbers both `eventKey`s
  are one function (`KeysAgree`).
- About a batch: what `NewEvents` keeps are the events at the first places of the new keys,
  in their order (`KeptIs`, `FirstPlace`), so that the keys of what is stored stay apart and
  those of the batch are all among them (`KeysGrow`). `Kept` is a recursive function; that
  it satisfies its recursion is shown as for `completeLength`.
- `EachOnce` speaks of events and is not inductive; `RowsKeyed` says the same of the keys:
  no two rows have the same, and every event of an acknowledged batch has its key among
  them.
- `FaultExact` needs that a fault which counts is gone when its last use is over
  (`UsedUp`), for otherwise a count of zero would mean for ever. `Accounted` follows the
  set of requests that came after the last Reset, one step at a time.

Only model-checked:

- The liveness properties `EventuallyAll`, `AllSent`, `StopEnds`, `HeartbeatsGoOn`,
  `RowRenewed`, `VersionLearnt`: temporal reasoning under fairness needs `ENABLED`, which
  the installed provers do not have.
- The three violated properties, which are false.

## 5. Not modelled

- Configuration, logging, redaction, version comparison, the platform files: string
  handling and calls of the operating system without state of their own. The limits
  that the configuration checks are the assumptions on the constants.
- The grammar of syslog lines in `parser.go` (a datagram is known by what the parser
  finds in it, `EventKey`).
- The commands `check`, `test-send`, `status` and `logs`, which read files or send one
  request and print; the generator, which only sends.
- `install.ps1`, `service_windows.go` and the uninstallers: calls of the service
  manager of Windows, and scripts that undo what they find and have no rollback.
- Of the mock server: the minimum version, healthz, the limit of 10000 events and the
  texts of answers.

## 6. What is left

Every safety property of the passing runs is proved. Worth adding: `Spool` shown to
implement `Handoff` as long as no mishap has happened, with `Delivery` taking its place as
the detailed description of `PostStored` and `PostRejected`; and the installer of Windows,
once it has a rollback.
