------------------------------- MODULE Spool -------------------------------
(***************************************************************************)
(* The agent's on-disk spool (internal/agent/spool.go) and the three       *)
(* goroutines of agent.Run that share it:                                  *)
(*                                                                         *)
(*   receiver   appends one line per datagram to the file of the day;      *)
(*   forwarder  reads a batch from the committed position, delivers it,    *)
(*              and then advances the position and the offset file;        *)
(*   janitor    deletes old or surplus files and compresses sent ones.     *)
(*                                                                         *)
(* The writer is protected by wmu, the read position by pmu; the two locks *)
(* are never held together, so the steps below interleave freely.  The     *)
(* process may crash at any step and is restarted by the service manager;  *)
(* a power loss also truncates what was not fsynced.                       *)
(*                                                                         *)
(* Abstractions.  A spool file is named by its UTC day, a number; day 0    *)
(* stands for the empty file name.  A line is the number of its event and  *)
(* an offset counts lines: every line is complete and valid JSON, as       *)
(* Append writes it.  Reading the directory itself succeeds.  The          *)
(* collector is the set of the events it has stored.                       *)
(***************************************************************************)
EXTENDS FiniteSetsExt, Sequences

CONSTANTS
    MaxDay,         \* bound: the clock shows a day of 1..MaxDay
    MaxEvents,      \* bound: datagrams received
    BatchSize,      \* forwarder.batch_size
    SyncEveryN,     \* syncEveryN: fsync after that many appends
    RetentionDays,  \* spool.retention_days
    MaxBytes,       \* spool.max_size_gb, counted in lines
    GzSize,         \* size of a compressed file, counted in lines
    Faults          \* what the environment may do: a subset of AllFaults

(* "io": opening, writing, reading, renaming or removing a file fails;     *)
(* "fsync": an fsync fails; "kill": the process dies at any step; "power": *)
(* the machine loses power; "clock": the clock is set back.                *)
AllFaults == {"io", "fsync", "kill", "power", "clock"}

ASSUME SpoolAssumption ==
    /\ MaxDay \in Nat \ {0}
    /\ MaxEvents \in Nat
    /\ BatchSize \in Nat \ {0}
    /\ SyncEveryN \in Nat \ {0}
    /\ RetentionDays \in Nat \ {0}
    /\ MaxBytes \in Nat
    /\ GzSize \in Nat
    /\ Faults \subseteq AllFaults

Days   == 1..MaxDay
Names  == 0..MaxDay
Events == 1..MaxEvents

(* Position: the next line of the spool that has not been forwarded.       *)
Position == [file : Names, off : Nat]
NoPos    == [file |-> 0, off |-> 0]

VARIABLES
    now,        \* the system clock
    (* the spool directory *)
    plain,      \* days that have a plain .jsonl file
    gz,         \* days that have a .jsonl.gz file
    lines,      \* lines[d]: the lines of the plain file of day d
    synced,     \* synced[d]: how many of them have been fsynced
    offsetFile, \* the position stored in the offset file
    dlq,        \* days that have a dead-letter file
    (* the writing side, under wmu *)
    up,         \* the process runs
    wpc,        \* "ready", or "write": inside Append after openLocked
    handle,     \* s.cur: "closed" (nil), "open", or "unlinked" (file removed)
    curName,    \* s.curName
    unsynced,   \* s.unsynced
    (* the reading side, under pmu *)
    committed,  \* s.committed
    inflight,   \* s.inflight
    fpc,        \* forwarder: "idle", "reading", "read", "deliver", "acked"
    names,      \* readBatch: the listing it walks through
    pos,        \* readBatch: pos; deliver: end
    batch,      \* readBatch: lines; deliver: the events of the batch
    (* the janitor *)
    jpc,        \* "idle", "listed", "compress", "unlink"
    jcurrent,   \* Cleanup: current, read before pmu is taken
    jcutoff,    \* Cleanup: cutoff
    todo,       \* Cleanup: toCompress
    (* history *)
    nev,        \* datagrams accepted by the receiver so far
    accepted,   \* events whose Append returned nil
    stored,     \* events the collector has stored
    dead,       \* events written to a dead-letter file
    dropped,    \* events counted as dropped by Cleanup
    mishaps     \* what has happened that the spool does not survive

diskVars    == <<plain, gz, lines, synced, offsetFile, dlq>>
writerVars  == <<wpc, handle, curName, unsynced>>
readerVars  == <<committed, inflight, fpc, names, pos, batch>>
janitorVars == <<jpc, jcurrent, jcutoff, todo>>
historyVars == <<nev, accepted, stored, dead, dropped, mishaps>>
vars == <<now, diskVars, up, writerVars, readerVars, janitorVars, historyVars>>

Settled == stored \cup dead

(* Position.less *)
Less(p, q) == p.file < q.file \/ (p.file = q.file /\ p.off < q.off)

(* Line i of the file of day d lies before position p. *)
IsBefore(d, i, p) == d < p.file \/ (d = p.file /\ i <= p.off)

-----------------------------------------------------------------------------
Init ==
    /\ now \in Days
    /\ plain = {} /\ gz = {}
    /\ lines = [d \in Days |-> << >>]
    /\ synced = [d \in Days |-> 0]
    /\ offsetFile = NoPos
    /\ dlq = {}
    /\ up = FALSE
    /\ wpc = "ready" /\ handle = "closed" /\ curName = 0 /\ unsynced = 0
    /\ committed = NoPos /\ inflight = NoPos
    /\ fpc = "idle" /\ names = {} /\ pos = NoPos /\ batch = << >>
    /\ jpc = "idle" /\ jcurrent = 0 /\ jcutoff = 0 /\ todo = {}
    /\ nev = 0 /\ accepted = {} /\ stored = {} /\ dead = {} /\ dropped = {}
    /\ mishaps = {}

-----------------------------------------------------------------------------
(***************************************************************************)
(* Receiver: Append                                                        *)
(***************************************************************************)

FsyncResult == IF "fsync" \in Faults THEN BOOLEAN ELSE {TRUE}
IOMayFail   == "io" \in Faults

(* The outcomes of an os.Remove of each file of S. *)
AllOrSome(S) == IF IOMayFail THEN SUBSET S ELSE {S}

(* syncLocked: unsynced is cleared first, whether or not fsync succeeds.   *)
SyncedAfter(ok) ==
    IF ok /\ handle = "open" /\ unsynced > 0
    THEN [synced EXCEPT ![curName] = Len(lines[curName])]
    ELSE synced

(* Append opens a file when none is open or the day is a later one.        *)
MustOpen == handle = "closed" \/ now > curName

(* Mutant of OpenName: the newer file on disk is ignored. *)
OpenNameIgnoresDisk == now

(* openLocked: the first file after a start is the newest one on disk if   *)
(* the clock has gone back behind it.                                      *)
OpenName ==
    IF handle = "closed" /\ \E d \in plain : d > now
    THEN Max(plain)
    ELSE now

(* Append, first half: openLocked, which also syncs and closes the file of *)
(* the day before.                                                         *)
AppendOpen ==
    /\ up /\ wpc = "ready" /\ MustOpen /\ nev < MaxEvents
    /\ \E ok \in FsyncResult : synced' = SyncedAfter(ok)
    /\ plain' = plain \cup {OpenName}
    /\ handle' = "open" /\ curName' = OpenName /\ unsynced' = 0
    /\ wpc' = "write"
    /\ UNCHANGED <<now, gz, lines, offsetFile, dlq, up, readerVars, janitorVars, historyVars>>

(* openLocked fails: the previous file has been closed all the same, and   *)
(* the event is lost (and counted as a write error).  If it is Stat that   *)
(* fails, the new file has been created.                                   *)
AppendOpenFails ==
    /\ IOMayFail
    /\ up /\ wpc = "ready" /\ MustOpen /\ nev < MaxEvents
    /\ \E ok \in FsyncResult : synced' = SyncedAfter(ok)
    /\ plain' \in {plain, plain \cup {OpenName}}
    /\ handle' = "closed"
    /\ unsynced' = IF handle = "closed" THEN unsynced ELSE 0
    /\ UNCHANGED <<now, gz, lines, offsetFile, dlq, up, wpc, curName,
                   readerVars, janitorVars, historyVars>>

(* Append, second half: the line is written, and fsynced with the lines    *)
(* before it when it is the SyncEveryN-th.  A line written through a       *)
(* handle whose file was removed reaches no file.  When fsync fails,       *)
(* Append returns its error although the line is in the file.              *)
AppendWrite ==
    /\ up /\ nev < MaxEvents
    /\ wpc = "write" \/ ~MustOpen
    /\ LET e == nev + 1
           full == unsynced + 1 >= SyncEveryN
       IN  \E fsyncOK \in FsyncResult :
             /\ lines' = IF handle = "open"
                         THEN [lines EXCEPT ![curName] = Append(@, e)]
                         ELSE lines
             /\ synced' = IF full /\ fsyncOK /\ handle = "open"
                          THEN [synced EXCEPT ![curName] = Len(lines[curName]) + 1]
                          ELSE synced
             /\ unsynced' = IF full THEN 0 ELSE unsynced + 1
             /\ accepted' = IF full /\ ~fsyncOK THEN accepted ELSE accepted \cup {e}
             /\ nev' = e
    /\ wpc' = "ready"
    /\ UNCHANGED <<now, plain, gz, offsetFile, dlq, up, handle, curName, readerVars,
                   janitorVars, stored, dead, dropped, mishaps>>

(* The write fails (disk full): the half line is truncated away.           *)
AppendWriteFails ==
    /\ IOMayFail
    /\ up /\ wpc = "write"
    /\ wpc' = "ready"
    /\ UNCHANGED <<now, diskVars, up, handle, curName, unsynced, readerVars,
                   janitorVars, historyVars>>

(* The ticker of agent.Run calls Sync every second. *)
Sync ==
    /\ up /\ wpc = "ready" /\ handle # "closed" /\ unsynced > 0
    /\ \E ok \in FsyncResult : synced' = SyncedAfter(ok)
    /\ unsynced' = 0
    /\ UNCHANGED <<now, plain, gz, lines, offsetFile, dlq, up, wpc, handle, curName,
                   readerVars, janitorVars, historyVars>>

-----------------------------------------------------------------------------
(***************************************************************************)
(* Forwarder: readBatch, deliver, Commit.  pmu is held from ReadBegin to   *)
(* ReadEnd; the receiver keeps appending meanwhile.                        *)
(***************************************************************************)
PmuFree == fpc \notin {"reading", "read"}

(* readBatch lists the plain files and starts at the committed position.   *)
ReadBegin ==
    /\ up /\ fpc = "idle"
    /\ fpc' = "reading" /\ names' = plain /\ pos' = committed /\ batch' = << >>
    /\ UNCHANGED <<now, diskVars, up, writerVars, committed, inflight,
                   janitorVars, historyVars>>

(* The files of the listing that readBatch still has before it, and where  *)
(* it enters the first of them: at the offset, or at the beginning if the  *)
(* offset belongs to a file that is gone or lies beyond the end.           *)
Ahead    == {d \in names : d >= pos.file}
NextFile == Min(Ahead)

(* Mutant of EntryOff: an offset at the end of the file counts as beyond it. *)
EntryOffAtEnd == IF NextFile = pos.file /\ pos.off < Len(lines[NextFile])
                 THEN pos.off ELSE 0

EntryOff == IF NextFile = pos.file /\ pos.off <= Len(lines[NextFile])
            THEN pos.off ELSE 0

(* readFrom takes lines until the batch is full or the file ends. *)
Room      == BatchSize - Len(batch)
Available == SubSeq(lines[NextFile], EntryOff + 1, Len(lines[NextFile]))
Taken     == IF Len(Available) < Room THEN Available ELSE SubSeq(Available, 1, Room)
AtEOF     == Len(Available) < Room
Later     == {d \in names : d > NextFile}

(* Mutant of EndOff: the offset moves one line too far. *)
EndOffPastEnd == EntryOff + Len(Taken) + 1

EndOff == EntryOff + Len(Taken)

(* One readFrom of the loop in readBatch.  At the end of a file that has a *)
(* successor in the listing the position moves on to the successor.        *)
ReadFile ==
    /\ up /\ fpc = "reading" /\ Ahead # {}
    /\ batch' = batch \o Taken
    /\ IF AtEOF /\ Later # {}
       THEN /\ pos' = [file |-> Min(Later), off |-> 0]
            /\ fpc' = "reading"
       ELSE /\ pos' = [file |-> NextFile, off |-> EndOff]
            /\ fpc' = "read"
    /\ UNCHANGED <<now, diskVars, up, writerVars, committed, inflight, names,
                   janitorVars, historyVars>>

(* No file at or after the position: the loop ends without a read. *)
ReadNothing ==
    /\ up /\ fpc = "reading" /\ Ahead = {}
    /\ fpc' = "read"
    /\ UNCHANGED <<now, diskVars, up, writerVars, committed, inflight, names, pos,
                   batch, janitorVars, historyVars>>

(* A file cannot be read: readBatch returns the error and nothing changes. *)
ReadFails ==
    /\ IOMayFail
    /\ up /\ fpc = "reading" /\ Ahead # {}
    /\ fpc' = "idle" /\ names' = {} /\ pos' = NoPos /\ batch' = << >>
    /\ UNCHANGED <<now, diskVars, up, writerVars, committed, inflight,
                   janitorVars, historyVars>>

(* readBatch returns.  A short batch is taken only when the interval is    *)
(* due or at startup (allowPartial); a batch that is taken is reserved by  *)
(* inflight.                                                               *)
ReadEnd ==
    /\ up /\ fpc = "read"
    /\ \E allowPartial \in BOOLEAN :
         IF Len(batch) > 0 /\ (Len(batch) >= BatchSize \/ allowPartial)
         THEN /\ inflight' = pos /\ fpc' = "deliver" /\ names' = {}
              /\ UNCHANGED <<pos, batch>>
         ELSE /\ fpc' = "idle" /\ names' = {} /\ pos' = NoPos /\ batch' = << >>
              /\ UNCHANGED inflight
    /\ UNCHANGED <<now, diskVars, up, writerVars, committed, janitorVars, historyVars>>

(* The collector stores the batch.  Its 2xx may be lost or turn into a     *)
(* timeout, and deliver then posts the same batch again.                   *)
PostStored ==
    /\ up /\ fpc = "deliver"
    /\ stored' = stored \cup Range(batch)
    /\ fpc' \in {"deliver", "acked"}
    /\ UNCHANGED <<now, diskVars, up, writerVars, committed, inflight, names, pos,
                   batch, janitorVars, nev, accepted, dead, dropped, mishaps>>

(* The collector answers 4xx other than 429: WriteDeadLetter, and only if  *)
(* it succeeds the batch counts as settled.  An entry that was written but *)
(* not fsynced is written again by the next attempt.                       *)
PostRejected ==
    /\ up /\ fpc = "deliver"
    /\ dlq' = dlq \cup {now}
    /\ dead' = dead \cup Range(batch)
    /\ fpc' = "acked"
    /\ UNCHANGED <<now, plain, gz, lines, synced, offsetFile, up, writerVars, committed,
                   inflight, names, pos, batch, janitorVars, nev, accepted, stored,
                   dropped, mishaps>>

(* writeFileAtomic: the offset file has its new content, or, when an error *)
(* is returned, its old one.                                               *)
WriteFileAtomic(p) == offsetFile' \in IF IOMayFail THEN {p, offsetFile} ELSE {p}

(* Commit: memory first, then the offset file, whose write may fail.       *)
Commit ==
    /\ up /\ fpc = "acked"
    /\ committed' = pos
    /\ inflight' = IF Less(inflight, pos) THEN pos ELSE inflight
    /\ WriteFileAtomic(pos)
    /\ fpc' = "idle" /\ names' = {} /\ pos' = NoPos /\ batch' = << >>
    /\ UNCHANGED <<now, plain, gz, lines, synced, dlq, up, writerVars, janitorVars,
                   historyVars>>

-----------------------------------------------------------------------------
(***************************************************************************)
(* Janitor: Cleanup                                                        *)
(***************************************************************************)

(* A directory entry of list(): its day and whether it is compressed.      *)
Files == {[day |-> d, gz |-> FALSE] : d \in plain} \cup {[day |-> d, gz |-> TRUE] : d \in gz}

(* The order of list(): by date, a plain file before its compressed copy.  *)
Sooner(f, g) == f.day < g.day \/ (f.day = g.day /\ ~f.gz /\ g.gz)

FileSize(f)  == IF f.gz THEN GzSize ELSE Len(lines[f.day])
TotalSize(S) == MapThenSumSet(FileSize, S)
IsCurrent(f) == ~f.gz /\ f.day = jcurrent

(* Cleanup, before the lock: cutoff and the name of the file being written *)
(* (curName is empty until the first Append after a start).                *)
CleanupBegin ==
    /\ up /\ jpc = "idle" /\ wpc = "ready"
    /\ jcutoff' = (IF now > RetentionDays THEN now - RetentionDays ELSE 0)
    /\ jcurrent' = curName
    /\ jpc' = "listed"
    /\ UNCHANGED <<now, diskVars, up, writerVars, readerVars, todo, historyVars>>

(* The first loop deletes what is past the retention time.                 *)
Expired == {f \in Files : f.day < jcutoff /\ ~IsCurrent(f)}

(* The second loop deletes the oldest files while the total is over the    *)
(* cap; it stops at the file being written or when os.Remove fails.        *)
IsSurplus(kept, gone) ==
    \A f \in gone :
        /\ ~IsCurrent(f)
        /\ TotalSize({g \in kept : ~Sooner(g, f)}) > MaxBytes
        /\ \A g \in kept : Sooner(g, f) => g \in gone

SurplusDone(kept, gone) ==
    \/ TotalSize(kept \ gone) <= MaxBytes
    \/ \E f \in kept \ gone : IsCurrent(f) /\ \A g \in kept \ gone : ~Sooner(g, f)

(* removeLocked counts the lines after the later of committed and          *)
(* inflight, because the batch in flight is still to be sent.              *)
Effective == IF Less(committed, inflight) THEN inflight ELSE committed

Unsent(d) == {lines[d][i] : i \in {j \in DOMAIN lines[d] : ~IsBefore(d, j, Effective)}}

(* Mutant of ToCompress: the file the position is in is compressed too. *)
ToCompressInclusive(kept) == {d \in kept : d <= committed.file /\ d # jcurrent}

(* Files that have been forwarded completely are to be compressed. *)
ToCompress(kept) == {d \in kept : d < committed.file /\ d # jcurrent}

(* The directory entries are gone.  A file that is open for writing lives  *)
(* on without a name.                                                      *)
Unlink(removed) ==
    /\ plain' = plain \ removed
    /\ lines' = [d \in Days |-> IF d \in removed THEN << >> ELSE lines[d]]
    /\ synced' = [d \in Days |-> IF d \in removed THEN 0 ELSE synced[d]]
    /\ handle' = IF handle = "open" /\ curName \in removed THEN "unlinked" ELSE handle

(* The two loops remove the files gone: expired ones, then surplus ones.   *)
MayRemove(gone) ==
    \E old \in AllOrSome(Expired) :
        /\ old \subseteq gone
        /\ IsSurplus(Files \ old, gone \ old)
        /\ IOMayFail \/ SurplusDone(Files \ old, gone \ old)

(* The section of Cleanup under pmu: the files are removed, the unsent     *)
(* lines of the plain ones are counted as dropped (counting a file may     *)
(* fail, and the file is removed nevertheless), and the files to compress  *)
(* are chosen among the rest.                                              *)
CleanupLocked ==
    /\ up /\ jpc = "listed" /\ PmuFree
    /\ \E gone \in SUBSET Files :
         LET removed == {d \in plain : [day |-> d, gz |-> FALSE] \in gone}
         IN  /\ MayRemove(gone)
             /\ Unlink(removed)
             /\ gz' = {d \in gz : [day |-> d, gz |-> TRUE] \notin gone}
             /\ \E uncounted \in IF IOMayFail THEN SUBSET removed ELSE {{}} :
                  /\ dropped' = dropped \cup UNION {Unsent(d) : d \in removed \ uncounted}
                  /\ mishaps' = mishaps
                       \cup (IF uncounted # {} THEN {"uncounted"} ELSE {})
                       \cup (IF \E d \in removed : \A x \in plain : x <= d
                             THEN {"newestRemoved"} ELSE {})
             /\ todo' = ToCompress(plain \ removed)
    /\ jpc' = "compress"
    /\ UNCHANGED <<now, offsetFile, dlq, up, wpc, curName, unsynced, readerVars, jcurrent,
                   jcutoff, nev, accepted, stored, dead>>

(* compress, without a lock: the copy is complete and gets its name ...    *)
CompressRename ==
    /\ up /\ jpc = "compress" /\ todo # {}
    /\ gz' = gz \cup {Min(todo)}
    /\ jpc' = "unlink"
    /\ UNCHANGED <<now, plain, lines, synced, offsetFile, dlq, up, writerVars, readerVars,
                   jcurrent, jcutoff, todo, historyVars>>

(* ... or it fails and the file is left as it is. *)
CompressFails ==
    /\ IOMayFail
    /\ up /\ jpc = "compress" /\ todo # {}
    /\ todo' = todo \ {Min(todo)}
    /\ UNCHANGED <<now, diskVars, up, writerVars, readerVars, jpc, jcurrent, jcutoff,
                   historyVars>>

(* The original is removed (os.Remove may fail). *)
CompressUnlink ==
    /\ up /\ jpc = "unlink"
    /\ \E removed \in AllOrSome({Min(todo)}) : Unlink(removed)
    /\ todo' = todo \ {Min(todo)}
    /\ jpc' = "compress"
    /\ UNCHANGED <<now, gz, offsetFile, dlq, up, wpc, curName, unsynced, readerVars,
                   jcurrent, jcutoff, historyVars>>

(* cleanupDeadLetters, and Cleanup returns. *)
CleanupEnd ==
    /\ up /\ jpc = "compress" /\ todo = {}
    /\ \E removed \in AllOrSome({d \in dlq : d < jcutoff}) : dlq' = dlq \ removed
    /\ jpc' = "idle" /\ jcurrent' = 0 /\ jcutoff' = 0
    /\ UNCHANGED <<now, plain, gz, lines, synced, offsetFile, up, writerVars, readerVars,
                   todo, historyVars>>

-----------------------------------------------------------------------------
(***************************************************************************)
(* The process and its environment                                         *)
(***************************************************************************)

(* loadOffset: the stored position, or the empty one if the offset file    *)
(* cannot be read.                                                         *)
LoadOffset == {offsetFile} \cup (IF IOMayFail THEN {NoPos} ELSE {})

(* New and OpenSpool. *)
Start ==
    /\ ~up
    /\ up' = TRUE
    /\ \E p \in LoadOffset : committed' = p /\ inflight' = p
    /\ UNCHANGED <<now, diskVars, writerVars, fpc, names, pos, batch, janitorVars,
                   historyVars>>

(* The memory of the process is gone. *)
ProcessEnds ==
    /\ up' = FALSE
    /\ wpc' = "ready" /\ handle' = "closed" /\ curName' = 0 /\ unsynced' = 0
    /\ committed' = NoPos /\ inflight' = NoPos
    /\ fpc' = "idle" /\ names' = {} /\ pos' = NoPos /\ batch' = << >>
    /\ jpc' = "idle" /\ jcurrent' = 0 /\ jcutoff' = 0 /\ todo' = {}

(* A batch was in memory only: its file had been removed. *)
InflightOnly == /\ fpc \in {"deliver", "acked"}
                /\ \E e \in Range(batch) : \A d \in plain : e \notin Range(lines[d])

MishapsAtEnd == IF InflightOnly THEN {"inflightLost"} ELSE {}

(* The process is killed or panics; what it wrote stays in the page cache. *)
Crash ==
    /\ "kill" \in Faults
    /\ up
    /\ ProcessEnds
    /\ mishaps' = mishaps \cup MishapsAtEnd
    /\ UNCHANGED <<now, diskVars, nev, accepted, stored, dead, dropped>>

(* agent.Run ends when its context is cancelled: the receiver and the      *)
(* janitor finish what they are doing, deliver gives up its batch, and     *)
(* Close fsyncs the open file.                                             *)
Stop ==
    /\ up /\ wpc = "ready" /\ jpc = "idle" /\ PmuFree
    /\ ProcessEnds
    /\ \E ok \in FsyncResult : synced' = SyncedAfter(ok)
    /\ mishaps' = mishaps \cup MishapsAtEnd
    /\ UNCHANGED <<now, plain, gz, lines, offsetFile, dlq, nev, accepted, stored, dead, dropped>>

(* Power loss: of each file some prefix survives that includes everything  *)
(* fsynced; repairTails cuts off a half line at the next start.            *)
PowerLoss ==
    /\ "power" \in Faults
    /\ ProcessEnds
    /\ \E keep \in [Days -> 0..MaxEvents] :
         /\ \A d \in Days : synced[d] <= keep[d] /\ keep[d] <= Len(lines[d])
         /\ lines' = [d \in Days |-> SubSeq(lines[d], 1, keep[d])]
         /\ synced' = keep
         /\ mishaps' = mishaps \cup MishapsAtEnd
              \cup (IF \E d \in Days : keep[d] < Len(lines[d]) THEN {"powerLost"} ELSE {})
    /\ UNCHANGED <<now, plain, gz, offsetFile, dlq, nev, accepted, stored, dead, dropped>>

(* The clock moves on, or is set (NTP, an operator) to any day. *)
ClockForward ==
    /\ now < MaxDay
    /\ now' = now + 1
    /\ UNCHANGED <<diskVars, up, writerVars, readerVars, janitorVars, historyVars>>

ClockSetBack ==
    /\ "clock" \in Faults
    /\ \E t \in Days : t < now /\ now' = t
    /\ UNCHANGED <<diskVars, up, writerVars, readerVars, janitorVars, historyVars>>

-----------------------------------------------------------------------------
Receiver == AppendOpen \/ AppendOpenFails \/ AppendWrite \/ AppendWriteFails \/ Sync

Forwarder == ReadBegin \/ ReadFile \/ ReadNothing \/ ReadFails \/ ReadEnd
             \/ PostStored \/ PostRejected \/ Commit

Janitor == CleanupBegin \/ CleanupLocked \/ CompressRename \/ CompressFails
           \/ CompressUnlink \/ CleanupEnd

Environment == Start \/ Crash \/ Stop \/ PowerLoss \/ ClockForward \/ ClockSetBack

Next == Receiver \/ Forwarder \/ Janitor \/ Environment

Spec == Init /\ [][Next]_vars

-----------------------------------------------------------------------------
(***************************************************************************)
(* Properties                                                              *)
(***************************************************************************)

(* Every variable has its type; in particular the writer, the reader and   *)
(* the janitor only ever name files of a day the clock has shown, and      *)
(* every position is a well-formed one.                                    *)
TypeOK ==
    /\ now \in Days
    /\ plain \in SUBSET Days /\ gz \in SUBSET Days
    /\ lines \in [Days -> Seq(Events)]
    /\ synced \in [Days -> Nat]
    /\ offsetFile \in Position
    /\ dlq \in SUBSET Days
    /\ up \in BOOLEAN
    /\ wpc \in {"ready", "write"}
    /\ handle \in {"closed", "open", "unlinked"}
    /\ curName \in Names
    /\ unsynced \in Nat
    /\ committed \in Position /\ inflight \in Position
    /\ fpc \in {"idle", "reading", "read", "deliver", "acked"}
    /\ names \in SUBSET Days
    /\ pos \in Position
    /\ batch \in Seq(Events)
    /\ jpc \in {"idle", "listed", "compress", "unlink"}
    /\ jcurrent \in Names
    /\ jcutoff \in Nat
    /\ todo \in SUBSET Days
    /\ nev \in 0..MaxEvents
    /\ accepted \in SUBSET Events /\ stored \in SUBSET Events
    /\ dead \in SUBSET Events /\ dropped \in SUBSET Events
    /\ mishaps \in SUBSET {"uncounted", "newestRemoved", "inflightLost", "powerLost"}

(* Where reading resumes: in memory, or from the offset file at a start.   *)
Resume == IF up THEN committed ELSE offsetFile

(* Event e is on a line of a plain file that has not been passed.          *)
Pending(e) == \E d \in plain : \E i \in DOMAIN lines[d] :
                  lines[d][i] = e /\ ~IsBefore(d, i, Resume)

InFlight(e) == fpc \in {"deliver", "acked"} /\ e \in Range(batch)

NoLoss == \A e \in accepted : e \in Settled \cup dropped \/ Pending(e) \/ InFlight(e)

(* At least once: every event that Append accepted is stored by the        *)
(* collector, in a dead-letter file, counted as dropped, in the batch in   *)
(* flight or still ahead of the resume position, whatever the interleaving *)
(* of receiver, forwarder and janitor, with crashes at any step, failing   *)
(* writes and any clock.  Only the listed mishaps are excepted.            *)
NoSilentLoss == mishaps = {} => NoLoss

(* Commit never passes over a line that was neither stored nor written to  *)
(* a dead-letter file ("only 2xx, or 4xx after the dead letter, advances   *)
(* the offset"), in memory and in the offset file.                         *)
NothingSkipped ==
    mishaps \cap {"powerLost", "newestRemoved"} = {} =>
        \A d \in plain : \A i \in DOMAIN lines[d] :
            IsBefore(d, i, committed) \/ IsBefore(d, i, offsetFile)
                => lines[d][i] \in Settled

(* File names only grow: no file of the directory is newer than the one    *)
(* being written, so "there is a newer file" means that a file is          *)
(* complete, which is what readBatch relies on when it moves on.           *)
WriterNewest ==
    handle # "closed" => \A d \in plain : d <= curName

(* The names of the files written only grow, even when the clock is set    *)
(* back: what is written lies at or after the read position, so it will be *)
(* read.  (When Cleanup has deleted the newest file, a clock that has gone *)
(* back and a restart put the writer behind the position.)                 *)
WriterAhead ==
    mishaps \cap {"powerLost", "newestRemoved"} = {} /\ handle = "open"
        => curName >= committed.file

(* Delivery in order: when an event is settled, every event accepted       *)
(* before it is settled too or was counted as dropped.                     *)
SettledInOrder ==
    mishaps = {} =>
        \A e \in Settled : \A f \in accepted :
            f < e => f \in Settled \cup dropped

(* While the process runs the committed position never moves back, and a  *)
(* batch that has been delivered moves it on: no event is sent again       *)
(* except after a restart.                                                 *)
NeverRewinds ==
    [][up /\ up' /\ mishaps \cap {"powerLost", "newestRemoved"} = {} =>
          /\ ~Less(committed', committed)
          /\ fpc = "acked" /\ fpc' = "idle" => Less(committed, committed')]_vars

(* "A file that is completely forwarded is no longer read or written":     *)
(* compress needs no lock because neither the reader nor the writer is on  *)
(* a file it works on, and all its lines are settled.                      *)
CompressedQuiet ==
    mishaps \cap {"powerLost", "newestRemoved"} = {} =>
        \A d \in todo :
            /\ handle # "closed" => curName # d
            /\ fpc = "reading" => d \notin Ahead
            /\ Range(lines[d]) \subseteq Settled

-----------------------------------------------------------------------------
(***************************************************************************)
(* What the comments and log messages of spool.go say beyond that.         *)
(***************************************************************************)

(* spool.go:394: the file being written is the one Cleanup cannot delete.  *)
OpenFileKept == handle # "unlinked"

(* spool.go:423: deleting the file of the batch in flight loses nothing,   *)
(* because that batch is still sent.                                       *)
InflightStillSent == mishaps \subseteq {"inflightLost"} => NoLoss

(* spool.go:235: an offset that lies beyond the end of its file, as after  *)
(* a power loss, makes the file be sent again from its beginning; so no    *)
(* line that is in the file afterwards is passed over.                     *)
ResentFromStart ==
    mishaps \subseteq {"powerLost"} =>
        \A d \in plain : \A i \in DOMAIN lines[d] :
            IsBefore(d, i, committed) /\ fpc = "idle" =>
                \/ lines[d][i] \in Settled
                \/ committed.off > Len(lines[d])

-----------------------------------------------------------------------------
(***************************************************************************)
(* The inductive invariant.  Calm excludes the two mishaps that change     *)
(* files under the feet of the reader and of the writer.                   *)
(***************************************************************************)
Calm == mishaps \cap {"powerLost", "newestRemoved"} = {}

Reading == fpc \in {"reading", "read"}
Sending == fpc \in {"deliver", "acked"}

(* A stopped process has no state; todo belongs to a running compression.  *)
DownIsEmpty ==
    /\ ~up => handle = "closed" /\ fpc = "idle" /\ todo = {}
    /\ fpc = "idle" => names = {} /\ pos = NoPos /\ batch = << >>
    /\ wpc = "write" => handle # "closed"
    /\ jpc \in {"idle", "listed"} => todo = {}
    /\ jpc = "unlink" => todo # {}

(* The open file is in the directory and it is the newest one.             *)
OpenFile ==
    /\ handle = "open" => curName \in plain
    /\ WriterNewest
    /\ Calm => handle # "unlinked"

(* inflight reserves exactly the batch being sent.                         *)
InflightTracks == IF Sending THEN inflight = pos ELSE inflight = committed

(* A position can be reached by the writer but not overtaken: some file is *)
(* at or after it, and it is not beyond the end of its own file.           *)
Reachable(p) ==
    /\ p.file = 0 \/ \E d \in plain : p.file <= d
    /\ p.file \in plain => p.off <= Len(lines[p.file])

(* Every line before p is settled. *)
SettledBefore(p) ==
    \A d \in plain : \A i \in DOMAIN lines[d] :
        IsBefore(d, i, p) => lines[d][i] \in Settled

Positions ==
    Calm => /\ Reachable(committed) /\ Reachable(offsetFile) /\ Reachable(pos)
            /\ SettledBefore(committed) /\ SettledBefore(offsetFile)

(* The batch holds every line between committed and pos; the listing still *)
(* has every file from committed on, but for files newer than all of it.   *)
BatchCovers ==
    Calm => /\ fpc # "idle" =>
                 /\ ~Less(pos, committed)
                 /\ \A d \in plain : \A i \in DOMAIN lines[d] :
                      IsBefore(d, i, pos) =>
                          IsBefore(d, i, committed) \/ lines[d][i] \in Range(batch)
            /\ fpc = "reading" =>
                 /\ \A d \in plain : d \in names \/ \A n \in names : n < d
                 /\ \A n \in names : committed.file <= n => n \in plain

AckedSettled == fpc = "acked" => Range(batch) \subseteq Settled

TodoBehind == Calm => \A d \in todo : d < committed.file

Retained ==
    mishaps = {} =>
        \A e \in accepted :
            \/ e \in Settled \cup dropped
            \/ \E d \in plain : e \in Range(lines[d])
            \/ InFlight(e)

SpoolInv ==
    /\ TypeOK
    /\ DownIsEmpty
    /\ OpenFile
    /\ InflightTracks
    /\ Positions
    /\ BatchCovers
    /\ AckedSettled
    /\ TodoBehind
    /\ Retained
=============================================================================
