----------------------------- MODULE SpoolFile -----------------------------
(***************************************************************************)
(* The spool files of the agent (internal/agent/spool.go) below the level  *)
(* of lines: a write may stop in the middle of a line, and what makes the  *)
(* files sequences of whole lines again is the Truncate of Append and the  *)
(* repairTails of OpenSpool, both of which may fail.  Spool builds on what *)
(* is shown here: what Append has accepted is read as a line of its own.   *)
(*                                                                         *)
(* Abstractions.  A line is two pieces of data: a first piece, and a rest  *)
(* that ends in the newline.  A write stops before, between or after them. *)
(* Sizes and offsets count pieces.  A line is valid JSON exactly when it   *)
(* is the two pieces of one event: anything glued to a record is not.      *)
(* Positions, batches and fsync are in Spool.                              *)
(***************************************************************************)
EXTENDS Integers, SequencesExt

CONSTANTS
    MaxDay,     \* bound: the clock shows a day of 1..MaxDay
    MaxEvents,  \* bound: datagrams received
    Chunk,      \* the buffer of completeLength, counted in pieces
    MaxFailures \* bound: failing calls, crashes and losses of power

ASSUME SpoolFileAssumption ==
    /\ MaxDay \in Nat \ {0}
    /\ MaxEvents \in Nat
    /\ Chunk \in Nat \ {0}
    /\ MaxFailures \in Nat

Days   == 1..MaxDay
Events == 1..MaxEvents
Pieces == [event : Events, newline : BOOLEAN]

First(e) == [event |-> e, newline |-> FALSE]
Rest(e)  == [event |-> e, newline |-> TRUE]

VARIABLES
    now,        \* the system clock
    plain,      \* days that have a plain .jsonl file
    file,       \* file[d]: the pieces in the file of day d
    up,         \* the process runs
    wpc,        \* Append: "ready", "write", "half" written, "failed"
    open,       \* s.cur is a file of the directory
    orphan,     \* s.cur is a file that Cleanup has removed
    curName,    \* s.curName
    curSize,    \* s.curSize
    nev,        \* datagrams received so far
    accepted,   \* events whose Append returned nil
    sound,      \* those of them that were put on a clean file
    failures,   \* bound on what goes wrong
    mishaps     \* what went wrong and was not made good

writerVars  == <<up, wpc, open, orphan, curName, curSize>>
historyVars == <<nev, accepted, sound>>
fileVars == <<now, plain, file, writerVars, historyVars, failures, mishaps>>

FileInit ==
    /\ now \in Days
    /\ plain = {} /\ file = [d \in Days |-> << >>]
    /\ up = FALSE /\ wpc = "ready" /\ open = FALSE /\ orphan = FALSE
    /\ curName = 0 /\ curSize = 0
    /\ nev = 0 /\ accepted = {} /\ sound = {} /\ failures = 0 /\ mishaps = {}

Failure == failures < MaxFailures /\ failures' = failures + 1

-----------------------------------------------------------------------------
(***************************************************************************)
(* Lines                                                                   *)
(***************************************************************************)

(* Where the lines of s after offset off end: readFrom and tailRead read   *)
(* up to the next newline and leave what follows the last one.             *)
LineEnds(s, off) == {i \in off + 1..Len(s) : s[i].newline}

LineStart(s, off, end) == Max({off} \cup {i \in LineEnds(s, off) : i < end}) + 1

(* json.Valid, for the line that ends at end. *)
IsRecord(s, off, end) ==
    \E e \in Events : SubSeq(s, LineStart(s, off, end), end) = <<First(e), Rest(e)>>

(* The events that readFrom finds from the beginning of a file: lines that *)
(* are not valid are passed over.                                          *)
Records(s) == {s[end].event : end \in {i \in LineEnds(s, 0) : IsRecord(s, 0, i)}}

(* What completeLength is to find out: the length of the whole lines of s. *)
WholeLines(s) == Max({0} \cup LineEnds(s, 0))

(* Mutant of CompleteLength: a file without a newline counts as complete. *)
CompleteLengthNoNewline(s) == IF WholeLines(s) \in {0, Len(s)} THEN -1 ELSE WholeLines(s)

(* completeLength: chunk by chunk from the end, the last newline; -1 if    *)
(* nothing follows it.                                                     *)
CompleteLength(s) ==
    LET scan[end \in 0..Len(s)] ==
          IF end = 0
          THEN IF Len(s) = 0 THEN -1 ELSE 0
          ELSE LET start == Max({end - Chunk, 0})
                   found == {i \in start + 1..end : s[i].newline}
               IN  IF found = {} THEN scan[start]
                   ELSE IF Max(found) # Len(s) THEN Max(found) ELSE -1
    IN  scan[Len(s)]

-----------------------------------------------------------------------------
(***************************************************************************)
(* Append                                                                  *)
(***************************************************************************)
HasFile  == open \/ orphan
MustOpen == ~HasFile \/ now > curName

(* A line can be written to the file that is open. *)
MayWrite == wpc = "write" \/ (wpc = "ready" /\ open /\ ~MustOpen)

(* Mutant of OpenName: files on disk are not looked at. *)
OpenNameToday(listed) == now

(* openLocked: listed is what plainNames returns, nothing if ReadDir fails.*)
OpenName(listed) == IF ~HasFile /\ \E d \in listed : d > now THEN Max(listed) ELSE now

OpenFile(listed) ==
    /\ up /\ wpc = "ready" /\ MustOpen /\ nev < MaxEvents
    /\ plain' = plain \cup {OpenName(listed)}
    /\ open' = TRUE /\ orphan' = FALSE /\ curName' = OpenName(listed)
    /\ curSize' = Len(file[OpenName(listed)])
    /\ wpc' = "write"
    /\ UNCHANGED <<now, file, up, historyVars>>

AppendOpen == OpenFile(plain) /\ UNCHANGED <<failures, mishaps>>

(* ReadDir fails: a newer file is not seen. *)
AppendOpenBlind ==
    /\ Failure
    /\ OpenFile({})
    /\ mishaps' = IF OpenName(plain) # OpenName({}) THEN mishaps \cup {"listing"} ELSE mishaps

(* OpenFile or Stat fails, the file of the day before has been closed and  *)
(* the new one may have been created.                                      *)
AppendOpenFails ==
    /\ Failure
    /\ up /\ wpc = "ready" /\ MustOpen /\ nev < MaxEvents
    /\ plain' \in {plain, plain \cup {OpenName(plain)}}
    /\ open' = FALSE /\ orphan' = FALSE
    /\ nev' = nev + 1
    /\ UNCHANGED <<now, file, up, wpc, curName, curSize, accepted, sound, mishaps>>

Event == nev + 1

(* The first piece of the line is written, at the end of the file. *)
AppendFirst ==
    /\ up /\ nev < MaxEvents /\ MayWrite
    /\ file' = [file EXCEPT ![curName] = Append(@, First(Event))]
    /\ wpc' = "half"
    /\ UNCHANGED <<now, plain, up, open, orphan, curName, curSize, historyVars, failures, mishaps>>

(* The line before this one is whole and curSize counts all of the file.   *)
OnCleanFile ==
    /\ curSize = Len(file[curName]) - 1
    /\ WholeLines(file[curName]) = curSize

(* Mutant of AppendRest: curSize is not brought up to date. *)
AppendRestKeepsSize ==
    /\ up /\ wpc = "half"
    /\ file' = [file EXCEPT ![curName] = Append(@, Rest(Event))]
    /\ wpc' = "ready"
    /\ nev' = nev + 1 /\ accepted' = accepted \cup {Event}
    /\ sound' = IF OnCleanFile THEN sound \cup {Event} ELSE sound
    /\ UNCHANGED <<now, plain, up, open, orphan, curName, curSize, failures, mishaps>>

(* The rest is written, and Append returns nil. *)
AppendRest ==
    /\ up /\ wpc = "half"
    /\ file' = [file EXCEPT ![curName] = Append(@, Rest(Event))]
    /\ curSize' = curSize + 2
    /\ wpc' = "ready"
    /\ nev' = nev + 1 /\ accepted' = accepted \cup {Event}
    /\ sound' = IF OnCleanFile THEN sound \cup {Event} ELSE sound
    /\ UNCHANGED <<now, plain, up, open, orphan, curName, failures, mishaps>>

(* The write stops, before the line or in the middle of it (disk full). *)
AppendFails ==
    /\ Failure
    /\ up /\ nev < MaxEvents
    /\ wpc = "half" \/ MayWrite
    /\ wpc' = "failed"
    /\ UNCHANGED <<now, plain, file, up, open, orphan, curName, curSize, historyVars, mishaps>>

(* Truncate cuts the half line off; it would lengthen a shorter file, but  *)
(* no file is shorter than curSize.                                        *)
Truncate ==
    /\ up /\ wpc = "failed"
    /\ file' = [file EXCEPT ![curName] = SubSeq(@, 1, curSize)]
    /\ wpc' = "ready"
    /\ nev' = nev + 1
    /\ UNCHANGED <<now, plain, up, open, orphan, curName, curSize, accepted, sound, failures,
                   mishaps>>

(* Truncate fails, and its error is ignored. *)
TruncateFails ==
    /\ Failure
    /\ up /\ wpc = "failed"
    /\ wpc' = "ready"
    /\ nev' = nev + 1
    /\ mishaps' = IF Len(file[curName]) # curSize THEN mishaps \cup {"truncate"} ELSE mishaps
    /\ UNCHANGED <<now, plain, file, up, open, orphan, curName, curSize, accepted, sound>>

-----------------------------------------------------------------------------
(***************************************************************************)
(* Start and end of the process                                            *)
(***************************************************************************)

(* repairTails on the files it can read and cut. *)
Repaired(days) ==
    [d \in Days |-> IF d \in days /\ CompleteLength(file[d]) >= 0
                    THEN SubSeq(file[d], 1, CompleteLength(file[d]))
                    ELSE file[d]]

(* OpenSpool: every half line is cut off ... *)
Start ==
    /\ ~up
    /\ up' = TRUE
    /\ file' = Repaired(plain)
    /\ UNCHANGED <<now, plain, wpc, open, orphan, curName, curSize, historyVars, failures, mishaps>>

(* ... unless the directory or a file cannot be read, or not be cut.       *)
StartUnrepaired ==
    /\ Failure
    /\ ~up
    /\ up' = TRUE
    /\ \E days \in SUBSET plain :
         /\ file' = Repaired(days)
         /\ mishaps' = IF Repaired(days) # Repaired(plain) THEN mishaps \cup {"repair"} ELSE mishaps
    /\ UNCHANGED <<now, plain, wpc, open, orphan, curName, curSize, historyVars>>

Ended ==
    /\ up' = FALSE /\ wpc' = "ready" /\ open' = FALSE /\ orphan' = FALSE
    /\ curName' = 0 /\ curSize' = 0
    /\ nev' = IF wpc = "ready" THEN nev ELSE nev + 1

(* The process is killed, or stops between two datagrams. *)
Crash ==
    /\ Failure
    /\ up /\ Ended
    /\ UNCHANGED <<now, plain, file, accepted, sound, mishaps>>

Stop ==
    /\ up /\ wpc = "ready" /\ Ended
    /\ UNCHANGED <<now, plain, file, accepted, sound, failures, mishaps>>

(* Power loss: what was written last is missing from the open file, down   *)
(* to the middle of a line.                                                *)
PowerLoss ==
    /\ Failure
    /\ up /\ open /\ Ended
    /\ \E n \in 0..Len(file[curName]) - 1 :
         file' = [file EXCEPT ![curName] = SubSeq(@, 1, n)]
    /\ mishaps' = mishaps \cup {"power"}
    /\ UNCHANGED <<now, plain, accepted, sound>>

(* Cleanup removes or compresses a file that is not open (Spool says       *)
(* which), ...                                                             *)
CleanupRemove ==
    /\ up
    /\ \E d \in plain : ~(open /\ d = curName) /\
         /\ plain' = plain \ {d}
         /\ file' = [file EXCEPT ![d] = << >>]
         /\ accepted' = accepted \ Records(file[d])
         /\ sound' = sound \ Records(file[d])
         /\ mishaps' = IF d = Max(plain) THEN mishaps \cup {"newest"} ELSE mishaps
    /\ UNCHANGED <<now, writerVars, nev, failures>>

(* ... or the one that is, if Append has opened it since Cleanup looked at *)
(* curName.  The Append under way ends in the file that is gone, ...       *)
CleanupRemoveOpen ==
    /\ up /\ open
    /\ plain' = plain \ {curName}
    /\ file' = [file EXCEPT ![curName] = << >>]
    /\ accepted' = accepted \ Records(file[curName])
    /\ sound' = sound \ Records(file[curName])
    /\ mishaps' = mishaps \cup {"open"} \cup (IF curName = Max(plain) THEN {"newest"} ELSE {})
    /\ open' = FALSE /\ orphan' = TRUE
    /\ wpc' = "ready" /\ nev' = IF wpc = "ready" THEN nev ELSE nev + 1
    /\ UNCHANGED <<now, up, curName, curSize, failures>>

(* ... and so does every other until the next day. *)
AppendOrphan ==
    /\ up /\ orphan /\ wpc = "ready" /\ ~MustOpen /\ nev < MaxEvents
    /\ nev' = nev + 1 /\ accepted' = accepted \cup {Event}
    /\ UNCHANGED <<now, plain, file, writerVars, sound, failures, mishaps>>

(* The clock moves on or is set back. *)
SetClock ==
    /\ \E t \in Days \ {now} : now' = t
    /\ UNCHANGED <<plain, file, writerVars, historyVars, failures, mishaps>>

(* Everything but PowerLoss, which ends every process. *)
FileNext ==
    \/ AppendOpen \/ AppendOpenBlind \/ AppendOpenFails \/ AppendFirst \/ AppendRest
    \/ AppendFails \/ Truncate \/ TruncateFails \/ Start \/ StartUnrepaired
    \/ Crash \/ Stop \/ CleanupRemove \/ CleanupRemoveOpen \/ AppendOrphan \/ SetClock

-----------------------------------------------------------------------------
(***************************************************************************)
(* Properties                                                              *)
(***************************************************************************)

OnDisk == UNION {Records(file[d]) : d \in plain}

(* What Append accepted is found by readFrom as a line of its own, however *)
(* writes fail and crashes come in between: Truncate and repairTails leave *)
(* no half line behind for it to be glued to.  Excepted are losses of      *)
(* power, the failure of Truncate or of repairTails itself, and an open    *)
(* file that Cleanup has removed.                                          *)
LinesIntact ==
    mishaps \cap {"truncate", "repair", "power", "open"} = {} => accepted \subseteq OnDisk

(* Even if Truncate or repairTails fails, a line put on a clean file stays *)
(* what it was: a later Truncate with a curSize that has fallen behind the *)
(* file, or a repair, cuts only what came after it.                        *)
SoundLinesStay == "power" \notin mishaps => sound \subseteq OnDisk

(* completeLength, which looks for the last newline chunk by chunk, finds  *)
(* the length of the whole lines of every file there can be, or that there *)
(* is nothing to cut.                                                      *)
RepairExact ==
    \A d \in plain :
        CompleteLength(file[d]) = IF WholeLines(file[d]) = Len(file[d]) THEN -1
                                  ELSE WholeLines(file[d])

(* The writer is on the newest file unless the directory could not be      *)
(* listed when it opened its first one.                                    *)
OnNewest == HasFile /\ "listing" \notin mishaps => \A d \in plain : d <= curName
=============================================================================
