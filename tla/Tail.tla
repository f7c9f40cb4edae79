-------------------------------- MODULE Tail --------------------------------
(***************************************************************************)
(* The command "agent tail" (internal/agent/cli.go), a process of its own  *)
(* that follows the spool files while the agent writes, rotates, repairs   *)
(* and removes them.  It starts at the end of the newest plain file, polls *)
(* it, and moves on when a newer file appears.                             *)
(***************************************************************************)
EXTENDS SpoolFile

CONSTANT Garbage    \* what is printed for a line that is not a record

ASSUME TailAssumption == Garbage \notin Events

VARIABLES
    tpc,        \* "off", or where the loop is: "read", "look", "again", "switch", "wait"
    cur,        \* the file followed, 0 if there is none
    off,        \* the offset in it
    latest,     \* the result of latestSpool
    printed     \* what has been printed since the start

tailVars == <<tpc, cur, off, latest, printed>>
vars == <<fileVars, tailVars>>

Init ==
    /\ FileInit
    /\ tpc = "off" /\ cur = 0 /\ off = 0 /\ latest = 0 /\ printed = << >>

TailEnds == tpc' = "off" /\ cur' = 0 /\ off' = 0 /\ latest' = 0 /\ printed' = << >>

LatestSpool == Max({0} \cup plain)

(* cmdTail, and Tail up to its loop. *)
TailStart ==
    /\ tpc = "off"
    /\ cur' = LatestSpool
    /\ off' = IF plain = {} THEN 0 ELSE Len(file[LatestSpool])
    /\ tpc' = "read"
    /\ UNCHANGED <<fileVars, latest, printed>>

(* tailRead: from the offset, or from the beginning of a file that has     *)
(* become shorter; a line without its newline is left for the next time.   *)
From == IF off > Len(file[cur]) THEN 0 ELSE off
Ends == LineEnds(file[cur], From)

FormatTailLine(end) ==
    IF IsRecord(file[cur], From, end) THEN file[cur][end].event ELSE Garbage

(* The lines are printed from the first to the last. *)
PrintLines ==
    \E ends \in [1..Cardinality(Ends) -> Ends] :
        /\ \A i, j \in DOMAIN ends : i < j => ends[i] < ends[j]
        /\ printed' = printed \o [i \in DOMAIN ends |-> FormatTailLine(ends[i])]

(* Mutant of TailRead: the new offset is the size of the file. *)
TailReadToEnd ==
    IF cur \in plain
    THEN off' = Len(file[cur]) /\ PrintLines
    ELSE UNCHANGED <<off, printed>>

TailRead ==
    IF cur \in plain
    THEN off' = Max({From} \cup Ends) /\ PrintLines
    ELSE UNCHANGED <<off, printed>>

TailPoll ==
    /\ tpc = "read"
    /\ TailRead
    /\ tpc' = "look"
    /\ UNCHANGED <<fileVars, cur, latest>>

(* Mutant of TailLook: the old file is not read again. *)
TailLookOnce ==
    /\ tpc = "look"
    /\ latest' = LatestSpool
    /\ tpc' = IF LatestSpool > cur THEN "switch" ELSE "wait"
    /\ UNCHANGED <<fileVars, cur, off, printed>>

(* latestSpool: is there a newer file? *)
TailLook ==
    /\ tpc = "look"
    /\ latest' = LatestSpool
    /\ tpc' = IF LatestSpool > cur THEN "again" ELSE "wait"
    /\ UNCHANGED <<fileVars, cur, off, printed>>

(* If so, what has come to the old one in between is read first. *)
TailAgain ==
    /\ tpc = "again"
    /\ TailRead
    /\ tpc' = "switch"
    /\ UNCHANGED <<fileVars, cur, latest>>

TailSwitch ==
    /\ tpc = "switch"
    /\ cur' = latest /\ off' = 0
    /\ tpc' = "read"
    /\ UNCHANGED <<fileVars, latest, printed>>

TailWait ==
    /\ tpc = "wait"
    /\ tpc' = "read"
    /\ UNCHANGED <<fileVars, cur, off, latest, printed>>

(* ctx.Done, seen while waiting. *)
TailExit == tpc = "wait" /\ TailEnds /\ UNCHANGED fileVars

TailNext == TailStart \/ TailPoll \/ TailLook \/ TailAgain \/ TailSwitch \/ TailWait
            \/ TailExit

Next == TailNext \/ (FileNext /\ UNCHANGED tailVars) \/ (PowerLoss /\ TailEnds)

Spec == Init /\ [][Next]_vars

-----------------------------------------------------------------------------
(* Every variable has its type: the writer and tail name only files of     *)
(* days the clock has shown, and curSize never exceeds the open file.      *)
TypeOK ==
    /\ now \in Days /\ plain \subseteq Days
    /\ file \in [Days -> Seq(Pieces)]
    /\ up \in BOOLEAN /\ open \in BOOLEAN /\ orphan \in BOOLEAN
    /\ wpc \in {"ready", "write", "half", "failed"}
    /\ curName \in 0..MaxDay
    /\ curSize \in Nat /\ (open => curSize <= Len(file[curName]))
    /\ nev \in 0..MaxEvents /\ sound \subseteq accepted /\ accepted \subseteq Events
    /\ failures \in 0..MaxFailures
    /\ mishaps \subseteq {"truncate", "repair", "power", "listing", "newest", "open"}
    /\ tpc \in {"off", "read", "look", "again", "switch", "wait"}
    /\ cur \in 0..MaxDay /\ latest \in 0..MaxDay /\ off \in Nat
    /\ printed \in Seq(Events \cup {Garbage})

(* "When a new file appears, the rest of the old one is read before tail   *)
(* moves on" (cli.go:334): no line of the file it leaves is missing,       *)
(* although the agent goes on writing between any two steps of tail.       *)
(* Excepted is an agent that goes back to an older file because it could   *)
(* not list the directory or has removed the newest file.                  *)
LeavesNothing ==
    [][cur' > cur /\ cur \in plain /\ mishaps \cap {"listing", "newest"} = {}
          => off >= WholeLines(file[cur])]_vars

(* Lines are printed in the order they were received and once each, also   *)
(* when half lines come and go and the agent restarts; only the first may  *)
(* be the rest of a line that was being written when tail started.         *)
PrintedInOrder ==
    mishaps = {} =>
        \A i \in DOMAIN printed : i > 1 =>
            /\ printed[i] # Garbage
            /\ \A j \in 1..i - 1 : printed[j] # Garbage => printed[j] < printed[i]

(* The files are in order: repairTails would cut half lines and nothing    *)
(* else, the writer is on the newest file unless it could not see it, and  *)
(* everything has its type.                                                *)
FilesSound == TypeOK /\ RepairExact /\ OnNewest
=============================================================================
