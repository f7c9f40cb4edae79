----------------------------- MODULE TailProofs -----------------------------
(***************************************************************************)
(* FilesSound, LinesIntact, SoundLinesStay, LeavesNothing and              *)
(* PrintedInOrder for any number of days, events and failures and any size *)
(* of the buffer of completeLength.                                        *)
(*                                                                         *)
(* The invariants of the files do not mention tail.  What was accepted is  *)
(* in what a Truncate would leave (SoundKept), because curSize never lies  *)
(* behind the line (WriterInv); unless something was left undone every     *)
(* file but the open one ends with a newline (CleanFiles); and without any *)
(* mishap the files hold one record after the other in the order of their  *)
(* events (Orderly).  tail relies on them: where it is (TailAt), what it   *)
(* has printed is older than what it has still to read, and by the time it *)
(* leaves a file the writer has left it (LeavesBehind).                    *)
(*                                                                         *)
(* completeLength is a recursive function.  What it computes is shown      *)
(* without an induction theorem: a function that satisfies the recursion   *)
(* is written down, and if another one differed from it, it would differ   *)
(* at a least argument.                                                    *)
(***************************************************************************)
EXTENDS Tail, FiniteSetTheorems, SequenceTheorems, WellFoundedInduction, TLAPS

(* The types of SpoolFile's variables, and of tail's. *)
FileTypes ==
    /\ now \in Days /\ plain \subseteq Days
    /\ file \in [Days -> Seq(Pieces)]
    /\ up \in BOOLEAN /\ open \in BOOLEAN /\ orphan \in BOOLEAN
    /\ wpc \in {"ready", "write", "half", "failed"}
    /\ curName \in 0..MaxDay
    /\ curSize \in Nat /\ (open => curSize <= Len(file[curName]))
    /\ nev \in 0..MaxEvents /\ sound \subseteq accepted /\ accepted \subseteq Events
    /\ failures \in 0..MaxFailures
    /\ mishaps \subseteq {"truncate", "repair", "power", "listing", "newest", "open"}

TailTypes ==
    /\ tpc \in {"off", "read", "look", "again", "switch", "wait"}
    /\ cur \in 0..MaxDay /\ latest \in 0..MaxDay /\ off \in Nat
    /\ printed \in Seq(Events \cup {Garbage})

(* The writer is at work only while the process runs, on an open file that *)
(* is on disk, or has been removed; a half line is the first piece of the  *)
(* event in hand.                                                          *)
WriterInv ==
    /\ ~up => wpc = "ready" /\ ~HasFile
    /\ orphan => ~open /\ "open" \in mishaps
    /\ wpc # "ready" => open /\ nev < MaxEvents
    /\ open => curName \in plain
    /\ \A d \in Days \ plain : file[d] = << >>
    /\ wpc = "half" => LET s == file[curName] IN Len(s) > curSize /\ s[Len(s)] = First(Event)

(* What a Truncate would leave of the file of day d. *)
Kept(d) == IF open /\ d = curName THEN SubSeq(file[d], 1, curSize) ELSE file[d]

SoundKept ==
    "power" \notin mishaps => \A e \in sound : \E d \in plain : e \in Records(Kept(d))

(* If nothing was left undone, there is at most one half line: the one     *)
(* that is being written, at the end of the open file, behind curSize.     *)
Unharmed == mishaps \cap {"truncate", "repair", "power", "open"} = {}

CleanFiles ==
    Unharmed =>
        /\ accepted \subseteq sound
        /\ up => \A d \in plain : ~(open /\ d = curName) => WholeLines(file[d]) = Len(file[d])
        /\ open => /\ WholeLines(file[curName]) = curSize
                   /\ wpc \in {"ready", "write"} => Len(file[curName]) = curSize
                   /\ wpc = "half"   => Len(file[curName]) = curSize + 1
                   /\ wpc = "failed" => Len(file[curName]) \in {curSize, curSize + 1}

(* tail leaves a file only for a newer one, and by then the writer has     *)
(* left it.                                                                *)
NewerThan(d) == \E e \in plain : e > d

LeavesBehind ==
    /\ tpc \in {"again", "switch"} => latest > cur
    /\ mishaps \cap {"listing", "newest"} = {} =>
         /\ tpc \in {"again", "switch"} => NewerThan(cur)
         /\ tpc = "switch" /\ cur \in plain => off >= WholeLines(file[cur])

(* Lines are records one after the other, in the order of their events.    *)
Alternates(s) ==
    \A i \in 1..Len(s) : /\ s[i].newline => i > 1 /\ s[i - 1] = First(s[i].event)
                         /\ ~s[i].newline => i = 1 \/ s[i - 1].newline

Ascends(s) ==
    \A i, j \in 1..Len(s) : i < j => /\ s[i].event <= s[j].event
                                     /\ ~s[j].newline => s[i].event < s[j].event

(* The newest event that a file may hold. *)
InHand == IF wpc \in {"half", "failed"} THEN nev + 1 ELSE nev

Bounded(s) == \A i \in 1..Len(s) : /\ s[i].event <= InHand
                                   /\ s[i].newline => s[i].event <= nev

Orderly ==
    mishaps = {} =>
        /\ \A d \in Days : Alternates(file[d]) /\ Ascends(file[d]) /\ Bounded(file[d])
        /\ \A d, e \in Days : d < e =>
              \A i \in 1..Len(file[d]), j \in 1..Len(file[e]) :
                  file[d][i].event < file[e][j].event

(* Where tail is: its file is there, or there is a newer one; it is at the *)
(* end of a line once it has printed something; and what it has still to   *)
(* read is newer than what it has printed.                                 *)
FileThere(d) == d \in plain \/ NewerThan(d)

AtLine ==
    printed # << >> /\ cur \in plain =>
        off <= Len(file[cur]) /\ (off = 0 \/ file[cur][off].newline)

PrintedOlder ==
    \A k \in DOMAIN printed : printed[k] # Garbage =>
        /\ printed[k] <= nev
        /\ \A d \in Days : \A i \in 1..Len(file[d]) :
              d > cur \/ (d = cur /\ i > off) => printed[k] < file[d][i].event

TailAt ==
    /\ tpc = "off" => printed = << >> /\ cur = 0
    /\ mishaps = {} =>
         /\ tpc # "off" => cur = 0 \/ FileThere(cur)
         /\ tpc \in {"again", "switch"} => FileThere(latest)
         /\ AtLine
         /\ PrintedOlder

FileIInv == FileTypes /\ WriterInv /\ SoundKept /\ CleanFiles /\ OnNewest /\ Orderly

TailIInv == FileIInv /\ TailTypes /\ LeavesBehind /\ TailAt /\ PrintedInOrder

-----------------------------------------------------------------------------
(***************************************************************************)
(* Greatest elements                                                       *)
(***************************************************************************)

(* A set of naturals has a least element. *)
LEMMA LeastOf ==
    ASSUME NEW T, T \subseteq Nat, T # {}
    PROVE  \E x \in T : \A y \in T : x <= y
<1>1. PICK x \in T : \A y \in T : ~(<<y, x>> \in OpToRel(<, Nat))
  BY NatLessThanWellFounded, WFMin, Zenon
<1> DEFINE R == OpToRel(<, Nat)
<1>2. R = {ss \in Nat \X Nat : ss[1] < ss[2]}
  BY Zenon DEF OpToRel
<1>3. \A y \in T : ~(<<y, x>> \in R)
  BY <1>1, Zenon
<1> HIDE DEF R
<1>4. \A y \in Nat : y < x => <<y, x>> \in R
  BY <1>2
<1>5. \A y \in T : ~(y < x)
  BY <1>3, <1>4, Zenon
<1> QED BY <1>5

(* A bounded set of naturals has a greatest element, which is its Max. *)
LEMMA MaxOf ==
    ASSUME NEW n \in Nat, NEW S, S \subseteq 0..n, S # {}
    PROVE  Max(S) \in S /\ \A y \in S : y <= Max(S)
<1> DEFINE R == {n - y : y \in S}
<1>1. R \subseteq Nat /\ R # {}
  <2>1. PICK x \in S : TRUE
    OBVIOUS
  <2>2. n - x \in R
    OBVIOUS
  <2>3. \A y \in S : n - y \in Nat
    OBVIOUS
  <2> QED BY <2>2, <2>3
<1>2. PICK m \in R : \A y \in R : m <= y
  <2> HIDE DEF R
  <2> QED BY <1>1, LeastOf
<1>3. PICK x \in S : m = n - x
  BY <1>2
<1>4. \A y \in S : x >= y
  BY <1>2, <1>3
<1> QED BY <1>4 DEF Max

(* The whole lines of a file end at its last newline. *)
LEMMA WholeLinesIs ==
    ASSUME NEW s \in Seq(Pieces)
    PROVE  /\ WholeLines(s) \in 0..Len(s)
           /\ WholeLines(s) # 0 => s[WholeLines(s)].newline
           /\ \A i \in 1..Len(s) : s[i].newline => i <= WholeLines(s)
<1> DEFINE S == {0} \cup LineEnds(s, 0)
<1>1. Len(s) \in Nat
  BY LenProperties
<1>2. S \subseteq 0..Len(s) /\ S # {}
  BY <1>1 DEF LineEnds
<1>3. Max(S) \in S /\ \A y \in S : y <= Max(S)
  <2> HIDE DEF S
  <2> QED BY <1>1, <1>2, MaxOf
<1>4. WholeLines(s) = Max(S)
  BY DEF WholeLines
<1> HIDE DEF S
<1>5. \A i \in 1..Len(s) : s[i].newline => i \in S
  BY DEF S, LineEnds
<1>6. \A i \in S : i = 0 \/ (i \in 1..Len(s) /\ s[i].newline)
  BY <1>1 DEF S, LineEnds
<1> QED BY <1>1, <1>2, <1>3, <1>4, <1>5, <1>6


(* The greater of two numbers. *)
LEMMA MaxOfTwo ==
    ASSUME NEW a \in Int, NEW b \in Int
    PROVE  Max({a, b}) = IF a >= b THEN a ELSE b
<1>1. \E x \in {a, b} : \A y \in {a, b} : x >= y
  OBVIOUS
<1> QED BY <1>1 DEF Max

(* completeLength finds what it is to find, in chunks of any size: where   *)
(* it is when it has gone through the file from the end down to a place,   *)
(* what it returns depends only on the last newline before that place.     *)
LEMMA CompleteLengthIs ==
    ASSUME NEW s \in Seq(Pieces)
    PROVE  CompleteLength(s) = IF WholeLines(s) = Len(s) THEN -1 ELSE WholeLines(s)
<1> DEFINE start(end)     == Max({end - Chunk, 0})
           found(from, end) == {i \in from + 1..end : s[i].newline}
           Body(f, end) ==
              IF end = 0
              THEN IF Len(s) = 0 THEN -1 ELSE 0
              ELSE IF found(start(end), end) = {} THEN f[start(end)]
                   ELSE IF Max(found(start(end), end)) # Len(s)
                        THEN Max(found(start(end), end)) ELSE -1
           scan[end \in 0..Len(s)] ==
              IF end = 0
              THEN IF Len(s) = 0 THEN -1 ELSE 0
              ELSE IF found(start(end), end) = {} THEN scan[start(end)]
                   ELSE IF Max(found(start(end), end)) # Len(s)
                        THEN Max(found(start(end), end)) ELSE -1
           Result(end) ==
              IF found(0, end) = {} THEN IF Len(s) = 0 THEN -1 ELSE 0
              ELSE IF Max(found(0, end)) # Len(s) THEN Max(found(0, end)) ELSE -1
<1>1. CompleteLength(s) = scan[Len(s)]
  BY Zenon DEF CompleteLength, scan
<1>2. scan = CHOOSE f : f = [end \in 0..Len(s) |-> Body(f, end)]
  BY Zenon DEF scan
<1>3. Len(s) \in Nat /\ Chunk \in Nat /\ Chunk > 0
  BY SpoolFileAssumption, LenProperties
<1>4. \A end \in 1..Len(s) : start(end) \in 0..end - 1
  <2> TAKE end \in 1..Len(s)
  <2>1. end - Chunk \in Int /\ 0 \in Int
    BY <1>3
  <2> QED BY <1>3, <2>1, MaxOfTwo
<1>5. \A end \in 0..Len(s) : \A from \in 0..end : found(from, end) # {} =>
         /\ Max(found(from, end)) \in found(from, end)
         /\ \A y \in found(from, end) : y <= Max(found(from, end))
  <2> SUFFICES ASSUME NEW end \in 0..Len(s), NEW from \in 0..end, found(from, end) # {}
               PROVE  /\ Max(found(from, end)) \in found(from, end)
                      /\ \A y \in found(from, end) : y <= Max(found(from, end))
    OBVIOUS
  <2>1. end \in Nat /\ found(from, end) \subseteq 0..end
    BY <1>3
  <2> HIDE DEF found
  <2> QED BY <2>1, MaxOf
<1>6. \A end \in 0..Len(s), from \in 0..Len(s), i \in Int :
         i \in found(from, end) <=> from < i /\ i <= end /\ s[i].newline
  BY <1>3
<1>7. \A end \in 0..Len(s), from \in 0..Len(s) : found(from, end) \subseteq Int
  BY <1>3
<1> HIDE DEF found, start
<1>8. \A g : \A end \in 1..Len(s) :
         (\A k \in 0..Len(s) : k < end => g[k] = Result(k)) => Body(g, end) = Result(end)
  <2> SUFFICES ASSUME NEW g, NEW end \in 1..Len(s),
                      \A k \in 0..Len(s) : k < end => g[k] = Result(k)
               PROVE  Body(g, end) = Result(end)
    BY Zenon
  <2> DEFINE b == start(end)
  <2>1. b \in 0..Len(s) /\ b < end /\ end \in 0..Len(s) /\ b \in 0..end /\ end # 0
            /\ 0 \in 0..Len(s)
    BY <1>3, <1>4
  <2> HIDE DEF b
  <2>2. CASE found(b, end) = {}
    <3>1. found(0, end) = found(0, b)
      <4>1. \A i \in Int : i \in found(0, end) <=> i \in found(0, b)
        BY <1>3, <1>6, <2>1, <2>2
      <4> QED BY <1>7, <2>1, <4>1
    <3>2. Body(g, end) = g[b]
      BY <2>1, <2>2 DEF b
    <3>3. g[b] = Result(b)
      BY <2>1
    <3> QED BY <3>1, <3>2, <3>3
  <2>3. CASE found(b, end) # {}
    <3> DEFINE x == Max(found(b, end))  y == Max(found(0, end))
    <3>1. x \in found(b, end) /\ \A z \in found(b, end) : z <= x
      BY <1>5, <2>1, <2>3
    <3>2. found(0, end) # {}
      BY <1>3, <1>6, <1>7, <2>1, <3>1
    <3>3. y \in found(0, end) /\ \A z \in found(0, end) : z <= y
      BY <1>5, <2>1, <3>2
    <3> HIDE DEF x, y
    <3>4. x \in Int /\ y \in Int
      BY <1>7, <2>1, <3>1, <3>3
    <3>5. x \in found(0, end)
      BY <1>3, <1>6, <2>1, <3>1, <3>4
    <3>6. x <= y
      BY <3>3, <3>5
    <3>7. y \in found(b, end)
      BY <1>3, <1>6, <2>1, <3>1, <3>3, <3>4, <3>6
    <3>8. x = y
      BY <3>1, <3>4, <3>6, <3>7
    <3>9. Body(g, end) = IF x # Len(s) THEN x ELSE -1
      BY <2>1, <2>3 DEF b, x
    <3>10. Result(end) = IF y # Len(s) THEN y ELSE -1
      BY <3>2 DEF y
    <3> QED BY <3>8, <3>9, <3>10
  <2> QED BY <2>2, <2>3
<1>9. \A g : Body(g, 0) = Result(0)
  <2>1. found(0, 0) = {}
    BY <1>3, <1>6, <1>7
  <2> QED BY <2>1
<1> HIDE DEF Body, Result
<1>10. \E f : f = [end \in 0..Len(s) |-> Body(f, end)]
  <2> DEFINE f == [end \in 0..Len(s) |-> Result(end)]
  <2>1. \A end \in 0..Len(s) : Body(f, end) = Result(end)
    BY <1>3, <1>8, <1>9
  <2>2. f = [end \in 0..Len(s) |-> Body(f, end)]
    BY <2>1
  <2> HIDE DEF f
  <2> QED BY <2>2
<1>11. scan = [end \in 0..Len(s) |-> Body(scan, end)]
  <2> HIDE DEF scan
  <2> QED BY <1>2, <1>10, Zenon
<1> HIDE DEF scan
<1>12. \A end \in 0..Len(s) : scan[end] = Result(end)
  <2> DEFINE T == {end \in 0..Len(s) : scan[end] # Result(end)}
  <2>1. SUFFICES ASSUME T # {} PROVE FALSE
    OBVIOUS
  <2>2. T \subseteq Nat
    BY <1>3
  <2>3. PICK end \in T : \A k \in T : end <= k
    <3> HIDE DEF T
    <3> QED BY <2>1, <2>2, LeastOf
  <2>4. end \in 0..Len(s) /\ scan[end] # Result(end)
    BY <2>3
  <2>5. \A k \in 0..Len(s) : k < end => scan[k] = Result(k)
    BY <1>3, <2>3
  <2>6. scan[end] = Body(scan, end)
    BY <1>11, <2>4
  <2>7. Body(scan, end) = Result(end)
    BY <1>3, <1>8, <1>9, <2>4, <2>5
  <2> QED BY <2>4, <2>6, <2>7
<1>13. Result(Len(s)) = IF WholeLines(s) = Len(s) THEN -1 ELSE WholeLines(s)
  <2> DEFINE n == Len(s)
  <2>1. n \in 0..n /\ 0 \in 0..n /\ n \in Nat
    BY <1>3
  <2>2. CASE found(0, n) = {}
    <3>1. WholeLines(s) = 0
      BY <1>3, <1>6, <2>1, <2>2, WholeLinesIs
    <3> QED BY <2>2, <3>1, <2>1 DEF Result
  <2>3. CASE found(0, n) # {}
    <3> DEFINE y == Max(found(0, n))
    <3>1. y \in found(0, n) /\ \A z \in found(0, n) : z <= y
      BY <1>5, <2>1, <2>3
    <3> HIDE DEF y
    <3>2. y \in Int
      BY <1>7, <2>1, <3>1
    <3>3. y \in 1..n /\ s[y].newline
      BY <1>6, <2>1, <3>1, <3>2
    <3>4. y <= WholeLines(s) /\ WholeLines(s) \in 1..n /\ s[WholeLines(s)].newline
      BY <2>1, <3>3, WholeLinesIs
    <3>5. WholeLines(s) \in found(0, n)
      BY <1>6, <2>1, <3>4
    <3>6. y = WholeLines(s)
      BY <2>1, <3>1, <3>2, <3>4, <3>5
    <3>7. Result(n) = IF y # n THEN y ELSE -1
      BY <2>3 DEF y, Result
    <3> QED BY <3>6, <3>7
  <2> QED BY <2>2, <2>3
<1> QED BY <1>1, <1>3, <1>12, <1>13

-----------------------------------------------------------------------------
(***************************************************************************)
(* Pieces and lines                                                        *)
(***************************************************************************)

(* The beginning of a file. *)
LEMMA PrefixIs ==
    ASSUME NEW s \in Seq(Pieces), NEW n \in 0..Len(s)
    PROVE  /\ SubSeq(s, 1, n) \in Seq(Pieces) /\ Len(SubSeq(s, 1, n)) = n
           /\ \A i \in 1..n : SubSeq(s, 1, n)[i] = s[i]
<1>1. Len(s) \in Nat /\ n \in Nat
  BY LenProperties
<1>2. \A i \in 1..n : s[i] \in Pieces
  BY <1>1, ElementOfSeq
<1> QED BY <1>1, <1>2, SubSeqProperties

(* A file to which a piece is added. *)
LEMMA AppendIs ==
    ASSUME NEW s \in Seq(Pieces), NEW p \in Pieces
    PROVE  /\ Append(s, p) \in Seq(Pieces) /\ Len(Append(s, p)) = Len(s) + 1
           /\ \A i \in 1..Len(s) : Append(s, p)[i] = s[i]
           /\ Append(s, p)[Len(s) + 1] = p
BY AppendProperties

(* A line starts behind the newline before it. *)
LEMMA LineStartIs ==
    ASSUME NEW s \in Seq(Pieces), NEW at \in Nat, NEW end \in LineEnds(s, at)
    PROVE  LET b == LineStart(s, at, end) - 1
           IN  /\ b \in at..end - 1 /\ b \in Nat /\ LineStart(s, at, end) = b + 1
               /\ b = at \/ s[b].newline
               /\ \A i \in b + 1..end - 1 : ~s[i].newline
<1> DEFINE S == {at} \cup {i \in LineEnds(s, at) : i < end}
<1>1. Len(s) \in Nat /\ end \in Nat /\ end > at /\ end <= Len(s)
  BY LenProperties DEF LineEnds
<1>2. S \subseteq 0..end /\ S # {}
  BY <1>1 DEF LineEnds
<1>3. Max(S) \in S /\ \A y \in S : y <= Max(S)
  <2> HIDE DEF S
  <2> QED BY <1>1, <1>2, MaxOf
<1>4. LineStart(s, at, end) = Max(S) + 1
  BY DEF LineStart
<1>5. \A i \in Nat : at < i /\ i < end /\ s[i].newline => i \in S
  BY <1>1 DEF LineEnds
<1>6. \A i \in S : i \in Nat /\ (i = at \/ s[i].newline) /\ at <= i /\ i < end
  BY <1>1 DEF LineEnds
<1> HIDE DEF S
<1> DEFINE m == Max(S)
<1>7. m \in Nat /\ (m = at \/ s[m].newline) /\ at <= m /\ m < end
  BY <1>3, <1>6
<1>8. \A i \in Nat : at < i /\ i < end /\ s[i].newline => i <= m
  BY <1>3, <1>5
<1> HIDE DEF m
<1>9. LineStart(s, at, end) = m + 1
  BY <1>4 DEF m
<1>10. \A i \in m + 1..end - 1 : ~s[i].newline
  BY <1>1, <1>7, <1>8
<1> QED BY <1>1, <1>7, <1>9, <1>10

(* The line that ends at end and starts behind at is the record of e. *)
RecordAt(s, at, end, e) ==
    /\ end - 1 > at /\ s[end - 1] = First(e) /\ s[end] = Rest(e)
    /\ end - 2 = at \/ s[end - 2].newline

LEMMA IsRecordIs ==
    ASSUME NEW s \in Seq(Pieces), NEW at \in Nat, NEW end \in LineEnds(s, at)
    PROVE  IsRecord(s, at, end) <=> \E e \in Events : RecordAt(s, at, end, e)
<1> DEFINE ls == LineStart(s, at, end)  b == ls - 1
<1>1. Len(s) \in Nat /\ end \in 1..Len(s) /\ end > at /\ s[end].newline
  BY LenProperties DEF LineEnds
<1>2. /\ b \in at..end - 1 /\ b \in Nat /\ ls = b + 1 /\ (b = at \/ s[b].newline)
      /\ \A i \in b + 1..end - 1 : ~s[i].newline
  BY LineStartIs
<1> HIDE DEF b, ls
<1>3. ls \in 1..Len(s) /\ ls <= end
  BY <1>1, <1>2
<1>4. /\ Len(SubSeq(s, ls, end)) = end - ls + 1
      /\ \A i \in 1..(end - ls + 1) : SubSeq(s, ls, end)[i] = s[ls + i - 1]
      /\ SubSeq(s, ls, end) \in Seq(Pieces)
  <2>1. \A i \in ls..end : s[i] \in Pieces
    BY <1>1, <1>3, ElementOfSeq
  <2> QED BY <1>1, <1>3, <2>1, SubSeqProperties
<1>5. IsRecord(s, at, end) <=> \E e \in Events : SubSeq(s, ls, end) = <<First(e), Rest(e)>>
  BY DEF IsRecord, ls
<1>6. ASSUME NEW e \in Events, SubSeq(s, ls, end) = <<First(e), Rest(e)>>
      PROVE  RecordAt(s, at, end, e)
  <2> DEFINE t == SubSeq(s, ls, end)
  <2>0. Len(t) = 2 /\ t[1] = First(e) /\ t[2] = Rest(e)
    BY <1>6
  <2> HIDE DEF t
  <2>1. end - ls + 1 = 2
    BY <1>4, <2>0 DEF t
  <2>2. ls = end - 1 /\ b = end - 2
    BY <1>1, <1>2, <1>3, <2>1
  <2>3. t[1] = s[end - 1] /\ t[2] = s[end]
    <3>1. \A i \in 1..2 : t[i] = s[ls + i - 1]
      BY <1>4, <2>1 DEF t
    <3>2. ls + 1 - 1 = end - 1 /\ ls + 2 - 1 = end
      BY <1>1, <2>2
    <3> QED BY <3>1, <3>2
  <2> QED BY <1>1, <1>2, <2>0, <2>2, <2>3 DEF RecordAt
<1>7. ASSUME NEW e \in Events, RecordAt(s, at, end, e)
      PROVE  SubSeq(s, ls, end) = <<First(e), Rest(e)>>
  <2>1. /\ end - 1 > at /\ s[end - 1] = First(e) /\ s[end] = Rest(e)
        /\ end - 2 = at \/ s[end - 2].newline
    BY <1>7 DEF RecordAt
  <2>2. b = end - 2
    <3>1. b < end - 1
      <4>1. ~First(e).newline
        BY DEF First
      <4> QED BY <1>1, <1>2, <2>1, <4>1
    <3>2. ~(b < end - 2)
      BY <1>1, <1>2, <2>1
    <3> QED BY <1>1, <1>2, <3>1, <3>2
  <2>3. ls = end - 1
    BY <1>1, <1>2, <2>2
  <2> DEFINE t == SubSeq(s, ls, end)  u == <<First(e), Rest(e)>>
  <2>4. Len(t) = 2 /\ t[1] = s[end - 1] /\ t[2] = s[end] /\ t \in Seq(Pieces)
    <3>1. end - ls + 1 = 2 /\ ls + 1 - 1 = end - 1 /\ ls + 2 - 1 = end
      BY <1>1, <2>3
    <3>2. /\ Len(t) = 2 /\ t \in Seq(Pieces)
          /\ \A i \in 1..2 : t[i] = s[ls + i - 1]
      BY <1>4, <3>1
    <3> HIDE DEF t
    <3> QED BY <3>1, <3>2
  <2>5. First(e) \in Pieces /\ Rest(e) \in Pieces
    BY DEF First, Rest, Pieces
  <2>6. u \in Seq(Pieces) /\ Len(u) = 2 /\ u[1] = First(e) /\ u[2] = Rest(e)
    BY <2>5
  <2> HIDE DEF t, u
  <2>7. \A i \in 1..Len(t) : t[i] = u[i]
    BY <2>1, <2>4, <2>6
  <2>8. t = u
    BY <2>4, <2>6, <2>7, SeqEqual
  <2> QED BY <2>8 DEF t, u
<1> QED BY <1>5, <1>6, <1>7

(* The records of a file. *)
LEMMA RecordsIs ==
    ASSUME NEW s \in Seq(Pieces), NEW e
    PROVE  e \in Records(s) <=> e \in Events /\ \E end \in 1..Len(s) : RecordAt(s, 0, end, e)
<1>1. Len(s) \in Nat
  BY LenProperties
<1>2. ASSUME NEW f, NEW end \in 1..Len(s), RecordAt(s, 0, end, f), f \in Events
      PROVE  end \in LineEnds(s, 0) /\ s[end].event = f
  BY <1>1, <1>2 DEF RecordAt, LineEnds, Rest
<1>3. ASSUME e \in Records(s) PROVE e \in Events /\ \E end \in 1..Len(s) : RecordAt(s, 0, end, e)
  <2>1. PICK end \in LineEnds(s, 0) : IsRecord(s, 0, end) /\ e = s[end].event
    BY <1>3 DEF Records
  <2>2. PICK f \in Events : RecordAt(s, 0, end, f)
    BY <2>1, IsRecordIs
  <2>3. end \in 1..Len(s)
    BY <1>1 DEF LineEnds
  <2> QED BY <1>2, <2>1, <2>2, <2>3
<1>4. ASSUME e \in Events, NEW end \in 1..Len(s), RecordAt(s, 0, end, e)
      PROVE  e \in Records(s)
  <2>1. end \in LineEnds(s, 0) /\ s[end].event = e
    BY <1>2, <1>4
  <2>2. IsRecord(s, 0, end)
    BY <1>4, <2>1, IsRecordIs
  <2> QED BY <2>1, <2>2 DEF Records
<1> QED BY <1>3, <1>4

(* A record is still there in a longer file ... *)
LEMMA RecordsGrow ==
    ASSUME NEW s \in Seq(Pieces), NEW t \in Seq(Pieces), Len(s) <= Len(t),
           \A i \in 1..Len(s) : t[i] = s[i]
    PROVE  Records(s) \subseteq Records(t) /\ WholeLines(s) <= WholeLines(t)
<1>1. Len(s) \in Nat /\ Len(t) \in Nat
  BY LenProperties
<1>2. ASSUME NEW e \in Records(s) PROVE e \in Records(t)
  <2>1. PICK end \in 1..Len(s) : RecordAt(s, 0, end, e)
    BY RecordsIs
  <2>2. end \in 1..Len(t) /\ RecordAt(t, 0, end, e)
    BY <1>1, <2>1 DEF RecordAt
  <2> QED BY <2>2, RecordsIs
<1>3. WholeLines(s) <= WholeLines(t)
  BY <1>1, WholeLinesIs
<1> QED BY <1>2, <1>3

(* t is the beginning of s. *)
Begins(t, s) == t \in Seq(Pieces) /\ Len(t) <= Len(s) /\ \A i \in 1..Len(t) : t[i] = s[i]

(* ... and after half a line has been cut off the end. *)
LEMMA RecordsWhole ==
    ASSUME NEW s \in Seq(Pieces), NEW t, Begins(t, s), WholeLines(s) <= Len(t)
    PROVE  Records(t) = Records(s) /\ WholeLines(t) = WholeLines(s)
<1>1. Len(s) \in Nat /\ t \in Seq(Pieces) /\ Len(t) \in Nat
  BY LenProperties DEF Begins
<1>2. Len(t) <= Len(s) /\ \A i \in 1..Len(t) : t[i] = s[i]
  BY DEF Begins
<1>3. ASSUME NEW e \in Records(s) PROVE e \in Records(t)
  <2>1. PICK end \in 1..Len(s) : RecordAt(s, 0, end, e)
    BY RecordsIs
  <2>2. end <= Len(t)
    <3>1. s[end].newline
      BY <2>1 DEF RecordAt, Rest
    <3> QED BY <1>1, <3>1, WholeLinesIs
  <2>3. end \in 1..Len(t) /\ RecordAt(t, 0, end, e)
    BY <1>1, <1>2, <2>1, <2>2 DEF RecordAt
  <2>4. e \in Events
    BY RecordsIs
  <2> QED BY <1>1, <2>3, <2>4, RecordsIs
<1>4. WholeLines(t) <= WholeLines(s) /\ Records(t) \subseteq Records(s)
  BY <1>1, <1>2, RecordsGrow
<1>5. WholeLines(s) <= WholeLines(t)
  BY <1>1, <1>2, WholeLinesIs
<1>6. WholeLines(s) \in Nat /\ WholeLines(t) \in Nat
  BY <1>1, <1>2, WholeLinesIs
<1>7. Records(t) = Records(s)
  BY <1>3, <1>4
<1>8. WholeLines(t) = WholeLines(s)
  BY <1>4, <1>5, <1>6
<1> QED BY <1>7, <1>8

(* The first piece of a line adds no whole line, the rest makes all lines  *)
(* whole.                                                                  *)
LEMMA WholeLinesAppend ==
    ASSUME NEW s \in Seq(Pieces), NEW e \in Events
    PROVE  /\ First(e) \in Pieces /\ Rest(e) \in Pieces
           /\ WholeLines(Append(s, First(e))) = WholeLines(s)
           /\ WholeLines(Append(s, Rest(e))) = Len(s) + 1
<1>1. First(e) \in Pieces /\ Rest(e) \in Pieces /\ ~First(e).newline /\ Rest(e).newline
  BY DEF First, Rest, Pieces
<1>2. Len(s) \in Nat
  BY LenProperties
<1>3. WholeLines(Append(s, First(e))) = WholeLines(s)
  <2> DEFINE t == Append(s, First(e))
  <2>1. /\ t \in Seq(Pieces) /\ Len(t) = Len(s) + 1 /\ \A i \in 1..Len(s) : t[i] = s[i]
        /\ t[Len(s) + 1] = First(e)
    BY <1>1, AppendIs
  <2> HIDE DEF t
  <2>2. WholeLines(s) <= WholeLines(t)
    BY <1>2, <2>1, RecordsGrow
  <2>3. WholeLines(t) <= WholeLines(s)
    BY <1>1, <1>2, <2>1, WholeLinesIs
  <2>4. WholeLines(s) \in Nat /\ WholeLines(t) \in Nat
    BY <1>2, <2>1, WholeLinesIs
  <2>5. WholeLines(t) = WholeLines(s)
    BY <2>2, <2>3, <2>4
  <2> QED BY <2>5 DEF t
<1>4. WholeLines(Append(s, Rest(e))) = Len(s) + 1
  <2> DEFINE t == Append(s, Rest(e))
  <2>1. t \in Seq(Pieces) /\ Len(t) = Len(s) + 1 /\ t[Len(s) + 1] = Rest(e)
    BY <1>1, AppendIs
  <2> HIDE DEF t
  <2>2. WholeLines(t) = Len(s) + 1
    BY <1>1, <1>2, <2>1, WholeLinesIs
  <2> QED BY <2>2 DEF t
<1> QED BY <1>1, <1>3, <1>4

-----------------------------------------------------------------------------
(***************************************************************************)
(* Types of the files and of the writer                                    *)
(***************************************************************************)

(* repairTails cuts what follows the last newline of the files it can cut. *)
LEMMA RepairedIs ==
    ASSUME FileTypes, NEW days
    PROVE  /\ Repaired(days) \in [Days -> Seq(Pieces)]
           /\ \A d \in Days :
                /\ Begins(Repaired(days)[d], file[d])
                /\ WholeLines(file[d]) <= Len(Repaired(days)[d])
                /\ d \in days => Len(Repaired(days)[d]) = WholeLines(file[d])
                /\ d \notin days => Repaired(days)[d] = file[d]
<1>1. ASSUME NEW d \in Days
      PROVE  /\ Repaired(days)[d] \in Seq(Pieces)
             /\ Begins(Repaired(days)[d], file[d])
             /\ WholeLines(file[d]) <= Len(Repaired(days)[d])
             /\ d \in days => Len(Repaired(days)[d]) = WholeLines(file[d])
             /\ d \notin days => Repaired(days)[d] = file[d]
  <2> DEFINE s == file[d]  n == WholeLines(s)
  <2>1. s \in Seq(Pieces)
    BY DEF FileTypes
  <2>2. Len(s) \in Nat /\ n \in 0..Len(s)
    BY <2>1, WholeLinesIs, LenProperties
  <2>3. CompleteLength(s) = IF n = Len(s) THEN -1 ELSE n
    BY <2>1, CompleteLengthIs
  <2>4. Repaired(days)[d] = IF d \in days /\ CompleteLength(s) >= 0
                            THEN SubSeq(s, 1, CompleteLength(s)) ELSE s
    BY DEF Repaired
  <2>5. /\ SubSeq(s, 1, n) \in Seq(Pieces) /\ Len(SubSeq(s, 1, n)) = n
        /\ \A i \in 1..n : SubSeq(s, 1, n)[i] = s[i]
    BY <2>1, <2>2, PrefixIs
  <2> HIDE DEF s, n
  <2>6. CASE d \in days /\ n # Len(s)
    <3>1. Repaired(days)[d] = SubSeq(s, 1, n)
      BY <2>2, <2>3, <2>4, <2>6
    <3>2. Begins(SubSeq(s, 1, n), s) /\ n <= Len(SubSeq(s, 1, n))
      BY <2>2, <2>5 DEF Begins
    <3> QED BY <2>5, <2>6, <3>1, <3>2 DEF s, n
  <2>7. CASE ~(d \in days /\ n # Len(s))
    <3>1. Repaired(days)[d] = s
      BY <2>2, <2>3, <2>4, <2>7
    <3>2. Begins(s, s) /\ n <= Len(s)
      BY <2>1, <2>2 DEF Begins
    <3> QED BY <2>1, <2>7, <3>1, <3>2 DEF s, n
  <2> QED BY <2>6, <2>7
<1>2. Repaired(days) = [d \in Days |-> Repaired(days)[d]]
  BY DEF Repaired
<1> QED BY <1>1, <1>2

(* openLocked takes a day, and one that no file on disk is newer than.     *)
LEMMA OpenNameIs ==
    ASSUME FileTypes, NEW listed, listed \subseteq plain
    PROVE  /\ OpenName(listed) \in Days
           /\ MustOpen /\ (HasFile => \A d \in plain : d <= curName) =>
                \A d \in plain : d <= OpenName(plain)
<1>1. MaxDay \in Nat /\ now \in Days /\ plain \subseteq Days
  BY SpoolFileAssumption DEF FileTypes
<1>2. \A S \in SUBSET plain : S # {} => Max(S) \in S /\ \A y \in S : y <= Max(S)
  <2> TAKE S \in SUBSET plain
  <2>1. S \subseteq 0..MaxDay
    BY <1>1 DEF Days
  <2> QED BY <1>1, <2>1, MaxOf
<1>3. OpenName(listed) \in Days
  BY <1>1, <1>2 DEF OpenName, HasFile
<1>4. ASSUME MustOpen, HasFile => \A d \in plain : d <= curName, NEW d \in plain
      PROVE  d <= OpenName(plain)
  <2>1. d \in Int /\ now \in Int /\ curName \in Int
    BY <1>1 DEF Days, FileTypes
  <2>2. CASE ~HasFile /\ \E x \in plain : x > now
    <3>1. OpenName(plain) = Max(plain)
      BY <2>2 DEF OpenName, HasFile
    <3> QED BY <1>2, <3>1
  <2>3. CASE ~(~HasFile /\ \E x \in plain : x > now)
    <3>1. OpenName(plain) = now
      BY <2>3 DEF OpenName, HasFile
    <3> QED BY <1>4, <2>1, <2>3, <3>1 DEF MustOpen, HasFile
  <2> QED BY <2>2, <2>3
<1> QED BY <1>3, <1>4

(* Days are naturals, and the file that is open is that of a day. *)
LEMMA FileFacts ==
    ASSUME FileTypes, WriterInv
    PROVE  /\ MaxDay \in Nat /\ MaxEvents \in Nat /\ Days \subseteq Nat /\ nev \in Nat
           /\ \A d \in Days : file[d] \in Seq(Pieces) /\ Len(file[d]) \in Nat
           /\ open => curName \in Days /\ curName \in plain
           /\ nev < MaxEvents => Event \in Events
<1>1. MaxDay \in Nat /\ MaxEvents \in Nat
  BY SpoolFileAssumption
<1>2. \A d \in Days : file[d] \in Seq(Pieces)
  BY DEF FileTypes
<1>3. \A d \in Days : Len(file[d]) \in Nat
  BY <1>2, LenProperties
<1>4. open => curName \in Days /\ curName \in plain
  BY DEF FileTypes, WriterInv, HasFile
<1>5. nev \in Nat /\ (nev < MaxEvents => Event \in Events)
  BY <1>1 DEF FileTypes, Event, Events
<1> QED BY <1>1, <1>2, <1>3, <1>4, <1>5 DEF Days

(* Every step of the writer, of Cleanup and of the machine keeps them. *)
LEMMA FileTypesStep ==
    ASSUME FileTypes, WriterInv, FileNext \/ PowerLoss
    PROVE  FileTypes' /\ WriterInv'
<1>1. /\ MaxDay \in Nat /\ MaxEvents \in Nat /\ Days \subseteq Nat /\ nev \in Nat
      /\ \A d \in Days : file[d] \in Seq(Pieces) /\ Len(file[d]) \in Nat
      /\ open => curName \in Days /\ curName \in plain
      /\ nev < MaxEvents => Event \in Events
  BY FileFacts
<1>2. MaxFailures \in Nat
  BY SpoolFileAssumption
<1>3. Failure => failures' \in 0..MaxFailures
  BY <1>2 DEF Failure, FileTypes
<1> USE DEF writerVars, historyVars
<1>4. ASSUME NEW listed, listed \subseteq plain, OpenFile(listed),
             failures' \in 0..MaxFailures,
             mishaps' \subseteq {"truncate", "repair", "power", "listing", "newest", "open"}
      PROVE  FileTypes' /\ WriterInv'
  <2> DEFINE n == OpenName(listed)
  <2>1. n \in Days
    BY <1>4, OpenNameIs
  <2> HIDE DEF n
  <2>2. /\ up /\ wpc = "ready" /\ nev < MaxEvents
        /\ plain' = plain \cup {n} /\ open' = TRUE /\ orphan' = FALSE
        /\ curName' = n /\ curSize' = Len(file[n])
        /\ wpc' = "write" /\ UNCHANGED <<now, file, up, nev, accepted, sound>>
    BY <1>4 DEF OpenFile, n
  <2>3. FileTypes'
    <3>1. plain' \subseteq Days /\ curName' \in 0..MaxDay /\ curSize' \in Nat
              /\ curSize' <= Len(file'[curName'])
      BY <1>1, <2>1, <2>2 DEF FileTypes, Days
    <3> QED BY <1>4, <2>2, <3>1 DEF FileTypes
  <2>4. WriterInv'
    BY <1>1, <2>1, <2>2 DEF WriterInv, HasFile
  <2> QED BY <2>3, <2>4
<1>5. CASE AppendOpen
  BY <1>4, <1>5 DEF AppendOpen, FileTypes
<1>6. CASE AppendOpenBlind
  <2>1. mishaps' \subseteq {"truncate", "repair", "power", "listing", "newest", "open"}
    BY <1>6 DEF AppendOpenBlind, FileTypes
  <2> QED BY <1>3, <1>4, <1>6, <2>1 DEF AppendOpenBlind
<1>7. CASE AppendOpenFails
  <2>1. OpenName(plain) \in Days
    BY OpenNameIs
  <2>2. /\ plain \subseteq plain' /\ plain' \subseteq Days
        /\ open' = FALSE /\ orphan' = FALSE /\ nev < MaxEvents /\ nev' = nev + 1 /\ wpc = "ready"
        /\ UNCHANGED <<now, file, up, wpc, curName, curSize, accepted, sound, mishaps>>
        /\ failures' \in 0..MaxFailures
    BY <1>3, <1>7, <2>1 DEF AppendOpenFails, FileTypes
  <2>3. FileTypes'
    <3>1. nev' \in 0..MaxEvents
      BY <1>1, <2>2
    <3>2. plain' \subseteq Days
      BY <2>2
    <3> QED BY <2>2, <3>1, <3>2 DEF FileTypes
  <2>4. WriterInv'
    BY <2>2 DEF WriterInv, HasFile
  <2> QED BY <2>3, <2>4
<1>8. ASSUME NEW p \in Pieces, open, file' = [file EXCEPT ![curName] = Append(@, p)]
      PROVE  /\ file' \in [Days -> Seq(Pieces)]
             /\ Len(file'[curName]) = Len(file[curName]) + 1
             /\ file'[curName][Len(file'[curName])] = p
             /\ \A d \in Days : d # curName => file'[d] = file[d]
  <2>1. curName \in Days /\ file \in [Days -> Seq(Pieces)]
    BY <1>1, <1>8 DEF FileTypes
  <2>2. Append(file[curName], p) \in Seq(Pieces)
            /\ Len(Append(file[curName], p)) = Len(file[curName]) + 1
        /\ Append(file[curName], p)[Len(file[curName]) + 1] = p
    BY <1>8, <2>1, AppendIs
  <2>3. file'[curName] = Append(file[curName], p)
    BY <1>8, <2>1
  <2> QED BY <1>8, <2>1, <2>2, <2>3
<1>9. CASE AppendFirst
  <2>1. open /\ First(Event) \in Pieces
    <3>1. open
      BY <1>9 DEF AppendFirst, WriterInv, MustOpen, HasFile, MayWrite
    <3>2. Event \in Events
      BY <1>1, <1>9 DEF AppendFirst
    <3> QED BY <3>1, <3>2 DEF First, Pieces
  <2>2. /\ file' \in [Days -> Seq(Pieces)]
        /\ Len(file'[curName]) = Len(file[curName]) + 1
        /\ file'[curName][Len(file'[curName])] = First(Event)
        /\ \A d \in Days : d # curName => file'[d] = file[d]
    BY <1>8, <1>9, <2>1 DEF AppendFirst
  <2>3. FileTypes'
    BY <1>1, <1>9, <2>1, <2>2 DEF FileTypes, AppendFirst
  <2>4. Event' = Event
    BY <1>9 DEF AppendFirst, Event
  <2>5. Len(file'[curName]) > curSize
    BY <1>1, <2>1, <2>2 DEF FileTypes
  <2>6. WriterInv'
    BY <1>1, <1>9, <2>1, <2>2, <2>4, <2>5 DEF WriterInv, AppendFirst, HasFile
  <2> QED BY <2>3, <2>6
<1>10. CASE AppendRest
  <2>1. open /\ nev < MaxEvents /\ Event \in Events /\ Rest(Event) \in Pieces
    <3>1. open /\ nev < MaxEvents
      BY <1>10 DEF AppendRest, WriterInv, HasFile
    <3>2. Event \in Events
      BY <1>1, <3>1
    <3> QED BY <3>1, <3>2 DEF Rest, Pieces
  <2>2. /\ file' \in [Days -> Seq(Pieces)]
        /\ Len(file'[curName]) = Len(file[curName]) + 1
        /\ \A d \in Days : d # curName => file'[d] = file[d]
    BY <1>8, <1>10, <2>1 DEF AppendRest
  <2>3. curSize + 2 <= Len(file[curName]) + 1
    BY <1>1, <1>10, <2>1 DEF FileTypes, WriterInv, AppendRest, HasFile
  <2>4. FileTypes'
    <3>1. nev' \in 0..MaxEvents /\ curSize' \in Nat /\ curSize' <= Len(file'[curName])
      BY <1>1, <1>10, <2>1, <2>2, <2>3 DEF FileTypes, AppendRest
    <3>2. sound' \subseteq accepted' /\ accepted' \subseteq Events
      BY <1>10, <2>1 DEF FileTypes, AppendRest
    <3> QED BY <1>10, <2>2, <3>1, <3>2 DEF FileTypes, AppendRest
  <2>5. WriterInv'
    BY <1>1, <1>10, <2>1, <2>2 DEF WriterInv, AppendRest, HasFile
  <2> QED BY <2>4, <2>5
<1>11. CASE AppendFails
  <2>1. open
    BY <1>11 DEF AppendFails, WriterInv, MustOpen, HasFile, MayWrite
  <2>2. FileTypes'
    BY <1>3, <1>11 DEF FileTypes, AppendFails
  <2> QED BY <1>1, <1>11, <2>1, <2>2 DEF AppendFails, WriterInv, HasFile
<1>12. ASSUME NEW f, open, NEW n \in 0..Len(file[curName]),
              f = [file EXCEPT ![curName] = SubSeq(@, 1, n)]
       PROVE  /\ f \in [Days -> Seq(Pieces)] /\ Len(f[curName]) = n
              /\ \A d \in Days : d # curName => f[d] = file[d]
  <2>1. curName \in Days /\ file \in [Days -> Seq(Pieces)]
    BY <1>1, <1>12 DEF FileTypes
  <2>2. SubSeq(file[curName], 1, n) \in Seq(Pieces) /\ Len(SubSeq(file[curName], 1, n)) = n
    BY <1>12, <2>1, PrefixIs
  <2> QED BY <1>12, <2>1, <2>2
<1>13. CASE Truncate
  <2>1. open /\ nev < MaxEvents /\ curSize \in 0..Len(file[curName])
    BY <1>1, <1>13 DEF Truncate, WriterInv, FileTypes, HasFile
  <2>2. /\ file' \in [Days -> Seq(Pieces)] /\ Len(file'[curName]) = curSize
        /\ \A d \in Days : d # curName => file'[d] = file[d]
    BY <1>12, <1>13, <2>1 DEF Truncate
  <2>3. FileTypes'
    BY <1>1, <1>13, <2>1, <2>2 DEF Truncate, FileTypes
  <2> QED BY <1>1, <1>13, <2>1, <2>2, <2>3 DEF Truncate, WriterInv, HasFile
<1>14. CASE TruncateFails
  <2>1. open /\ nev < MaxEvents
    BY <1>14 DEF TruncateFails, WriterInv, HasFile
  <2>2. mishaps' \subseteq {"truncate", "repair", "power", "listing", "newest", "open"}
    BY <1>14 DEF TruncateFails, FileTypes
  <2>3. FileTypes'
    BY <1>1, <1>3, <1>14, <2>1, <2>2 DEF TruncateFails, FileTypes
  <2> QED BY <1>1, <1>14, <2>1, <2>3 DEF TruncateFails, WriterInv, HasFile
<1>15. ASSUME NEW days, ~up, up', file' = Repaired(days),
              UNCHANGED <<now, plain, wpc, open, orphan, curName, curSize, nev, accepted, sound>>,
              failures' \in 0..MaxFailures,
              mishaps' \subseteq {"truncate", "repair", "power", "listing", "newest", "open"}
       PROVE  FileTypes' /\ WriterInv'
  <2>1. file' \in [Days -> Seq(Pieces)] /\ \A d \in Days : Begins(file'[d], file[d])
    BY <1>15, RepairedIs
  <2>2. ~open /\ wpc = "ready"
    BY <1>15 DEF WriterInv, HasFile
  <2>3. FileTypes'
    BY <1>15, <2>1, <2>2 DEF FileTypes
  <2>4. \A d \in Days \ plain : file'[d] = << >>
    <3> TAKE d \in Days \ plain
    <3>1. file[d] = << >> /\ Begins(file'[d], file[d])
      BY <2>1 DEF WriterInv, HasFile
    <3>2. file'[d] \in Seq(Pieces) /\ Len(file'[d]) <= 0
      BY <3>1 DEF Begins
    <3> QED BY <3>2, EmptySeq, LenProperties
  <2>5. WriterInv'
    BY <1>15, <2>2, <2>4 DEF WriterInv, HasFile
  <2> QED BY <2>3, <2>5
<1>16. CASE Start
  <2>1. failures' \in 0..MaxFailures /\ mishaps' \subseteq {"truncate", "repair", "power", "listing", "newest", "open"}
    BY <1>16 DEF Start, FileTypes
  <2> QED BY <1>15, <1>16, <2>1 DEF Start
<1>17. CASE StartUnrepaired
  <2>1. PICK days \in SUBSET plain :
          /\ file' = Repaired(days)
          /\ mishaps' = IF Repaired(days) # Repaired(plain) THEN mishaps \cup {"repair"} ELSE mishaps
    BY <1>17 DEF StartUnrepaired
  <2>2. mishaps' \subseteq {"truncate", "repair", "power", "listing", "newest", "open"}
    BY <2>1 DEF FileTypes
  <2> QED BY <1>3, <1>15, <1>17, <2>1, <2>2 DEF StartUnrepaired
<1>18. Ended => /\ up' = FALSE /\ wpc' = "ready" /\ open' = FALSE /\ orphan' = FALSE
                /\ curName' \in 0..MaxDay /\ curSize' \in Nat /\ nev' \in 0..MaxEvents
  BY <1>1 DEF Ended, WriterInv, FileTypes, HasFile
<1>19. CASE Crash
  BY <1>3, <1>18, <1>19 DEF Crash, FileTypes, WriterInv, HasFile
<1>20. CASE Stop
  BY <1>18, <1>20 DEF Stop, FileTypes, WriterInv, HasFile
<1>21. CASE PowerLoss
  <2>1. PICK n \in 0..Len(file[curName]) - 1 :
          file' = [file EXCEPT ![curName] = SubSeq(@, 1, n)]
    BY <1>21 DEF PowerLoss
  <2>2. open /\ n \in 0..Len(file[curName])
    BY <1>1, <1>21 DEF PowerLoss
  <2>3. /\ file' \in [Days -> Seq(Pieces)]
        /\ \A d \in Days : d # curName => file'[d] = file[d]
    BY <1>12, <2>1, <2>2
  <2>4. mishaps' \subseteq {"truncate", "repair", "power", "listing", "newest", "open"}
    BY <1>21 DEF PowerLoss, FileTypes
  <2>5. FileTypes'
    BY <1>3, <1>18, <1>21, <2>3, <2>4 DEF PowerLoss, FileTypes
  <2> QED BY <1>1, <1>18, <1>21, <2>2, <2>3, <2>5 DEF PowerLoss, WriterInv, HasFile
<1>22. ASSUME NEW d \in plain, ~(open' /\ d = curName'),
              plain' = plain \ {d}, file' = [file EXCEPT ![d] = << >>],
              accepted' = accepted \ Records(file[d]), sound' = sound \ Records(file[d]),
              UNCHANGED <<now, up, curName, curSize, failures>>,
              UNCHANGED <<wpc, nev, open, orphan>>
                \/ (wpc' = "ready" /\ up /\ ~open' /\ orphan' = TRUE /\ nev' \in 0..MaxEvents
                      /\ "open" \in mishaps'),
              mishaps \subseteq mishaps', mishaps' \subseteq mishaps \cup {"newest", "open"}, open' \in BOOLEAN
       PROVE  FileTypes' /\ WriterInv'
  <2>2. d \in Days /\ << >> \in Seq(Pieces)
    BY EmptySeq DEF FileTypes
  <2>3. file' \in [Days -> Seq(Pieces)] /\ file'[d] = << >> /\ \A x \in Days : x # d
            => file'[x] = file[x]
    BY <1>22, <2>2 DEF FileTypes
  <2>5. mishaps' \subseteq {"truncate", "repair", "power", "listing", "newest", "open"}
    BY <1>22 DEF FileTypes
  <2>6. FileTypes'
    <3>1. open' => open /\ curSize' <= Len(file'[curName'])
      BY <1>1, <1>22, <2>3 DEF FileTypes
    <3>2. wpc' \in {"ready", "write", "half", "failed"} /\ nev' \in 0..MaxEvents /\ orphan' \in BOOLEAN
      BY <1>22 DEF FileTypes
    <3> QED BY <1>22, <2>3, <2>5, <3>1, <3>2 DEF FileTypes
  <2>7. WriterInv'
    <3>1. CASE UNCHANGED <<wpc, nev, open, orphan>>
      BY <1>1, <1>22, <2>3, <3>1 DEF WriterInv, HasFile, Event
    <3>2. CASE wpc' = "ready" /\ up /\ ~open' /\ orphan' = TRUE /\ "open" \in mishaps'
      BY <1>1, <1>22, <2>3, <3>2 DEF WriterInv, HasFile
    <3> QED BY <1>22, <3>1, <3>2
  <2> QED BY <2>6, <2>7
<1>24. CASE CleanupRemove
  <2>1. PICK d \in plain : ~(open /\ d = curName) /\
          /\ plain' = plain \ {d}
          /\ file' = [file EXCEPT ![d] = << >>]
          /\ accepted' = accepted \ Records(file[d])
          /\ sound' = sound \ Records(file[d])
          /\ mishaps' = IF d = Max(plain) THEN mishaps \cup {"newest"} ELSE mishaps
    BY <1>24 DEF CleanupRemove
  <2>2. UNCHANGED <<now, up, wpc, open, orphan, curName, curSize, nev, failures>>
    BY <1>24 DEF CleanupRemove
  <2>3. mishaps \subseteq mishaps' /\ mishaps' \subseteq mishaps \cup {"newest", "open"}
    BY <2>1
  <2> QED BY <1>22, <2>1, <2>2, <2>3 DEF FileTypes
<1>25. CASE CleanupRemoveOpen
  <2>1. nev' \in 0..MaxEvents
    BY <1>1, <1>25 DEF CleanupRemoveOpen, WriterInv, HasFile, FileTypes
  <2>2. /\ mishaps \subseteq mishaps' /\ mishaps' \subseteq mishaps \cup {"newest", "open"}
        /\ "open" \in mishaps'
    BY <1>25 DEF CleanupRemoveOpen
  <2> QED BY <1>1, <1>22, <1>25, <2>1, <2>2 DEF CleanupRemoveOpen
<1>26. CASE AppendOrphan
  <2>1. nev' \in 0..MaxEvents /\ accepted' \subseteq Events /\ sound' \subseteq accepted'
    BY <1>1, <1>26 DEF AppendOrphan, FileTypes
  <2> QED BY <1>26, <2>1 DEF AppendOrphan, FileTypes, WriterInv, HasFile
<1>23. CASE SetClock
  <2>1. now' \in Days /\ UNCHANGED <<plain, file, up, wpc, open, orphan, curName, curSize, nev, accepted,
        sound, failures, mishaps>>
    BY <1>23 DEF SetClock
  <2> QED BY <2>1 DEF FileTypes, WriterInv, Event, HasFile
<1> QED
  BY <1>5, <1>6, <1>7, <1>9, <1>10, <1>11, <1>13, <1>14, <1>16, <1>17, <1>19, <1>20, <1>21,
     <1>23, <1>24, <1>25, <1>26 DEF FileNext

-----------------------------------------------------------------------------
(***************************************************************************)
(* The writer is on the newest file                                        *)
(***************************************************************************)

(* What is noted as gone wrong stays noted. *)
LEMMA MishapsStay ==
    ASSUME FileNext \/ PowerLoss
    PROVE  mishaps \subseteq mishaps'
BY DEF FileNext, PowerLoss, AppendOpen, AppendOpenBlind, AppendOpenFails, AppendFirst, AppendRest,
       AppendFails, Truncate, TruncateFails, Start, StartUnrepaired, Crash, Stop, CleanupRemove,
       CleanupRemoveOpen, AppendOrphan, SetClock

(* Unless the directory could not be listed, a file that appears is at     *)
(* least as new as all others, and the writer stays on its file or goes to *)
(* one that is.  Unless the newest file is removed, whatever had a newer   *)
(* file beside it keeps one.                                               *)
LEMMA PlainStep ==
    ASSUME FileTypes, WriterInv, OnNewest, FileNext \/ PowerLoss, "listing" \notin mishaps'
    PROVE  /\ \A d \in plain' \ plain : \A e \in plain : e <= d
           /\ HasFile' => \A d \in plain' : d <= curName'
           /\ "newest" \notin mishaps' =>
                /\ \A d \in Int : NewerThan(d) => NewerThan(d)'
                /\ \A d \in plain \ plain' : NewerThan(d)'
<1>1. /\ Days \subseteq Nat /\ plain \subseteq Days
      /\ HasFile => \A d \in plain : d <= curName
  <2>1. "listing" \notin mishaps
    BY MishapsStay
  <2> QED BY <2>1, FileFacts DEF FileTypes, OnNewest, HasFile
<1> USE DEF writerVars, historyVars
<1>2. ASSUME NEW n, n \in Days, MustOpen => \A d \in plain : d <= n, MustOpen,
             plain' \in {plain, plain \cup {n}}, HasFile' => curName' = n
      PROVE  /\ \A d \in plain' \ plain : \A e \in plain : e <= d
             /\ HasFile' => \A d \in plain' : d <= curName'
             /\ \A d \in Int : NewerThan(d) => NewerThan(d)'
             /\ plain \subseteq plain'
  <2>1. \A d \in plain' : d \in plain \/ d = n
    BY <1>2
  <2>2. plain \subseteq plain'
    BY <1>2
  <2>3. n <= n
    BY <1>1, <1>2
  <2> QED BY <1>2, <2>1, <2>2, <2>3 DEF NewerThan
<1>3. MustOpen => OpenName(plain) \in Days /\ \A d \in plain : d <= OpenName(plain)
  BY <1>1, OpenNameIs
<1>4. CASE AppendOpen
  <2>1. MustOpen /\ plain' = plain \cup {OpenName(plain)} /\ curName' = OpenName(plain)
    BY <1>4 DEF AppendOpen, OpenFile
  <2> QED BY <1>2, <1>3, <2>1
<1>5. CASE AppendOpenBlind
  <2>1. MustOpen /\ plain' = plain \cup {OpenName({})} /\ curName' = OpenName({})
    BY <1>5 DEF AppendOpenBlind, OpenFile
  <2>2. OpenName({}) = OpenName(plain)
    BY <1>5 DEF AppendOpenBlind
  <2> QED BY <1>2, <1>3, <2>1, <2>2
<1>6. CASE AppendOpenFails
  <2>1. MustOpen /\ plain' \in {plain, plain \cup {OpenName(plain)}} /\ ~HasFile'
    BY <1>6 DEF AppendOpenFails, HasFile
  <2> QED BY <1>2, <1>3, <2>1
<1>7. ASSUME NEW d \in plain, plain' = plain \ {d}, curName' = curName, HasFile' = HasFile,
             d = Max(plain) => "newest" \in mishaps'
      PROVE  /\ \A x \in plain' \ plain : \A e \in plain : e <= x
             /\ HasFile' => \A x \in plain' : x <= curName'
             /\ "newest" \notin mishaps' =>
                  /\ \A x \in Int : NewerThan(x) => NewerThan(x)'
                  /\ \A x \in plain \ plain' : NewerThan(x)'
  <2>2. Max(plain) \in plain /\ \A y \in plain : y <= Max(plain)
    <3>1. MaxDay \in Nat /\ plain \subseteq 0..MaxDay
      BY <1>1, SpoolFileAssumption DEF Days
    <3> QED BY <3>1, <1>7, MaxOf
  <2>3. "newest" \notin mishaps' => Max(plain) \in plain'
    BY <1>7, <2>2
  <2>5. ASSUME "newest" \notin mishaps', NEW x \in Int, NewerThan(x) PROVE NewerThan(x)'
    <3>1. PICK e \in plain : e > x
      BY <2>5 DEF NewerThan
    <3>2. Max(plain) > x
      <4> DEFINE newest == Max(plain)
      <4>1. newest \in Nat /\ e \in Nat /\ e <= newest
        BY <1>1, <2>2
      <4> HIDE DEF newest
      <4>2. newest > x
        BY <3>1, <4>1
      <4> QED BY <4>2 DEF newest
    <3> QED BY <2>3, <2>5, <3>2 DEF NewerThan
  <2>6. ASSUME "newest" \notin mishaps' PROVE NewerThan(d)'
    <3> DEFINE newest == Max(plain)
    <3>1. newest \in Nat /\ d \in Nat /\ d <= newest /\ d # newest
      BY <1>1, <1>7, <2>2, <2>6
    <3> HIDE DEF newest
    <3>2. newest > d
      BY <3>1
    <3>3. newest \in plain'
      BY <2>3, <2>6 DEF newest
    <3> QED BY <3>2, <3>3 DEF NewerThan
  <2>7. \A x \in plain \ plain' : x = d
    BY <1>7
  <2> QED BY <1>1, <1>7, <2>5, <2>6, <2>7
<1>10. CASE CleanupRemove
  <2>1. PICK d \in plain : /\ plain' = plain \ {d}
                          /\ d = Max(plain) => "newest" \in mishaps'
    BY <1>10 DEF CleanupRemove
  <2> QED BY <1>7, <1>10, <2>1 DEF CleanupRemove, HasFile
<1>11. CASE CleanupRemoveOpen
  <2>1. curName \in plain
    BY <1>11 DEF CleanupRemoveOpen, WriterInv
  <2>2. HasFile' = HasFile
    BY <1>11 DEF CleanupRemoveOpen, HasFile, FileTypes
  <2> QED BY <1>7, <1>11, <2>1, <2>2 DEF CleanupRemoveOpen
<1>8. ASSUME plain' = plain, HasFile' => HasFile /\ curName' = curName
      PROVE  /\ \A d \in plain' \ plain : \A e \in plain : e <= d
             /\ HasFile' => \A d \in plain' : d <= curName'
             /\ \A d \in Int : NewerThan(d) => NewerThan(d)'
  BY <1>1, <1>8 DEF NewerThan
<1>9. CASE ~(AppendOpen \/ AppendOpenBlind \/ AppendOpenFails \/ CleanupRemove
             \/ CleanupRemoveOpen)
  <2>1. plain' = plain /\ (HasFile' => HasFile /\ curName' = curName)
    BY <1>9 DEF FileNext, PowerLoss, AppendFirst, AppendRest, AppendFails, Truncate, TruncateFails,
                Start, StartUnrepaired, Crash, Stop, AppendOrphan, SetClock, Ended,
                HasFile
  <2> QED BY <1>8, <2>1
<1> QED BY <1>4, <1>5, <1>6, <1>9, <1>10, <1>11

(* So the writer stays on the newest file. *)
LEMMA NewestStep ==
    ASSUME FileTypes, WriterInv, OnNewest, FileNext \/ PowerLoss
    PROVE  OnNewest'
BY PlainStep DEF OnNewest, HasFile

-----------------------------------------------------------------------------
(***************************************************************************)
(* Lines stay what they are                                                *)
(***************************************************************************)

(* But for the pieces that Append adds to the open file, files only become *)
(* shorter.                                                                *)
LEMMA FilesShrink ==
    ASSUME FileTypes, WriterInv, FileNext \/ PowerLoss, ~(AppendFirst \/ AppendRest)
    PROVE  \A d \in Days : Begins(file'[d], file[d])
<1>1. /\ \A d \in Days : file[d] \in Seq(Pieces) /\ Len(file[d]) \in Nat
      /\ open => curName \in Days /\ curName \in plain
      /\ file \in [Days -> Seq(Pieces)]
  BY FileFacts DEF FileTypes
<1>2. \A d \in Days : Begins(file[d], file[d])
  BY <1>1 DEF Begins
<1>3. ASSUME NEW n \in 0..Len(file[curName]), open,
             file' = [file EXCEPT ![curName] = SubSeq(@, 1, n)],
             NEW d \in Days
      PROVE  Begins(file'[d], file[d])
  <2>1. CASE d = curName
    <3>1. file'[d] = SubSeq(file[d], 1, n)
      BY <1>1, <1>3, <2>1
    <3>2. Begins(SubSeq(file[d], 1, n), file[d])
      BY <1>1, <1>3, <2>1, PrefixIs DEF Begins
    <3> QED BY <3>1, <3>2
  <2>2. CASE d # curName
    BY <1>1, <1>2, <1>3, <2>2
  <2> QED BY <2>1, <2>2
<1>4. CASE Truncate
  <2>1. open /\ curSize \in 0..Len(file[curName])
    BY <1>1, <1>4 DEF Truncate, WriterInv, FileTypes, HasFile
  <2> QED BY <1>3, <1>4, <2>1 DEF Truncate
<1>5. CASE PowerLoss
  <2>1. PICK n \in 0..Len(file[curName]) - 1 :
          file' = [file EXCEPT ![curName] = SubSeq(@, 1, n)]
    BY <1>5 DEF PowerLoss
  <2>2. open /\ n \in 0..Len(file[curName])
    BY <1>1, <1>5 DEF PowerLoss
  <2> QED BY <1>3, <2>1, <2>2
<1>6. CASE Start
  BY <1>6, RepairedIs DEF Start
<1>7. CASE StartUnrepaired
  BY <1>7, RepairedIs DEF StartUnrepaired
<1>8. CASE CleanupRemove \/ CleanupRemoveOpen
  <2>1. PICK x \in plain : file' = [file EXCEPT ![x] = << >>]
    BY <1>1, <1>8 DEF CleanupRemove, CleanupRemoveOpen
  <2>2. \A d \in Days : Begins(<< >>, file[d])
    BY <1>1, EmptySeq DEF Begins
  <2>3. \A d \in Days : file'[d] = file[d] \/ file'[d] = << >>
    BY <1>1, <2>1
  <2> QED BY <1>2, <2>2, <2>3
<1>9. CASE file' = file
  BY <1>2, <1>9
<1> QED
  BY <1>4, <1>5, <1>6, <1>7, <1>8, <1>9
     DEF FileNext, AppendOpen, OpenFile, AppendOpenBlind, AppendOpenFails, AppendFails,
         TruncateFails, Crash, Stop, AppendOrphan, SetClock

(* The part of a file that the next Truncate keeps has the records of the  *)
(* file up to there.                                                       *)
LEMMA KeptIs ==
    ASSUME FileTypes, WriterInv, NEW d \in Days
    PROVE  /\ Kept(d) \in Seq(Pieces) /\ Begins(Kept(d), file[d])
           /\ open /\ d = curName => Len(Kept(d)) = curSize
           /\ Records(Kept(d)) \subseteq Records(file[d])
<1>1. file[d] \in Seq(Pieces) /\ Len(file[d]) \in Nat
  BY FileFacts
<1>2. CASE open /\ d = curName
  <2>1. curSize \in 0..Len(file[d])
    BY <1>1, <1>2 DEF FileTypes
  <2>2. Kept(d) = SubSeq(file[d], 1, curSize)
    BY <1>2 DEF Kept
  <2>3. /\ Kept(d) \in Seq(Pieces) /\ Len(Kept(d)) = curSize
        /\ \A i \in 1..curSize : Kept(d)[i] = file[d][i]
    BY <1>1, <2>1, <2>2, PrefixIs
  <2>4. Len(Kept(d)) <= Len(file[d])
    BY <1>1, <2>1, <2>3
  <2>5. Records(Kept(d)) \subseteq Records(file[d])
    BY <1>1, <2>3, <2>4, RecordsGrow
  <2> QED BY <2>3, <2>4, <2>5 DEF Begins
<1>3. CASE ~(open /\ d = curName)
  <2>1. Kept(d) = file[d]
    BY <1>3 DEF Kept
  <2> QED BY <1>1, <1>3, <2>1 DEF Begins
<1> QED BY <1>2, <1>3

(* No line that was put on a clean file gets lost, except by loss of power.*)
LEMMA SoundStep ==
    ASSUME FileTypes, WriterInv, SoundKept, FileNext \/ PowerLoss
    PROVE  SoundKept'
<1> SUFFICES ASSUME "power" \notin mishaps', NEW e \in sound'
             PROVE  \E d \in plain' : e \in Records(Kept(d)')
  BY DEF SoundKept
<1>1. /\ \A d \in Days : file[d] \in Seq(Pieces) /\ Len(file[d]) \in Nat
      /\ open => curName \in Days /\ curName \in plain
      /\ nev < MaxEvents => Event \in Events
      /\ file \in [Days -> Seq(Pieces)] /\ plain \subseteq Days
  BY FileFacts DEF FileTypes
<1>2. FileTypes' /\ WriterInv'
  BY FileTypesStep
<1>3. "power" \notin mishaps
  BY MishapsStay
<1>4. e \in sound => \E d \in plain : e \in Records(Kept(d))
  BY <1>3 DEF SoundKept
<1>5. ASSUME sound' \subseteq sound, plain \subseteq plain',
             \A d \in plain : Records(Kept(d)) \subseteq Records(Kept(d)')
      PROVE  \E d \in plain' : e \in Records(Kept(d)')
  BY <1>4, <1>5
<1> USE DEF writerVars, historyVars
<1>6. ASSUME sound' \subseteq sound, plain \subseteq plain', file' = file, ~open'
      PROVE  \E d \in plain' : e \in Records(Kept(d)')
  <2>1. \A d \in plain : Kept(d)' = file[d]
    BY <1>6 DEF Kept
  <2>2. \A d \in plain : Records(Kept(d)) \subseteq Records(file[d])
    BY <1>1, KeptIs
  <2> QED BY <1>5, <1>6, <2>1, <2>2
<1>7. ASSUME NEW listed, listed \subseteq plain, OpenFile(listed)
      PROVE  \E d \in plain' : e \in Records(Kept(d)')
  <2> DEFINE n == OpenName(listed)
  <2>1. n \in Days
    BY <1>7, OpenNameIs
  <2>2. /\ plain' = plain \cup {n} /\ open' = TRUE /\ orphan' = FALSE /\ curName' = n /\ curSize' = Len(file[n])
        /\ UNCHANGED <<file, sound>>
    BY <1>7 DEF OpenFile
  <2> HIDE DEF n
  <2>3. ASSUME NEW d \in plain PROVE Records(Kept(d)) \subseteq Records(Kept(d)')
    <3>1. Records(Kept(d)) \subseteq Records(file[d])
      BY <1>1, KeptIs
    <3>2. CASE d = n
      <4> DEFINE t == SubSeq(file[n], 1, Len(file[n]))
      <4>1. Kept(d)' = t
        BY <2>2, <3>2 DEF Kept
      <4>2. Begins(t, file[n]) /\ Len(t) = Len(file[n])
        BY <1>1, <2>1, PrefixIs DEF Begins
      <4>3. WholeLines(file[n]) <= Len(file[n])
        BY <1>1, <2>1, WholeLinesIs
      <4> HIDE DEF t
      <4>4. Records(t) = Records(file[n])
        BY <1>1, <2>1, <4>2, <4>3, RecordsWhole
      <4> QED BY <3>1, <3>2, <4>1, <4>4
    <3>3. CASE d # n
      <4>1. Kept(d)' = file[d]
        BY <2>2, <3>3 DEF Kept
      <4> QED BY <3>1, <4>1
    <3> QED BY <3>2, <3>3
  <2> QED BY <1>5, <2>2, <2>3
<1>8. CASE AppendOpen
  BY <1>7, <1>8 DEF AppendOpen
<1>9. CASE AppendOpenBlind
  BY <1>7, <1>9 DEF AppendOpenBlind
<1>10. CASE AppendOpenFails
  <2>1. sound' = sound /\ plain \subseteq plain' /\ file' = file /\ ~open'
    BY <1>10 DEF AppendOpenFails
  <2> QED BY <1>6, <2>1
<1>11. CASE Crash \/ Stop
  <2>1. sound' = sound /\ plain' = plain /\ file' = file /\ ~open'
    BY <1>11 DEF Crash, Stop, Ended
  <2> QED BY <1>6, <2>1
<1>12. ASSUME open, NEW p \in Pieces, file' = [file EXCEPT ![curName] = Append(@, p)],
              plain' = plain,
              open' = open, curName' = curName, curSize' \in Nat,
              curSize <= curSize', curSize' <= Len(file'[curName])
       PROVE  /\ \A d \in plain : Records(Kept(d)) \subseteq Records(Kept(d)')
              /\ \A d \in plain : d = curName => Kept(d)' = SubSeq(file'[curName], 1, curSize')
  <2> DEFINE s == file[curName]  t == file'[curName]  k == Kept(curName)  l == SubSeq(t, 1, curSize')
  <2>1. curName \in Days /\ s \in Seq(Pieces) /\ Len(s) \in Nat
    BY <1>1, <1>12
  <2>2. /\ t = Append(s, p) /\ t \in Seq(Pieces) /\ Len(t) = Len(s) + 1
        /\ \A i \in 1..Len(s) : t[i] = s[i]
    BY <1>1, <1>12, <2>1, AppendIs
  <2>3. /\ k \in Seq(Pieces) /\ Len(k) = curSize /\ Len(k) <= Len(s)
        /\ \A i \in 1..Len(k) : k[i] = s[i]
    BY <1>12, <2>1, KeptIs DEF Begins
  <2>4. curSize' \in 0..Len(t)
    BY <1>12, <2>1, <2>2
  <2>5. /\ l \in Seq(Pieces) /\ Len(l) = curSize' /\ \A i \in 1..curSize' : l[i] = t[i]
    BY <2>2, <2>4, PrefixIs
  <2>6. \A d \in plain : d = curName => Kept(d)' = l
    BY <1>12 DEF Kept
  <2> HIDE DEF s, t, k, l
  <2>7. Len(k) <= Len(l) /\ \A i \in 1..Len(k) : l[i] = k[i]
    <3>1. curSize \in Nat
      BY DEF FileTypes
    <3>2. \A i \in 1..curSize : i \in 1..Len(s) /\ i \in 1..curSize'
      BY <1>12, <2>1, <2>3, <3>1
    <3> QED BY <1>12, <2>2, <2>3, <2>5, <3>1, <3>2
  <2>8. Records(k) \subseteq Records(l)
    BY <2>3, <2>5, <2>7, RecordsGrow
  <2>9. \A d \in plain : d # curName => Kept(d)' = Kept(d)
    BY <1>1, <1>12 DEF Kept
  <2>10. \A d \in plain : Records(Kept(d)) \subseteq Records(Kept(d)')
    <3> TAKE d \in plain
    <3>1. CASE d = curName
      <4>1. Kept(d) = k /\ Kept(d)' = l
        BY <2>6, <3>1 DEF k
      <4> QED BY <2>8, <4>1
    <3>2. CASE d # curName
      BY <2>9, <3>2
    <3> QED BY <3>1, <3>2
  <2> QED BY <2>6, <2>10 DEF l, t
<1>13. CASE AppendFirst
  <2>1. open /\ Event \in Events
    BY <1>1, <1>13 DEF AppendFirst, WriterInv, MustOpen, HasFile, MayWrite
  <2>2. First(Event) \in Pieces
    BY <2>1, WholeLinesAppend, <1>1
  <2>3. curSize' = curSize /\ curSize \in Nat /\ curSize' <= Len(file'[curName])
    BY <1>2, <1>13, <2>1 DEF AppendFirst, FileTypes
  <2>4. \A d \in plain : Records(Kept(d)) \subseteq Records(Kept(d)')
    <3>1. /\ file' = [file EXCEPT ![curName] = Append(@, First(Event))]
          /\ plain' = plain /\ open' = open /\ curName' = curName
          /\ curSize' \in Nat /\ curSize <= curSize'
      BY <1>13, <2>3 DEF AppendFirst
    <3> QED BY <1>12, <2>1, <2>2, <2>3, <3>1
  <2> QED BY <1>5, <1>13, <2>4 DEF AppendFirst
<1>14. CASE AppendRest
  <2>1. open /\ nev < MaxEvents /\ Event \in Events
    BY <1>1, <1>14 DEF AppendRest, WriterInv, HasFile
  <2>2. Rest(Event) \in Pieces
    BY <2>1, WholeLinesAppend, <1>1
  <2>3. curSize' = curSize + 2 /\ curSize \in Nat /\ curSize' <= Len(file'[curName])
    BY <1>2, <1>14, <2>1 DEF AppendRest, FileTypes
  <2>4. /\ \A d \in plain : Records(Kept(d)) \subseteq Records(Kept(d)')
        /\ \A d \in plain : d = curName => Kept(d)' = SubSeq(file'[curName], 1, curSize')
    <3>1. /\ file' = [file EXCEPT ![curName] = Append(@, Rest(Event))]
          /\ plain' = plain /\ open' = open /\ curName' = curName
          /\ curSize' \in Nat /\ curSize <= curSize'
      BY <1>14, <2>3 DEF AppendRest
    <3> QED BY <1>12, <2>1, <2>2, <2>3, <3>1
  <2>5. CASE e \in sound
    BY <1>4, <1>14, <2>4, <2>5 DEF AppendRest
  <2>6. CASE e \notin sound
    <3> DEFINE s == file[curName]  t == file'[curName]  l == SubSeq(t, 1, curSize')
    <3>1. e = Event /\ OnCleanFile
      BY <1>14, <2>6 DEF AppendRest
    <3>2. curName \in Days /\ s \in Seq(Pieces) /\ Len(s) \in Nat
      BY <1>1, <2>1
    <3>3. /\ t = Append(s, Rest(Event)) /\ t \in Seq(Pieces) /\ Len(t) = Len(s) + 1
          /\ \A i \in 1..Len(s) : t[i] = s[i]
          /\ t[Len(s) + 1] = Rest(Event)
      BY <1>1, <1>14, <2>2, <3>2, AppendIs DEF AppendRest
    <3>4. Len(s) = curSize + 1 /\ WholeLines(s) = curSize /\ s[Len(s)] = First(Event)
      BY <1>14, <2>3, <3>1, <3>2 DEF OnCleanFile, WriterInv, AppendRest, HasFile
    <3>5. curSize = 0 \/ s[curSize].newline
      BY <3>2, <3>4, WholeLinesIs
    <3>6. /\ l \in Seq(Pieces) /\ Len(l) = curSize + 2 /\ \A i \in 1..curSize + 2 : l[i] = t[i]
      <4>1. curSize' \in 0..Len(t)
        BY <2>3, <3>2, <3>3, <3>4
      <4> QED BY <2>3, <3>3, <4>1, PrefixIs
    <3> HIDE DEF s, t, l
    <3>7. /\ l[curSize + 2] = Rest(Event) /\ l[curSize + 1] = First(Event)
          /\ curSize = 0 \/ l[curSize].newline
      <4>1. curSize + 1 + 1 = curSize + 2 /\ curSize + 1 \in 1..Len(s)
                /\ curSize + 1 \in 1..curSize + 2
            /\ curSize + 2 \in 1..curSize + 2
                   /\ (curSize # 0 => curSize \in 1..Len(s) /\ curSize \in 1..curSize + 2)
        BY <2>3, <3>4
      <4> QED BY <3>3, <3>4, <3>5, <3>6, <4>1
    <3>8. RecordAt(l, 0, curSize + 2, Event) /\ curSize + 2 \in 1..Len(l)
      <4>1. curSize + 2 - 1 = curSize + 1 /\ curSize + 2 - 2 = curSize /\ curSize + 1 > 0
        BY <2>3
      <4> QED BY <2>3, <3>6, <3>7, <4>1 DEF RecordAt
    <3>9. Event \in Records(l)
      BY <2>1, <3>6, <3>8, RecordsIs
    <3>10. PICK d \in plain : d = curName
      BY <1>1, <2>1
    <3>11. d \in plain' /\ Kept(d)' = l
      BY <1>14, <2>4, <3>10 DEF AppendRest, l, t
    <3> QED BY <3>1, <3>9, <3>11
  <2> QED BY <2>5, <2>6
<1>15. CASE Truncate
  <2>1. open /\ curSize \in 0..Len(file[curName]) /\ curName \in Days
            /\ file[curName] \in Seq(Pieces)
    BY <1>1, <1>15 DEF Truncate, WriterInv, FileTypes, HasFile
  <2> DEFINE k == SubSeq(file[curName], 1, curSize)
  <2>2. k \in Seq(Pieces) /\ Len(k) = curSize
    BY <2>1, PrefixIs
  <2>3. \A d \in plain : d = curName => Kept(d) = k /\ Kept(d)' = SubSeq(k, 1, curSize)
    BY <1>1, <1>15, <2>1 DEF Kept, Truncate
  <2> HIDE DEF k
  <2>4. Begins(SubSeq(k, 1, curSize), k) /\ WholeLines(k) <= Len(SubSeq(k, 1, curSize))
    BY <2>1, <2>2, PrefixIs, WholeLinesIs DEF Begins
  <2>5. Records(SubSeq(k, 1, curSize)) = Records(k)
    BY <2>2, <2>4, RecordsWhole
  <2>6. \A d \in plain : d # curName => Kept(d)' = Kept(d)
    BY <1>1, <1>15 DEF Kept, Truncate
  <2>7. \A d \in plain : Records(Kept(d)) \subseteq Records(Kept(d)')
    <3> TAKE d \in plain
    <3>1. CASE d = curName
      BY <2>3, <2>5, <3>1
    <3>2. CASE d # curName
      BY <2>6, <3>2
    <3> QED BY <3>1, <3>2
  <2> QED BY <1>5, <1>15, <2>7 DEF Truncate
<1>16. ASSUME UNCHANGED <<plain, file, open, curName, curSize, sound>>
       PROVE  \E d \in plain' : e \in Records(Kept(d)')
  <2>1. \A d \in plain : Kept(d)' = Kept(d)
    BY <1>16 DEF Kept
  <2> QED BY <1>5, <1>16, <2>1
<1>17. CASE AppendFails \/ TruncateFails \/ AppendOrphan \/ SetClock
  <2>1. UNCHANGED <<plain, file, open, curName, curSize, sound>>
    BY <1>17 DEF AppendFails, TruncateFails, AppendOrphan, SetClock
  <2> QED BY <1>16, <2>1
<1>18. CASE Start \/ StartUnrepaired
  <2>1. PICK days : file' = Repaired(days)
    BY <1>18 DEF Start, StartUnrepaired
  <2>2. ~open /\ UNCHANGED <<plain, open, sound>>
    BY <1>18 DEF Start, StartUnrepaired, WriterInv, HasFile
  <2>3. \A d \in plain : Records(file'[d]) = Records(file[d])
    BY <1>1, <2>1, RepairedIs, RecordsWhole
  <2>4. \A d \in plain : Kept(d) = file[d] /\ Kept(d)' = file'[d]
    BY <2>2 DEF Kept
  <2> QED BY <1>5, <2>2, <2>3, <2>4
<1>19. ASSUME NEW x \in plain, plain' = plain \ {x}, file' = [file EXCEPT ![x] = << >>],
              sound' = sound \ Records(file[x]),
              UNCHANGED <<curName, curSize>>,
              \A d \in plain : d # x => (open' /\ d = curName <=> open /\ d = curName)
       PROVE  \E d \in plain' : e \in Records(Kept(d)')
  <2>2. PICK d \in plain : e \in Records(Kept(d))
    BY <1>4, <1>19
  <2>3. e \in Records(file[d])
    BY <1>1, <2>2, KeptIs
  <2>4. d # x
    BY <1>19, <2>3
  <2>5. Kept(d)' = Kept(d)
    BY <1>1, <1>19, <2>4 DEF Kept
  <2> QED BY <1>19, <2>2, <2>4, <2>5
<1>21. CASE CleanupRemove
  <2>1. PICK x \in plain : /\ plain' = plain \ {x}
                          /\ file' = [file EXCEPT ![x] = << >>]
                          /\ sound' = sound \ Records(file[x])
    BY <1>21 DEF CleanupRemove
  <2>2. UNCHANGED <<open, curName, curSize>>
    BY <1>21 DEF CleanupRemove
  <2> QED BY <1>19, <2>1, <2>2
<1>22. CASE CleanupRemoveOpen
  <2>1. curName \in plain
    BY <1>1, <1>22 DEF CleanupRemoveOpen
  <2> QED BY <1>19, <1>22, <2>1 DEF CleanupRemoveOpen
<1>20. CASE PowerLoss
  BY <1>20 DEF PowerLoss
<1> QED
  BY <1>8, <1>9, <1>10, <1>11, <1>13, <1>14, <1>15, <1>17, <1>18, <1>20, <1>21, <1>22 DEF FileNext

(* Between two lines every file consists of whole lines. *)
LEMMA AllWhole ==
    ASSUME FileTypes, WriterInv, CleanFiles, Unharmed, up, wpc \in {"ready", "write"}
    PROVE  \A d \in Days : WholeLines(file[d]) = Len(file[d])
<1> TAKE d \in Days
<1>1. file[d] \in Seq(Pieces) /\ Len(file[d]) \in Nat
  BY FileFacts
<1>2. CASE d \notin plain
  <2>1. file[d] = << >>
    BY <1>2 DEF WriterInv, HasFile
  <2>2. Len(file[d]) = 0
    BY <2>1
  <2> QED BY <1>1, <2>2, WholeLinesIs
<1>3. CASE d \in plain /\ open /\ d = curName
  BY <1>3 DEF CleanFiles
<1>4. CASE d \in plain /\ ~(open /\ d = curName)
  BY <1>4 DEF CleanFiles
<1> QED BY <1>2, <1>3, <1>4

(* Truncate and repairTails see to it that a half line has nothing glued   *)
(* to it, so that what is accepted is sound.                               *)
LEMMA CleanStep ==
    ASSUME FileTypes, WriterInv, CleanFiles, FileNext \/ PowerLoss
    PROVE  CleanFiles'
<1> SUFFICES ASSUME Unharmed'
             PROVE  /\ accepted' \subseteq sound'
                    /\ up' => \A d \in plain' : ~(open' /\ d = curName')
                           => WholeLines(file'[d]) = Len(file'[d])
                    /\ open' => /\ WholeLines(file'[curName']) = curSize'
                                /\ wpc' \in {"ready", "write"} => Len(file'[curName']) = curSize'
                                /\ wpc' = "half"   => Len(file'[curName']) = curSize' + 1
                                /\ wpc' = "failed"
                                       => Len(file'[curName']) \in {curSize', curSize' + 1}
  BY DEF CleanFiles
<1>1. /\ \A d \in Days : file[d] \in Seq(Pieces) /\ Len(file[d]) \in Nat
      /\ open => curName \in Days /\ curName \in plain
      /\ nev < MaxEvents => Event \in Events
      /\ file \in [Days -> Seq(Pieces)] /\ plain \subseteq Days /\ curSize \in Nat
  BY FileFacts DEF FileTypes
<1>2. Unharmed
  BY MishapsStay DEF Unharmed
<1>3. /\ accepted \subseteq sound
      /\ up => \A d \in plain : ~(open /\ d = curName) => WholeLines(file[d]) = Len(file[d])
      /\ open => /\ WholeLines(file[curName]) = curSize
                 /\ wpc \in {"ready", "write"} => Len(file[curName]) = curSize
                 /\ wpc = "half"   => Len(file[curName]) = curSize + 1
                 /\ wpc = "failed" => Len(file[curName]) \in {curSize, curSize + 1}
  BY <1>2 DEF CleanFiles
<1>4. up /\ wpc \in {"ready", "write"} => \A d \in Days : WholeLines(file[d]) = Len(file[d])
  BY <1>2, AllWhole
<1> USE DEF writerVars, historyVars
<1>5. CASE AppendOpen \/ AppendOpenBlind
  <2>1. PICK listed \in SUBSET plain : OpenFile(listed)
    BY <1>5 DEF AppendOpen, AppendOpenBlind
  <2> DEFINE n == OpenName(listed)
  <2>2. n \in Days
    BY <2>1, OpenNameIs
  <2> HIDE DEF n
  <2>3. /\ up /\ wpc = "ready" /\ plain' = plain \cup {n} /\ curName' = n /\ curSize' = Len(file[n])
        /\ wpc' = "write" /\ UNCHANGED <<file, accepted, sound>>
    BY <2>1 DEF OpenFile, n
  <2> QED BY <1>1, <1>3, <1>4, <2>2, <2>3
<1>6. CASE AppendOpenFails
  <2>1. OpenName(plain) \in Days
    BY OpenNameIs
  <2>2. /\ up /\ wpc = "ready" /\ plain' \subseteq Days /\ ~open'
        /\ UNCHANGED <<file, accepted, sound>>
    BY <1>1, <1>6, <2>1 DEF AppendOpenFails
  <2> QED BY <1>3, <1>4, <2>2
<1>7. CASE AppendFirst
  <2>1. open /\ Event \in Events /\ up /\ wpc \in {"ready", "write"}
    BY <1>1, <1>7 DEF AppendFirst, WriterInv, MustOpen, HasFile, MayWrite
  <2> DEFINE s == file[curName]  t == file'[curName]
  <2>2. s \in Seq(Pieces) /\ Len(s) \in Nat /\ t = Append(s, First(Event))
    BY <1>1, <1>7, <2>1 DEF AppendFirst
  <2> HIDE DEF s, t
  <2>3. First(Event) \in Pieces /\ WholeLines(t) = WholeLines(s)
    BY <2>1, <2>2, WholeLinesAppend
  <2>4. Len(t) = Len(s) + 1
    BY <2>2, <2>3, AppendIs
  <2>5. WholeLines(s) = curSize /\ Len(s) = curSize
    BY <1>3, <2>1 DEF s
  <2>6. \A d \in Days : d # curName => file'[d] = file[d]
    BY <1>1, <1>7 DEF AppendFirst
  <2>7. UNCHANGED <<plain, up, open, orphan, curName, curSize, accepted, sound>> /\ wpc' = "half"
    BY <1>7 DEF AppendFirst
  <2>8. WholeLines(t) = curSize /\ Len(t) = curSize + 1
    BY <2>3, <2>4, <2>5
  <2>9. \A d \in plain' : ~(open' /\ d = curName') => WholeLines(file'[d]) = Len(file'[d])
    BY <1>1, <1>3, <2>1, <2>6, <2>7
  <2>10. t = file'[curName']
    BY <2>7 DEF t
  <2> QED BY <1>3, <2>7, <2>8, <2>9, <2>10
<1>8. CASE AppendRest
  <2>1. open /\ Event \in Events /\ up /\ wpc = "half"
    BY <1>1, <1>8 DEF AppendRest, WriterInv, HasFile
  <2> DEFINE s == file[curName]  t == file'[curName]
  <2>2. s \in Seq(Pieces) /\ Len(s) \in Nat /\ t = Append(s, Rest(Event))
    BY <1>1, <1>8, <2>1 DEF AppendRest
  <2>3. WholeLines(s) = curSize /\ Len(s) = curSize + 1
    BY <1>3, <2>1
  <2>4. OnCleanFile
    BY <1>1, <2>3 DEF OnCleanFile
  <2> HIDE DEF s, t
  <2>5. Rest(Event) \in Pieces /\ WholeLines(t) = Len(s) + 1
    BY <2>1, <2>2, WholeLinesAppend
  <2>6. Len(t) = Len(s) + 1
    BY <2>2, <2>5, AppendIs
  <2>7. \A d \in Days : d # curName => file'[d] = file[d]
    BY <1>1, <1>8 DEF AppendRest
  <2>8. /\ UNCHANGED <<plain, up, open, orphan, curName>> /\ wpc' = "ready" /\ curSize' = curSize + 2
        /\ accepted' = accepted \cup {Event} /\ sound' = sound \cup {Event}
    BY <1>8, <2>4 DEF AppendRest
  <2>9. WholeLines(t) = curSize' /\ Len(t) = curSize'
    BY <1>1, <2>3, <2>5, <2>6, <2>8
  <2> QED BY <1>1, <1>3, <2>7, <2>8, <2>9 DEF t
<1>9. CASE AppendFails
  <2>1. UNCHANGED <<plain, file, up, open, orphan, curName, curSize, accepted, sound>> /\ wpc' = "failed"
        /\ wpc \in {"ready", "write", "half"}
    BY <1>9 DEF AppendFails, MayWrite
  <2> QED BY <1>3, <2>1
<1>10. CASE Truncate
  <2>1. open /\ curSize \in 0..Len(file[curName]) /\ curName \in Days
            /\ file[curName] \in Seq(Pieces)
    BY <1>1, <1>10 DEF Truncate, WriterInv, FileTypes, HasFile
  <2> DEFINE s == file[curName]  t == SubSeq(s, 1, curSize)
  <2>2. Len(t) = curSize /\ Begins(t, s)
    BY <2>1, PrefixIs DEF Begins
  <2>3. WholeLines(s) = curSize
    BY <1>3, <2>1
  <2>4. file'[curName] = t /\ \A d \in Days : d # curName => file'[d] = file[d]
    BY <1>1, <1>10, <2>1 DEF Truncate
  <2>5. UNCHANGED <<plain, up, open, orphan, curName, curSize, accepted, sound>> /\ wpc' = "ready"
    BY <1>10 DEF Truncate
  <2> HIDE DEF s, t
  <2>6. WholeLines(s) <= Len(t)
    BY <1>1, <2>2, <2>3
  <2>7. WholeLines(t) = curSize
    BY <2>1, <2>2, <2>3, <2>6, RecordsWhole DEF s
  <2> QED BY <1>1, <1>3, <2>2, <2>4, <2>5, <2>7
<1>11. CASE TruncateFails
  <2>1. open /\ wpc = "failed"
    BY <1>11 DEF TruncateFails, WriterInv, HasFile
  <2>2. Len(file[curName]) = curSize
    BY <1>11 DEF TruncateFails, Unharmed
  <2>3. UNCHANGED <<plain, file, up, open, orphan, curName, curSize, accepted, sound>> /\ wpc' = "ready"
    BY <1>11 DEF TruncateFails
  <2> QED BY <1>3, <2>2, <2>3
<1>12. CASE Start \/ StartUnrepaired
  <2>1. file' = Repaired(plain)
    BY <1>12 DEF Start, StartUnrepaired, Unharmed
  <2>2. ~open /\ UNCHANGED <<plain, open, accepted, sound>>
    BY <1>12 DEF Start, StartUnrepaired, WriterInv, HasFile
  <2>3. \A d \in plain : Len(file'[d]) = WholeLines(file[d])
            /\ WholeLines(file'[d]) = WholeLines(file[d])
    <3> TAKE d \in plain
    <3>1. /\ Begins(file'[d], file[d]) /\ WholeLines(file[d]) <= Len(file'[d])
          /\ Len(file'[d]) = WholeLines(file[d])
      BY <1>1, <2>1, RepairedIs
    <3> QED BY <1>1, <3>1, RecordsWhole
  <2> QED BY <1>3, <2>2, <2>3
<1>13. CASE Crash \/ Stop
  BY <1>3, <1>13 DEF Crash, Stop, Ended
<1>14. CASE PowerLoss
  BY <1>14 DEF PowerLoss, Unharmed
<1>15. CASE CleanupRemove
  <2>1. PICK x \in plain : ~(open /\ x = curName) /\
          /\ plain' = plain \ {x}
          /\ file' = [file EXCEPT ![x] = << >>]
          /\ accepted' = accepted \ Records(file[x])
          /\ sound' = sound \ Records(file[x])
    BY <1>15 DEF CleanupRemove
  <2>2. UNCHANGED <<up, wpc, open, orphan, curName, curSize>>
    BY <1>15 DEF CleanupRemove
  <2>3. \A d \in Days : d # x => file'[d] = file[d]
    BY <1>1, <2>1
  <2> QED BY <1>1, <1>3, <2>1, <2>2, <2>3
<1>16. CASE SetClock
  <2>1. UNCHANGED <<plain, file, up, wpc, open, orphan, curName, curSize, accepted, sound>>
    BY <1>16 DEF SetClock
  <2> QED BY <1>3, <2>1
<1>17. CASE CleanupRemoveOpen \/ AppendOrphan
  BY <1>2, <1>17 DEF CleanupRemoveOpen, AppendOrphan, WriterInv, Unharmed
<1> QED
  BY <1>5, <1>6, <1>7, <1>8, <1>9, <1>10, <1>11, <1>12, <1>13, <1>14, <1>15, <1>16, <1>17
     DEF FileNext

(* What these invariants say of the lines on disk. *)
LEMMA LinesFound ==
    ASSUME FileTypes, WriterInv, SoundKept, CleanFiles
    PROVE  LinesIntact /\ SoundLinesStay
<1>1. ASSUME "power" \notin mishaps PROVE sound \subseteq OnDisk
  <2> SUFFICES ASSUME NEW e \in sound PROVE e \in OnDisk
    OBVIOUS
  <2>1. PICK d \in plain : e \in Records(Kept(d))
    BY <1>1 DEF SoundKept
  <2>2. d \in Days
    BY DEF FileTypes
  <2>3. e \in Records(file[d])
    BY <2>1, <2>2, KeptIs
  <2> QED BY <2>3 DEF OnDisk
<1>2. ASSUME Unharmed PROVE accepted \subseteq OnDisk
  <2>1. accepted \subseteq sound
    BY <1>2 DEF CleanFiles
  <2>2. "power" \notin mishaps
    BY <1>2 DEF Unharmed
  <2> QED BY <1>1, <2>1, <2>2
<1> QED BY <1>1, <1>2 DEF LinesIntact, SoundLinesStay, Unharmed

-----------------------------------------------------------------------------
(***************************************************************************)
(* The order of the lines                                                  *)
(***************************************************************************)

(* A piece is of an event. *)
LEMMA PieceIs ==
    ASSUME NEW s \in Seq(Pieces), NEW i \in 1..Len(s)
    PROVE  s[i] \in Pieces /\ s[i].event \in Events /\ s[i].event \in Nat
               /\ s[i].newline \in BOOLEAN
<1>1. s[i] \in Pieces
  BY ElementOfSeq
<1>2. Events \subseteq Nat
  BY SpoolFileAssumption DEF Events
<1> QED BY <1>1, <1>2 DEF Pieces

(* The order is that of the events, whatever is cut off or removed.        *)
LEMMA OrderlyStep ==
    ASSUME FileTypes, WriterInv, CleanFiles, OnNewest, Orderly, FileNext \/ PowerLoss
    PROVE  Orderly'
<1> SUFFICES ASSUME mishaps' = {}
             PROVE  /\ \A d \in Days : Alternates(file'[d]) /\ Ascends(file'[d])
                           /\ Bounded(file[d])'
                    /\ \A d, e \in Days : d < e =>
                          \A i \in 1..Len(file'[d]), j \in 1..Len(file'[e]) :
                              file'[d][i].event < file'[e][j].event
  BY DEF Orderly, Alternates, Ascends
<1>1. /\ \A d \in Days : file[d] \in Seq(Pieces) /\ Len(file[d]) \in Nat
      /\ open => curName \in Days /\ curName \in plain
      /\ file \in [Days -> Seq(Pieces)] /\ plain \subseteq Days /\ curSize \in Nat
      /\ nev \in Nat /\ Days \subseteq Nat
      /\ nev < MaxEvents => Event \in Events
  BY FileFacts DEF FileTypes
<1>2. mishaps = {} /\ Unharmed
  BY MishapsStay DEF Unharmed
<1>3. /\ \A d \in Days : Alternates(file[d]) /\ Ascends(file[d]) /\ Bounded(file[d])
      /\ \A d, e \in Days : d < e =>
            \A i \in 1..Len(file[d]), j \in 1..Len(file[e]) : file[d][i].event < file[e][j].event
  BY <1>2 DEF Orderly
<1> USE DEF writerVars, historyVars
<1>4. nev \in Nat /\ nev' \in Nat /\ nev <= nev' /\ InHand <= InHand' /\ InHand \in Nat
          /\ InHand' \in Nat
  <2>1. nev' \in {nev, nev + 1}
    BY DEF FileNext, PowerLoss, AppendOpen, OpenFile, AppendOpenBlind, AppendOpenFails,
           AppendFirst, AppendRest,
       AppendFails, Truncate, TruncateFails, Start, StartUnrepaired, Crash, Stop, CleanupRemove,
       CleanupRemoveOpen, AppendOrphan, SetClock, Ended
  <2>2. wpc \in {"half", "failed"} => nev' = nev + 1 \/ wpc' \in {"half", "failed"}
    BY DEF FileNext, PowerLoss, AppendOpen, OpenFile, AppendOpenBlind, AppendOpenFails,
           AppendFirst, AppendRest,
       AppendFails, Truncate, TruncateFails, Start, StartUnrepaired, Crash, Stop, CleanupRemove,
       CleanupRemoveOpen, AppendOrphan, SetClock, Ended
  <2>3. nev' \in Nat /\ nev <= nev' /\ nev' \in {nev, nev + 1}
    BY <1>1, <2>1
  <2> DEFINE h == InHand  hn == InHand'  n == nev  nn == nev'
  <2>4. hn = IF wpc' \in {"half", "failed"} THEN nn + 1 ELSE nn
    BY DEF InHand
  <2>5. h = IF wpc \in {"half", "failed"} THEN n + 1 ELSE n
    BY DEF InHand
  <2>6. n \in Nat /\ nn \in Nat /\ nn \in {n, n + 1}
        /\ (wpc \in {"half", "failed"} => nn = n + 1 \/ wpc' \in {"half", "failed"})
    BY <1>1, <2>2, <2>3
  <2> HIDE DEF h, hn, n, nn
  <2>7. n \in Nat /\ nn \in Nat /\ n <= nn /\ h <= hn /\ h \in Nat /\ hn \in Nat
    BY <2>4, <2>5, <2>6
  <2> QED BY <2>7 DEF h, hn, n, nn
<1>5. ASSUME NEW d \in Days, Begins(file'[d], file[d])
      PROVE  Alternates(file'[d]) /\ Ascends(file'[d]) /\ Bounded(file[d])'
  <2> DEFINE s == file[d]  t == file'[d]
  <2>1. Len(s) \in Nat /\ Len(t) \in Nat /\ Len(t) <= Len(s) /\ \A i \in 1..Len(t) : t[i] = s[i]
    BY <1>1, <1>5, LenProperties DEF Begins
  <2>2. Alternates(s) /\ Ascends(s) /\ Bounded(s)
    BY <1>3
  <2>3. \A i \in 1..Len(s) : s[i].event \in Nat
    BY <1>1, PieceIs
  <2>4. Bounded(file[d])' <=> \A i \in 1..Len(t) : t[i].event <= InHand'
            /\ (t[i].newline => t[i].event <= nev')
    BY DEF Bounded
  <2> HIDE DEF s, t
  <2>5. Alternates(t)
    BY <2>1, <2>2 DEF Alternates
  <2>6. Ascends(t)
    BY <2>1, <2>2 DEF Ascends
  <2>7. \A i \in 1..Len(t) : t[i].event <= InHand' /\ (t[i].newline => t[i].event <= nev')
    BY <1>4, <2>1, <2>2, <2>3 DEF Bounded
  <2> QED BY <2>4, <2>5, <2>6, <2>7 DEF t
<1>6. CASE ~(AppendFirst \/ AppendRest)
  <2>1. \A d \in Days : Begins(file'[d], file[d])
    BY <1>6, FilesShrink
  <2>2. ASSUME NEW d \in Days, NEW e \in Days, d < e,
               NEW i \in 1..Len(file'[d]), NEW j \in 1..Len(file'[e])
        PROVE  file'[d][i].event < file'[e][j].event
    <3>1. /\ file'[d][i] = file[d][i] /\ Len(file'[d]) \in Nat /\ Len(file'[d]) <= Len(file[d])
          /\ file'[e][j] = file[e][j] /\ Len(file'[e]) \in Nat /\ Len(file'[e]) <= Len(file[e])
      BY <2>1, <2>2, LenProperties DEF Begins
    <3>2. i \in 1..Len(file[d]) /\ j \in 1..Len(file[e])
      BY <1>1, <3>1
    <3> QED BY <1>3, <2>2, <3>1, <3>2
  <2> QED BY <1>5, <2>1, <2>2
<1>7. ASSUME NEW p \in Pieces, open, file' = [file EXCEPT ![curName] = Append(@, p)],
             p.event = Event,
             Event \in Events, Event <= InHand', p.newline => Event <= nev',
             \A d \in Days : d < curName => \A i \in 1..Len(file[d]) : file[d][i].event < Event,
             LET s == file[curName]  n == Len(s) IN
                 /\ \A i \in 1..n : s[i].event <= Event /\ (~p.newline => s[i].event < Event)
                 /\ p.newline => n >= 1 /\ s[n] = First(Event)
                 /\ ~p.newline => n = 0 \/ s[n].newline
      PROVE  /\ \A d \in Days : Alternates(file'[d]) /\ Ascends(file'[d]) /\ Bounded(file[d])'
             /\ \A d, e \in Days : d < e =>
                    \A i \in 1..Len(file'[d]), j \in 1..Len(file'[e]) :
                        file'[d][i].event < file'[e][j].event
  <2> DEFINE s == file[curName]  n == Len(s)  t == file'[curName]
  <2>1. curName \in Days /\ s \in Seq(Pieces) /\ n \in Nat /\ n = Len(s)
    BY <1>1, <1>7
  <2>2. /\ t = Append(s, p) /\ Len(t) = n + 1 /\ (\A i \in 1..n : t[i] = s[i]) /\ t[n + 1] = p
    BY <1>1, <1>7, <2>1, AppendIs
  <2>3. \A d \in Days : d # curName => file'[d] = file[d]
    BY <1>1, <1>7
  <2>4. \A i \in 1..n : s[i].event \in Nat
    BY <2>1, PieceIs
  <2>5. /\ \A i \in 1..n : s[i].event <= Event /\ (~p.newline => s[i].event < Event)
        /\ p.newline => n >= 1 /\ s[n] = First(Event)
        /\ ~p.newline => n = 0 \/ s[n].newline
    BY <1>7
  <2>6. Alternates(s) /\ Ascends(s) /\ Bounded(s)
    BY <1>3, <2>1
  <2>7. \A d \in Days : d = curName =>
          (Bounded(file[d])' <=> \A i \in 1..Len(t) : t[i].event <= InHand'
               /\ (t[i].newline => t[i].event <= nev'))
    BY DEF Bounded
  <2> HIDE DEF s, n, t
  <2>8. \A i \in 1..Len(t) : i \in 1..n \/ i = n + 1
    BY <2>1, <2>2
  <2>9. Alternates(t)
    <3> SUFFICES ASSUME NEW i \in 1..Len(t)
                 PROVE  /\ t[i].newline => i > 1 /\ t[i - 1] = First(t[i].event)
                        /\ ~t[i].newline => i = 1 \/ t[i - 1].newline
      BY DEF Alternates
    <3>1. CASE i \in 1..n
      <4>1. t[i] = s[i] /\ (i > 1 => t[i - 1] = s[i - 1])
        BY <2>1, <2>2, <3>1
      <4> QED BY <2>1, <2>6, <3>1, <4>1 DEF Alternates
    <3>2. CASE i = n + 1
      <4>1. t[i] = p /\ i - 1 = n
        BY <2>1, <2>2, <3>2
      <4>2. n >= 1 => t[n] = s[n]
        BY <2>1, <2>2
      <4> QED BY <1>7, <2>1, <2>5, <3>2, <4>1, <4>2
    <3> QED BY <2>8, <3>1, <3>2
  <2>10. Ascends(t)
    <3> SUFFICES ASSUME NEW i \in 1..Len(t), NEW j \in 1..Len(t), i < j
                 PROVE  t[i].event <= t[j].event /\ (~t[j].newline => t[i].event < t[j].event)
      BY DEF Ascends
    <3>1. i \in 1..n /\ t[i] = s[i]
      BY <2>1, <2>2
    <3>2. CASE j \in 1..n
      BY <2>1, <2>2, <2>6, <3>1, <3>2 DEF Ascends
    <3>3. CASE j = n + 1
      BY <1>7, <2>2, <2>5, <3>1, <3>3
    <3> QED BY <2>8, <3>2, <3>3
  <2>11. \A i \in 1..Len(t) : t[i].event <= InHand' /\ (t[i].newline => t[i].event <= nev')
    <3> TAKE i \in 1..Len(t)
    <3>1. CASE i \in 1..n
      BY <1>4, <2>1, <2>2, <2>4, <2>6, <3>1 DEF Bounded
    <3>2. CASE i = n + 1
      BY <1>7, <2>2, <3>2
    <3> QED BY <2>8, <3>1, <3>2
  <2>12. \A d \in Days : Alternates(file'[d]) /\ Ascends(file'[d]) /\ Bounded(file[d])'
    <3> TAKE d \in Days
    <3>1. CASE d = curName
      BY <2>7, <2>9, <2>10, <2>11, <3>1 DEF t
    <3>2. CASE d # curName
      <4>1. Begins(file'[d], file[d])
        BY <1>1, <2>3, <3>2 DEF Begins
      <4> QED BY <1>5, <4>1
    <3> QED BY <3>1, <3>2
  <2>13. ASSUME NEW d \in Days, NEW e \in Days, d < e,
                NEW i \in 1..Len(file'[d]), NEW j \in 1..Len(file'[e])
         PROVE  file'[d][i].event < file'[e][j].event
    <3>1. CASE d = curName
      <4>1. e \in Days \ plain
        BY <1>1, <1>2, <1>7, <2>13, <3>1 DEF OnNewest, HasFile
      <4>2. file[e] = << >> /\ file'[e] = file[e]
        BY <1>1, <2>3, <2>13, <3>1, <4>1 DEF WriterInv, HasFile
      <4>3. Len(file'[e]) = 0
        BY <4>2
      <4> QED BY <2>13, <4>3
    <3>2. CASE e = curName
      <4>1. file'[d] = file[d] /\ file'[e] = t /\ d < curName
        BY <1>1, <2>3, <2>13, <3>2 DEF t
      <4>2. CASE j \in 1..n
        BY <1>3, <2>2, <2>13, <3>2, <4>1, <4>2 DEF n, s
      <4>3. CASE j = n + 1
        BY <1>7, <2>2, <4>1, <4>3
      <4> QED BY <2>8, <4>1, <4>2, <4>3
    <3>3. CASE d # curName /\ e # curName
      BY <1>3, <2>3, <2>13, <3>3
    <3> QED BY <3>1, <3>2, <3>3
  <2> QED BY <2>12, <2>13
<1>8. CASE AppendFirst
  <2> DEFINE s == file[curName]  n == Len(s)
  <2>1. open /\ Event \in Events /\ wpc \in {"ready", "write"} /\ nev' = nev /\ wpc' = "half"
    BY <1>1, <1>8 DEF AppendFirst, WriterInv, MustOpen, HasFile, MayWrite
  <2>2. InHand = nev /\ InHand' = nev + 1 /\ Event = nev + 1
    BY <2>1 DEF InHand, Event
  <2>3. \A d \in Days : \A i \in 1..Len(file[d]) : file[d][i].event < Event
    <3> TAKE d \in Days
    <3> TAKE i \in 1..Len(file[d])
    <3>1. file[d][i].event \in Nat /\ file[d][i].event <= InHand
      BY <1>1, <1>3, PieceIs DEF Bounded
    <3> QED BY <1>1, <2>2, <3>1
  <2>4. n = 0 \/ s[n].newline
    <3>1. s \in Seq(Pieces) /\ WholeLines(s) = n
      BY <1>1, <1>2, <2>1 DEF CleanFiles
    <3> QED BY <3>1, WholeLinesIs
  <2>5. First(Event) \in Pieces /\ First(Event).event = Event /\ ~First(Event).newline
    BY <2>1 DEF First, Pieces
  <2>6. \A i \in 1..n : s[i].event <= Event /\ s[i].event < Event
    <3> TAKE i \in 1..n
    <3>1. s[i].event \in Nat /\ s[i].event < Event
      BY <1>1, <2>1, <2>3, PieceIs
    <3>2. Event \in Nat
      BY <1>1, <2>2
    <3> QED BY <3>1, <3>2
  <2>7. file' = [file EXCEPT ![curName] = Append(@, First(Event))]
    BY <1>8 DEF AppendFirst
  <2>8. Event <= InHand'
    BY <1>1, <2>2
  <2> QED BY <1>7, <2>1, <2>3, <2>4, <2>5, <2>6, <2>7, <2>8
<1>9. CASE AppendRest
  <2> DEFINE s == file[curName]  n == Len(s)
  <2>1. open /\ Event \in Events /\ nev' = nev + 1 /\ wpc' = "ready"
    BY <1>1, <1>9 DEF AppendRest, WriterInv, HasFile
  <2>2. InHand' = nev + 1 /\ Event = nev + 1
    BY <2>1 DEF InHand, Event
  <2>3. curName \in Days /\ s \in Seq(Pieces) /\ n \in Nat /\ n >= 1 /\ s[n] = First(Event)
    <3>1. curName \in Days /\ s \in Seq(Pieces) /\ n \in Nat
      BY <1>1, <2>1
    <3>2. n > curSize /\ s[n] = First(Event)
      BY <1>9 DEF WriterInv, AppendRest, HasFile
    <3> HIDE DEF s, n
    <3>3. n >= 1
      BY <1>1, <3>1, <3>2
    <3> QED BY <3>1, <3>2, <3>3
  <2>4. Rest(Event) \in Pieces /\ Rest(Event).event = Event /\ Rest(Event).newline
            /\ First(Event).event = Event
    BY <2>1 DEF First, Rest, Pieces
  <2>5. \A i \in 1..n : s[i].event <= Event
    <3> TAKE i \in 1..n
    <3>1. CASE i < n
      BY <1>3, <2>3, <2>4, <3>1 DEF Ascends
    <3>2. CASE i = n
      BY <1>1, <2>2, <2>3, <2>4, <3>2
    <3> QED BY <2>3, <3>1, <3>2
  <2>6. \A d \in Days : d < curName => \A i \in 1..Len(file[d]) : file[d][i].event < Event
    <3>1. n \in 1..n /\ s[n].event = Event
      BY <2>3, <2>4
    <3> QED BY <1>3, <2>3, <3>1
  <2>7. file' = [file EXCEPT ![curName] = Append(@, Rest(Event))]
    BY <1>9 DEF AppendRest
  <2>8. Event <= InHand' /\ Event <= nev'
    BY <1>1, <2>1, <2>2
  <2> QED BY <1>7, <2>1, <2>3, <2>4, <2>5, <2>6, <2>7, <2>8
<1> QED BY <1>6, <1>8, <1>9

(* All that the files are known to satisfy, after every step. *)
LEMMA FileStep ==
    ASSUME FileIInv, FileNext \/ PowerLoss
    PROVE  FileIInv'
BY FileTypesStep, NewestStep, SoundStep, CleanStep, OrderlyStep DEF FileIInv

-----------------------------------------------------------------------------
(***************************************************************************)
(* tail beside the writer                                                  *)
(***************************************************************************)

(* Without a mishap no whole line is cut off a file that stays. *)
LEMMA WholeKept ==
    ASSUME FileIInv, FileNext, Unharmed', NEW d \in plain, d \in plain'
    PROVE  /\ WholeLines(file[d]) <= Len(file'[d])
           /\ \A i \in 1..WholeLines(file[d]) : file'[d][i] = file[d][i]
<1>1. FileTypes /\ WriterInv /\ CleanFiles
  BY DEF FileIInv
<1>2. /\ d \in Days /\ file[d] \in Seq(Pieces) /\ Len(file[d]) \in Nat
      /\ open => curName \in Days
      /\ file \in [Days -> Seq(Pieces)] /\ (nev < MaxEvents => Event \in Events)
  BY <1>1, FileFacts DEF FileTypes
<1>3. WholeLines(file[d]) \in 0..Len(file[d])
  BY <1>2, WholeLinesIs
<1>4. Unharmed
  BY MishapsStay DEF Unharmed
<1>5. ASSUME Begins(file'[d], file[d]), WholeLines(file[d]) <= Len(file'[d])
      PROVE  \A i \in 1..WholeLines(file[d]) : file'[d][i] = file[d][i]
  <2>1. Len(file'[d]) \in Nat /\ \A i \in 1..Len(file'[d]) : file'[d][i] = file[d][i]
    BY <1>5, LenProperties DEF Begins
  <2> QED BY <1>2, <1>3, <1>5, <2>1
<1>6. ASSUME file'[d] = file[d]
      PROVE  /\ WholeLines(file[d]) <= Len(file'[d])
             /\ \A i \in 1..WholeLines(file[d]) : file'[d][i] = file[d][i]
  BY <1>2, <1>3, <1>6
<1>7. ASSUME NEW p \in Pieces, open, file' = [file EXCEPT ![curName] = Append(@, p)]
      PROVE  /\ WholeLines(file[d]) <= Len(file'[d])
             /\ \A i \in 1..WholeLines(file[d]) : file'[d][i] = file[d][i]
  <2>1. CASE d = curName
    <3>1. file'[d] = Append(file[d], p)
      BY <1>2, <1>7, <2>1
    <3>2. Len(file'[d]) = Len(file[d]) + 1 /\ \A i \in 1..Len(file[d]) : file'[d][i] = file[d][i]
      BY <1>2, <3>1, AppendIs
    <3> QED BY <1>2, <1>3, <3>2
  <2>2. CASE d # curName
    BY <1>2, <1>6, <1>7, <2>2
  <2> QED BY <2>1, <2>2
<1>8. CASE AppendFirst
  <2>1. open /\ First(Event) \in Pieces
    BY <1>1, <1>2, <1>8, WholeLinesAppend DEF AppendFirst, WriterInv, MustOpen, HasFile, MayWrite
  <2> QED BY <1>7, <1>8, <2>1 DEF AppendFirst
<1>9. CASE AppendRest
  <2>1. open /\ Rest(Event) \in Pieces
    BY <1>1, <1>2, <1>9, WholeLinesAppend DEF AppendRest, WriterInv, HasFile
  <2> QED BY <1>7, <1>9, <2>1 DEF AppendRest
<1>10. CASE Truncate
  <2>1. open /\ curSize \in 0..Len(file[curName])
    BY <1>1, <1>10, FileFacts DEF Truncate, WriterInv, FileTypes, HasFile
  <2>2. CASE d = curName
    <3>1. file'[d] = SubSeq(file[d], 1, curSize) /\ WholeLines(file[d]) = curSize
      BY <1>1, <1>2, <1>4, <1>10, <2>1, <2>2 DEF Truncate, CleanFiles
    <3>2. Begins(file'[d], file[d]) /\ Len(file'[d]) = curSize
      BY <1>2, <2>1, <2>2, <3>1, PrefixIs DEF Begins
    <3>3. WholeLines(file[d]) <= Len(file'[d])
      BY <1>2, <1>3, <3>1, <3>2
    <3> QED BY <1>5, <3>2, <3>3
  <2>3. CASE d # curName
    <3>1. file'[d] = file[d]
      BY <1>2, <1>10, <2>3 DEF Truncate
    <3> QED BY <1>6, <3>1
  <2> QED BY <2>2, <2>3
<1>11. CASE Start \/ StartUnrepaired
  <2>1. PICK days : file' = Repaired(days)
    BY <1>11 DEF Start, StartUnrepaired
  <2> QED BY <1>1, <1>2, <1>5, <2>1, RepairedIs
<1>12. CASE CleanupRemove \/ CleanupRemoveOpen
  <2>1. PICK x \in plain : plain' = plain \ {x} /\ file' = [file EXCEPT ![x] = << >>]
    BY <1>1, <1>12 DEF CleanupRemove, CleanupRemoveOpen, WriterInv
  <2>2. file'[d] = file[d]
    BY <1>2, <2>1
  <2> QED BY <1>6, <2>2
<1>13. CASE file' = file
  BY <1>6, <1>13
<1> QED
  BY <1>8, <1>9, <1>10, <1>11, <1>12, <1>13
     DEF FileNext, AppendOpen, OpenFile, AppendOpenBlind, AppendOpenFails, AppendFails,
         TruncateFails, Crash, Stop, AppendOrphan, SetClock

(* Whatever piece is in a file was there before or is of the event in hand.*)
LEMMA NewPieces ==
    ASSUME FileIInv, FileNext, NEW d \in Days, NEW i \in 1..Len(file'[d])
    PROVE  \/ i \in 1..Len(file[d]) /\ file'[d][i] = file[d][i]
           \/ open /\ d = curName /\ file'[d][i].event = nev + 1
<1>1. FileTypes /\ WriterInv
  BY DEF FileIInv
<1>2. /\ file[d] \in Seq(Pieces) /\ Len(file[d]) \in Nat
      /\ open => curName \in Days
      /\ file \in [Days -> Seq(Pieces)] /\ (nev < MaxEvents => Event \in Events)
  BY <1>1, FileFacts DEF FileTypes
<1>3. ASSUME NEW p \in Pieces, open, p.event = Event,
             file' = [file EXCEPT ![curName] = Append(@, p)]
      PROVE  \/ i \in 1..Len(file[d]) /\ file'[d][i] = file[d][i]
             \/ open /\ d = curName /\ file'[d][i].event = nev + 1
  <2>1. CASE d = curName
    <3>1. file'[d] = Append(file[d], p)
      BY <1>2, <1>3, <2>1
    <3>2. /\ Len(file'[d]) = Len(file[d]) + 1 /\ \A k \in 1..Len(file[d]) : file'[d][k] = file[d][k]
          /\ file'[d][Len(file[d]) + 1] = p
      BY <1>2, <3>1, AppendIs
    <3>3. i \in 1..Len(file[d]) \/ i = Len(file[d]) + 1
      BY <1>2, <3>2
    <3> QED BY <1>3, <2>1, <3>2, <3>3 DEF Event
  <2>2. CASE d # curName
    BY <1>2, <1>3, <2>2
  <2> QED BY <2>1, <2>2
<1>4. CASE AppendFirst
  <2>1. open /\ First(Event) \in Pieces /\ First(Event).event = Event
    BY <1>1, <1>2, <1>4, WholeLinesAppend DEF AppendFirst, WriterInv, MustOpen, First, HasFile, MayWrite
  <2> QED BY <1>3, <1>4, <2>1 DEF AppendFirst
<1>5. CASE AppendRest
  <2>1. open /\ Rest(Event) \in Pieces /\ Rest(Event).event = Event
    BY <1>1, <1>2, <1>5, WholeLinesAppend DEF AppendRest, WriterInv, Rest, HasFile
  <2> QED BY <1>3, <1>5, <2>1 DEF AppendRest
<1>6. CASE ~(AppendFirst \/ AppendRest)
  <2>1. Begins(file'[d], file[d])
    BY <1>1, <1>6, FilesShrink
  <2>2. Len(file'[d]) \in Nat /\ Len(file'[d]) <= Len(file[d]) /\ file'[d][i] = file[d][i]
    BY <2>1, LenProperties DEF Begins
  <2> QED BY <1>2, <2>2
<1> QED BY <1>4, <1>5, <1>6

(* A step of the writer keeps what tail relies on. *)
LEMMA WriterBesideTail ==
    ASSUME FileIInv, TailTypes, LeavesBehind, TailAt, PrintedInOrder,
           FileNext, UNCHANGED tailVars
    PROVE  LeavesBehind' /\ TailAt' /\ PrintedInOrder'
<1>1. FileTypes /\ WriterInv /\ OnNewest /\ CleanFiles
  BY DEF FileIInv
<1>2. UNCHANGED <<tpc, cur, off, latest, printed>>
  BY DEF tailVars
<1>3. /\ cur \in Nat /\ latest \in Nat /\ off \in Nat /\ cur \in Int /\ latest \in Int
      /\ Days \subseteq Nat /\ plain \subseteq Days /\ plain' \subseteq Days /\ 0 \notin Days
      /\ \A d \in Days : file[d] \in Seq(Pieces) /\ Len(file[d]) \in Nat
      /\ open => curName \in Days /\ curName \in plain
      /\ nev \in Nat /\ file \in [Days -> Seq(Pieces)]
  <2>1. plain' \subseteq Days
    BY <1>1, FileTypesStep DEF FileTypes
  <2>2. 0 \notin Days
    BY DEF Days
  <2>3. cur \in Nat /\ latest \in Nat /\ off \in Nat
    BY <1>1, SpoolFileAssumption DEF TailTypes
  <2> QED BY <1>1, <2>1, <2>2, <2>3, FileFacts DEF FileTypes
<1>4. mishaps \subseteq mishaps'
  BY MishapsStay
<1>5. ASSUME mishaps' \cap {"listing", "newest"} = {}
      PROVE  /\ \A d \in plain' \ plain : \A e \in plain : e <= d
             /\ \A d \in Int : NewerThan(d) => NewerThan(d)'
             /\ \A d \in plain \ plain' : NewerThan(d)'
             /\ mishaps \cap {"listing", "newest"} = {}
  BY <1>1, <1>4, <1>5, PlainStep
<1>6. ASSUME mishaps' \cap {"listing", "newest"} = {}, NewerThan(cur), cur \in plain'
      PROVE  cur \in plain
  <2>1. PICK e \in plain : e > cur
    BY <1>6 DEF NewerThan
  <2> QED BY <1>3, <1>5, <1>6, <2>1
<1>7. LeavesBehind'
  <2> SUFFICES ASSUME mishaps' \cap {"listing", "newest"} = {}, tpc \in {"again", "switch"}
               PROVE  /\ \E e \in plain' : e > cur
                      /\ tpc = "switch" /\ cur \in plain' => off >= WholeLines(file'[cur])
    BY <1>2 DEF LeavesBehind, NewerThan
  <2>1. NewerThan(cur)
    BY <1>5 DEF LeavesBehind
  <2>2. \E e \in plain' : e > cur
    <3>1. PICK c \in Int : c = cur
      BY <1>3
    <3>2. NewerThan(c)'
      BY <1>5, <2>1, <3>1 DEF NewerThan
    <3> QED BY <3>1, <3>2 DEF NewerThan
  <2>3. ASSUME tpc = "switch", cur \in plain' PROVE off >= WholeLines(file'[cur])
    <3>1. cur \in plain
      BY <1>6, <2>1, <2>3
    <3>2. off >= WholeLines(file[cur])
      BY <1>5, <2>3, <3>1 DEF LeavesBehind
    <3>3. cur \in Days /\ file[cur] \in Seq(Pieces)
      BY <1>3, <3>1
    <3>4. open => cur # curName
      <4>1. PICK e \in plain : e > cur
        BY <2>1 DEF NewerThan
      <4>2. open => e <= curName
        BY <1>1, <1>5 DEF OnNewest, HasFile
      <4> QED BY <1>3, <4>1, <4>2
    <3>5. Begins(file'[cur], file[cur])
      <4>1. CASE AppendFirst \/ AppendRest
        <5>1. open
          BY <1>1, <4>1 DEF AppendFirst, AppendRest, WriterInv, MustOpen, HasFile, MayWrite
        <5>2. file'[cur] = file[cur]
          BY <1>3, <3>3, <3>4, <4>1, <5>1 DEF AppendFirst, AppendRest
        <5> QED BY <1>3, <3>3, <5>2 DEF Begins
      <4>2. CASE ~(AppendFirst \/ AppendRest)
        BY <1>1, <3>3, <4>2, FilesShrink
      <4> QED BY <4>1, <4>2
    <3>6. WholeLines(file'[cur]) <= WholeLines(file[cur]) /\ file'[cur] \in Seq(Pieces)
      BY <3>3, <3>5, RecordsGrow DEF Begins
    <3>7. WholeLines(file'[cur]) \in Nat /\ WholeLines(file[cur]) \in Nat
      BY <3>3, <3>6, WholeLinesIs, LenProperties
    <3> QED BY <1>3, <3>2, <3>6, <3>7
  <2> QED BY <2>2, <2>3
<1>8. PrintedInOrder'
  <2>1. mishaps' = {} => mishaps = {}
    BY <1>4
  <2> QED BY <1>2, <2>1 DEF PrintedInOrder
<1>9. TailAt'
  <2> SUFFICES ASSUME mishaps' = {}
               PROVE  /\ tpc # "off" => cur = 0 \/ cur \in plain' \/ \E e \in plain' : e > cur
                      /\ tpc \in {"again", "switch"}
                             => latest \in plain' \/ \E e \in plain' : e > latest
                      /\ printed # << >> /\ cur \in plain' =>
                            off <= Len(file'[cur]) /\ (off = 0 \/ file'[cur][off].newline)
                      /\ PrintedOlder'
    BY <1>2 DEF TailAt, AtLine, FileThere, NewerThan
  <2>1. mishaps = {} /\ mishaps' \cap {"listing", "newest"} = {} /\ Unharmed'
    BY <1>4 DEF Unharmed
  <2>2. ASSUME NEW d \in Int, FileThere(d) PROVE d \in plain' \/ \E e \in plain' : e > d
    <3>1. CASE d \in plain
      BY <1>5, <2>1, <3>1 DEF NewerThan
    <3>2. CASE NewerThan(d)
      BY <1>5, <2>1, <3>2 DEF NewerThan
    <3> QED BY <2>2, <3>1, <3>2 DEF FileThere
  <2>3. ASSUME printed # << >>, cur \in plain'
        PROVE  off <= Len(file'[cur]) /\ (off = 0 \/ file'[cur][off].newline)
    <3>1. cur \in plain
      <4>1. cur \in plain \/ NewerThan(cur)
        BY <1>3, <2>1, <2>3 DEF TailAt, FileThere
      <4> QED BY <1>6, <2>1, <2>3, <4>1
    <3>2. off <= Len(file[cur]) /\ (off = 0 \/ file[cur][off].newline)
      BY <2>1, <2>3, <3>1 DEF TailAt, AtLine
    <3>3. cur \in Days /\ file[cur] \in Seq(Pieces)
      BY <1>3, <3>1
    <3>4. off <= WholeLines(file[cur]) /\ WholeLines(file[cur]) \in Nat
      BY <1>3, <3>2, <3>3, WholeLinesIs
    <3>5. /\ WholeLines(file[cur]) <= Len(file'[cur])
          /\ \A i \in 1..WholeLines(file[cur]) : file'[cur][i] = file[cur][i]
      BY <2>1, <2>3, <3>1, WholeKept
    <3>6. Len(file'[cur]) \in Nat
      BY <1>1, <3>3, FileTypesStep, LenProperties DEF FileTypes
    <3> QED BY <1>3, <3>2, <3>4, <3>5, <3>6
  <2>4. PrintedOlder'
    <3> SUFFICES ASSUME NEW k \in DOMAIN printed, printed[k] # Garbage
                 PROVE  /\ printed[k] <= nev'
                        /\ \A d \in Days : \A i \in 1..Len(file'[d]) :
                              d > cur \/ (d = cur /\ i > off) => printed[k] < file'[d][i].event
      BY <1>2 DEF PrintedOlder
    <3>1. /\ printed[k] <= nev
          /\ \A d \in Days : \A i \in 1..Len(file[d]) :
                d > cur \/ (d = cur /\ i > off) => printed[k] < file[d][i].event
      BY <2>1 DEF TailAt, PrintedOlder
    <3>2. printed[k] \in Nat
      BY ElementOfSeq, SpoolFileAssumption DEF TailTypes, Events
    <3>3. nev' \in {nev, nev + 1}
      BY DEF FileNext, AppendOpen, OpenFile, AppendOpenBlind, AppendOpenFails, AppendFirst,
             AppendRest,
         AppendFails, Truncate, TruncateFails, Start, StartUnrepaired, Crash, Stop, CleanupRemove,
       CleanupRemoveOpen, AppendOrphan,
         SetClock, Ended, historyVars
    <3>4. printed[k] <= nev'
      BY <1>3, <3>1, <3>2, <3>3
    <3>5. ASSUME NEW d \in Days, NEW i \in 1..Len(file'[d]), d > cur \/ (d = cur /\ i > off)
          PROVE  printed[k] < file'[d][i].event
      <4>1. CASE i \in 1..Len(file[d]) /\ file'[d][i] = file[d][i]
        BY <3>1, <3>5, <4>1
      <4>2. CASE file'[d][i].event = nev + 1
        BY <1>3, <3>1, <3>2, <4>2
      <4> QED BY <4>1, <4>2, NewPieces
    <3> QED BY <3>4, <3>5
  <2>5. tpc # "off" => cur = 0 \/ cur \in plain' \/ \E e \in plain' : e > cur
    BY <1>3, <2>1, <2>2 DEF TailAt
  <2>6. tpc \in {"again", "switch"} => latest \in plain' \/ \E e \in plain' : e > latest
    BY <1>3, <2>1, <2>2 DEF TailAt
  <2> QED BY <2>3, <2>4, <2>5, <2>6
<1> QED BY <1>7, <1>8, <1>9

-----------------------------------------------------------------------------
(***************************************************************************)
(* What tail reads                                                         *)
(***************************************************************************)

(* A line that ends behind the end of another one is a record. *)
LEMMA RecordBehind ==
    ASSUME NEW s \in Seq(Pieces), Alternates(s), NEW at \in Nat, NEW end \in LineEnds(s, at),
           NEW b \in Nat, at <= b, b < end, b = 0 \/ s[b].newline
    PROVE  IsRecord(s, at, end)
<1>1. Len(s) \in Nat /\ end \in 1..Len(s) /\ end > at /\ s[end].newline
  BY LenProperties DEF LineEnds
<1>2. s[end] \in Pieces /\ s[end].event \in Events
  BY <1>1, PieceIs
<1>3. end > 1 /\ s[end - 1] = First(s[end].event)
  BY <1>1 DEF Alternates
<1>4. s[end] = Rest(s[end].event)
  BY <1>1, <1>2 DEF Rest, Pieces
<1>5. ~s[end - 1].newline
  BY <1>3 DEF First
<1>6. end - 1 > b
  BY <1>1, <1>3, <1>5
<1>7. end - 1 = 1 \/ s[end - 2].newline
  <2>1. end - 1 \in 1..Len(s) /\ end - 1 - 1 = end - 2
    BY <1>1, <1>3
  <2> QED BY <1>5, <2>1 DEF Alternates
<1>8. end - 2 = at \/ s[end - 2].newline
  BY <1>1, <1>6, <1>7
<1>9. end - 1 > at
  BY <1>1, <1>6
<1>10. RecordAt(s, at, end, s[end].event)
  BY <1>3, <1>4, <1>8, <1>9 DEF RecordAt
<1> QED BY <1>2, <1>10, IsRecordIs

(* Of two lines the second is of a later event. *)
LEMMA LinesAscend ==
    ASSUME NEW s \in Seq(Pieces), Alternates(s), Ascends(s),
           NEW i \in 1..Len(s), NEW j \in 1..Len(s), i < j, s[i].newline
    PROVE  s[i].event < s[j].event
<1>1. Len(s) \in Nat
  BY LenProperties
<1>2. CASE ~s[j].newline
  BY <1>2 DEF Ascends
<1>3. CASE s[j].newline
  <2>1. j > 1 /\ s[j - 1] = First(s[j].event)
    BY <1>3 DEF Alternates
  <2>2. ~s[j - 1].newline /\ s[j - 1].event = s[j].event
    BY <2>1 DEF First
  <2>3. j - 1 \in 1..Len(s) /\ i < j - 1
    BY <1>1, <2>1, <2>2
  <2> QED BY <2>2, <2>3 DEF Ascends
<1> QED BY <1>2, <1>3

(* tailRead leaves no line behind, and prints lines in their order. *)
LEMMA TailReads ==
    ASSUME FileIInv, TailTypes, TailRead, UNCHANGED fileVars, cur' = cur
    PROVE  /\ off' \in Nat /\ printed' \in Seq(Events \cup {Garbage})
           /\ cur \in plain => off' >= WholeLines(file[cur])
           /\ mishaps = {} /\ AtLine /\ PrintedOlder /\ PrintedInOrder
                 => AtLine' /\ PrintedOlder' /\ PrintedInOrder'
<1>1. FileTypes /\ Orderly
  BY DEF FileIInv
<1>2. /\ UNCHANGED <<plain, file, nev, mishaps>>
      /\ off \in Nat /\ cur \in Nat /\ printed \in Seq(Events \cup {Garbage})
      /\ Days \subseteq Nat /\ plain \subseteq Days /\ nev \in Nat
      /\ Events \subseteq Nat
  <2>1. UNCHANGED <<plain, file, nev, mishaps>>
    BY DEF fileVars, historyVars
  <2>2. Events \subseteq Nat
    BY SpoolFileAssumption DEF Events
  <2>3. off \in Nat /\ cur \in Nat /\ printed \in Seq(Events \cup {Garbage})
    BY SpoolFileAssumption DEF TailTypes
  <2>4. Days \subseteq Nat /\ plain \subseteq Days /\ nev \in Nat
    BY <1>1, SpoolFileAssumption DEF FileTypes, Days
  <2> QED BY <2>1, <2>2, <2>3, <2>4
<1>3. CASE cur \notin plain
  <2>1. UNCHANGED <<off, printed>>
    BY <1>3 DEF TailRead
  <2>2. AtLine' /\ (PrintedOlder => PrintedOlder') /\ (PrintedInOrder => PrintedInOrder')
    BY <1>2, <1>3, <2>1 DEF AtLine, PrintedOlder, PrintedInOrder
  <2> QED BY <1>2, <1>3, <2>1, <2>2
<1>4. CASE cur \in plain
  <2> DEFINE s == file[cur]  at == From  m == Max({From} \cup Ends)
  <2>1. s \in Seq(Pieces) /\ Len(s) \in Nat /\ cur \in Days
    BY <1>1, <1>2, <1>4, LenProperties DEF FileTypes
  <2>2. at \in 0..Len(s) /\ (off <= Len(s) => at = off)
    BY <1>2, <2>1 DEF From
  <2>3. /\ \A i \in Ends : i \in 1..Len(s) /\ i > at /\ s[i].newline
        /\ \A i \in 1..Len(s) : i > at /\ s[i].newline => i \in Ends
        /\ Ends = LineEnds(s, at)
    BY <2>1, <2>2 DEF Ends, LineEnds
  <2>4. /\ m \in {at} \cup Ends
        /\ at <= m /\ \A i \in Ends : i <= m
    <3> DEFINE S == {at} \cup Ends
    <3>1. S \subseteq 0..Len(s) /\ S # {}
      BY <2>1, <2>2, <2>3
    <3>2. Max(S) \in S /\ \A y \in S : y <= Max(S)
      <4> HIDE DEF S
      <4> QED BY <2>1, <3>1, MaxOf
    <3> QED BY <3>2
  <2>5. off' = m /\ PrintLines
    BY <1>4 DEF TailRead
  <2>6. PICK ends \in [1..Cardinality(Ends) -> Ends] :
             /\ \A i, j \in DOMAIN ends : i < j => ends[i] < ends[j]
             /\ printed' = printed \o [i \in DOMAIN ends |-> FormatTailLine(ends[i])]
    BY <2>5 DEF PrintLines
  <2>7. Cardinality(Ends) \in Nat
    <3>1. IsFiniteSet(1..Len(s)) /\ Ends \in SUBSET (1..Len(s))
      <4>1. 1 \in Int /\ Len(s) \in Int
        BY <2>1
      <4>2. IsFiniteSet(1..Len(s))
        <5> HIDE DEF s
        <5> QED BY <4>1, FS_Interval, Zenon
      <4> QED BY <2>3, <4>2
    <3> QED BY <3>1, FS_Subset, FS_CardinalityType
  <2> DEFINE c == Cardinality(Ends)
             new == [i \in 1..c |-> FormatTailLine(ends[i])]
  <2>8. /\ DOMAIN ends = 1..c /\ \A i \in 1..c : ends[i] \in Ends
        /\ \A i, j \in 1..c : i < j => ends[i] < ends[j]
        /\ printed' = printed \o new
    BY <2>6
  <2>9. \A end \in Ends : FormatTailLine(end) = IF IsRecord(s, at, end) THEN s[end].event ELSE Garbage
    BY DEF FormatTailLine
  <2>10. new \in Seq(Events \cup {Garbage}) /\ Len(new) = c
         /\ \A i \in 1..c : new[i] = IF IsRecord(s, at, ends[i]) THEN s[ends[i]].event ELSE Garbage
    <3>1. \A i \in 1..c : s[ends[i]].event \in Events
      BY <2>1, <2>3, <2>8, PieceIs
    <3> QED BY <2>7, <2>8, <2>9, <3>1
  <2> HIDE DEF new, c, m, at, s
  <2>11. /\ printed' \in Seq(Events \cup {Garbage}) /\ Len(printed) \in Nat /\ c \in Nat
         /\ DOMAIN printed = 1..Len(printed)
         /\ DOMAIN printed' = 1..Len(printed) + c
         /\ \A i \in 1..Len(printed) : printed'[i] = printed[i]
         /\ \A i \in Len(printed) + 1..Len(printed) + c : printed'[i] = new[i - Len(printed)]
    BY <1>2, <2>7, <2>8, <2>10, ConcatProperties, LenProperties DEF c
  <2>12. m \in Nat /\ m <= Len(s)
    BY <2>1, <2>2, <2>3, <2>4
  <2>13. m >= WholeLines(s)
    <3>1. /\ WholeLines(s) \in 0..Len(s)
          /\ WholeLines(s) # 0 => s[WholeLines(s)].newline
      BY <2>1, WholeLinesIs
    <3>2. CASE WholeLines(s) > at
      BY <2>1, <2>2, <2>3, <2>4, <3>1, <3>2
    <3>3. CASE WholeLines(s) <= at
      BY <2>1, <2>2, <2>4, <2>12, <3>1, <3>3
    <3> QED BY <2>2, <3>1, <3>2, <3>3
  <2>14. ASSUME mishaps = {}, AtLine, PrintedOlder, PrintedInOrder
         PROVE  AtLine' /\ PrintedOlder' /\ PrintedInOrder'
    <3>1. /\ Alternates(s) /\ Ascends(s)
          /\ \A i \in 1..Len(s) : s[i].newline => s[i].event <= nev
          /\ \A e \in Days : cur < e =>
                \A i \in 1..Len(s), j \in 1..Len(file[e]) : s[i].event < file[e][j].event
      BY <1>1, <2>1, <2>14 DEF Orderly, Bounded, s
    <3>2. printed # << >> => at = off /\ (at = 0 \/ s[at].newline)
      BY <1>4, <2>2, <2>14 DEF AtLine, s
    <3>3. AtLine'
      <4> SUFFICES ASSUME printed' # << >> PROVE m <= Len(s) /\ (m = 0 \/ s[m].newline)
        BY <1>2, <2>5 DEF AtLine, s, m
      <4>1. CASE m \in Ends
        BY <2>3, <2>12, <4>1
      <4>2. CASE m = at /\ m \notin Ends
        <5>1. Ends = {}
          BY <2>2, <2>3, <2>4, <4>2
        <5>2. c = 0
          <6>1. 1 \notin 1..c
            BY <2>8, <5>1
          <6> QED BY <2>11, <6>1
        <5>3. printed # << >>
          <6>1. printed' = << >> <=> Len(printed') = 0
            BY <2>11, EmptySeq
          <6>2. printed = << >> => Len(printed) = 0
            OBVIOUS
          <6>3. Len(printed') = Len(printed) + c
            BY <1>2, <2>8, <2>10, ConcatProperties
          <6> QED BY <2>11, <5>2, <6>1, <6>2, <6>3
        <5> QED BY <2>12, <3>2, <4>2, <5>3
      <4> QED BY <2>4, <4>1, <4>2
    <3>4. ASSUME NEW i \in 1..c
          PROVE  ends[i] \in 1..Len(s) /\ ends[i] > at /\ ends[i] <= m /\ s[ends[i]].newline
      BY <2>3, <2>4, <2>8
    <3>5. ASSUME NEW i \in 1..c, printed # << >> \/ i > 1
          PROVE  new[i] = s[ends[i]].event /\ new[i] \in Events /\ new[i] # Garbage
      <4>1. ends[i] \in LineEnds(s, at)
        BY <2>3, <2>8
      <4>2. IsRecord(s, at, ends[i])
        <5>1. CASE printed # << >>
          BY <2>1, <2>2, <3>1, <3>2, <3>4, <4>1, <5>1, RecordBehind
        <5>2. CASE i > 1
          <6> DEFINE b == ends[i - 1]
          <6>1. i - 1 \in 1..c /\ i - 1 < i
            BY <2>11, <5>2
          <6>2. b < ends[i]
            BY <2>8, <6>1
          <6>3. b \in 1..Len(s) /\ b > at /\ s[b].newline
            BY <3>4, <6>1
          <6>4. b \in Nat /\ at <= b /\ at \in Nat
            BY <2>1, <2>2, <6>3
          <6> HIDE DEF b
          <6> QED BY <2>1, <3>1, <4>1, <6>2, <6>3, <6>4, RecordBehind
        <5> QED BY <3>5, <5>1, <5>2
      <4>3. s[ends[i]].event \in Events
        BY <2>1, <3>4, PieceIs
      <4> QED BY <2>10, <4>2, <4>3, TailAssumption
    <3>6. ASSUME NEW i \in 1..c, new[i] # Garbage PROVE new[i] = s[ends[i]].event
      BY <2>10, <3>6
    <3>7. ASSUME NEW k \in 1..Len(printed), printed[k] # Garbage
          PROVE  /\ printed[k] \in Nat /\ printed[k] <= nev
                 /\ \A d \in Days : \A i \in 1..Len(file[d]) :
                       d > cur \/ (d = cur /\ i > at) => printed[k] < file[d][i].event
      <4>1. printed[k] \in Nat
        <5>1. printed[k] \in Events \cup {Garbage}
          BY <1>2, <2>11, ElementOfSeq
        <5> QED BY <1>2, <3>7, <5>1
      <4>2. printed # << >>
        BY <2>11, <3>7
      <4> QED BY <2>11, <2>14, <3>2, <3>7, <4>1, <4>2 DEF PrintedOlder
    <3>8. PrintedOlder'
      <4> SUFFICES ASSUME NEW k \in 1..Len(printed) + c, printed'[k] # Garbage
                   PROVE  /\ printed'[k] <= nev
                          /\ \A d \in Days : \A i \in 1..Len(file[d]) :
                                d > cur \/ (d = cur /\ i > m) => printed'[k] < file[d][i].event
        BY <1>2, <2>5, <2>11 DEF PrintedOlder, m
      <4>1. CASE k \in 1..Len(printed)
        <5>1. printed'[k] = printed[k]
          BY <2>11, <4>1
        <5>2. \A d \in Days : \A i \in 1..Len(file[d]) : d = cur /\ i > m => i > at
          BY <2>1, <2>2, <2>4, <2>12 DEF s
        <5> QED BY <3>7, <4>1, <5>1, <5>2
      <4>2. CASE k \in Len(printed) + 1..Len(printed) + c
        <5> DEFINE q == k - Len(printed)
        <5>1. q \in 1..c /\ printed'[k] = new[q]
          BY <2>11, <4>2
        <5> HIDE DEF q
        <5>2. new[q] = s[ends[q]].event
          BY <3>6, <5>1
        <5>3. ends[q] \in 1..Len(s) /\ ends[q] > at /\ ends[q] <= m /\ s[ends[q]].newline
          BY <3>4, <5>1
        <5>4. printed'[k] <= nev
          BY <3>1, <5>1, <5>2, <5>3
        <5>5. ASSUME NEW d \in Days, NEW i \in 1..Len(file[d]), d > cur
              PROVE  printed'[k] < file[d][i].event
          BY <1>2, <3>1, <5>1, <5>2, <5>3, <5>5
        <5>6. ASSUME NEW i \in 1..Len(s), i > m PROVE printed'[k] < s[i].event
          <6>1. ends[q] < i
            BY <2>1, <2>12, <5>3, <5>6
          <6> QED BY <2>1, <3>1, <5>1, <5>2, <5>3, <6>1, LinesAscend
        <5> QED BY <5>4, <5>5, <5>6 DEF s
      <4> QED BY <2>11, <4>1, <4>2
    <3>9. PrintedInOrder'
      <4> SUFFICES ASSUME NEW i \in 1..Len(printed) + c, i > 1
                   PROVE  /\ printed'[i] # Garbage
                          /\ \A j \in 1..i - 1 : printed'[j] # Garbage => printed'[j] < printed'[i]
        BY <1>2, <2>11 DEF PrintedInOrder
      <4>1. CASE i \in 1..Len(printed)
        <5>1. printed'[i] = printed[i] /\ \A j \in 1..i - 1 : printed'[j] = printed[j]
          BY <2>11, <4>1
        <5> QED BY <2>11, <2>14, <4>1, <5>1 DEF PrintedInOrder
      <4>2. CASE i \in Len(printed) + 1..Len(printed) + c
        <5> DEFINE q == i - Len(printed)
        <5>1. q \in 1..c /\ printed'[i] = new[q] /\ (q > 1 \/ Len(printed) > 0)
          BY <2>11, <4>2
        <5>2. \A j \in 1..i - 1 : j \in 1..Len(printed) \/ (j - Len(printed) \in 1..c /\ j - Len(printed) < q)
          BY <2>11, <4>2
        <5> HIDE DEF q
        <5>3. printed # << >> \/ q > 1
          BY <5>1
        <5>4. printed'[i] = s[ends[q]].event /\ printed'[i] # Garbage
          BY <3>5, <5>1, <5>3
        <5>5. ends[q] \in 1..Len(s) /\ ends[q] > at /\ s[ends[q]].newline
          BY <3>4, <5>1
        <5>6. ASSUME NEW j \in 1..Len(printed), printed'[j] # Garbage
              PROVE  printed'[j] < printed'[i]
          <6>1. printed'[j] = printed[j]
            BY <2>11
          <6> QED BY <2>1, <3>7, <5>4, <5>5, <5>6, <6>1 DEF s
        <5>7. ASSUME NEW j \in Len(printed) + 1..Len(printed) + c, j - Len(printed) < q,
                     j - Len(printed) \in 1..c, printed'[j] # Garbage
              PROVE  printed'[j] < printed'[i]
          <6> DEFINE r == j - Len(printed)
          <6>1. r \in 1..c /\ r < q /\ printed'[j] = new[r]
            BY <2>11, <5>7
          <6> HIDE DEF r
          <6>2. printed'[j] = s[ends[r]].event
            BY <3>6, <5>7, <6>1
          <6>3. ends[r] < ends[q]
            BY <2>8, <5>1, <6>1
          <6>4. ends[r] \in 1..Len(s) /\ s[ends[r]].newline
            BY <3>4, <6>1
          <6> QED BY <2>1, <3>1, <5>4, <5>5, <6>2, <6>3, <6>4, LinesAscend
        <5>8. \A j \in 1..i - 1 : j \in 1..Len(printed)
                  \/ (j \in Len(printed) + 1..Len(printed) + c /\ j - Len(printed) < q
                          /\ j - Len(printed) \in 1..c)
          BY <2>11, <5>2, <4>2
        <5> QED BY <5>4, <5>6, <5>7, <5>8
      <4> QED BY <2>11, <4>1, <4>2
    <3> QED BY <3>3, <3>8, <3>9
  <2> QED BY <1>4, <2>5, <2>11, <2>12, <2>13, <2>14 DEF s, m
<1> QED BY <1>3, <1>4

-----------------------------------------------------------------------------
(***************************************************************************)
(* The invariant                                                           *)
(***************************************************************************)

(* latestSpool names the newest of the plain files, or none. *)
LEMMA LatestIs ==
    ASSUME FileTypes
    PROVE  /\ LatestSpool \in 0..MaxDay
           /\ LatestSpool = 0 \/ LatestSpool \in plain
           /\ \A d \in plain : d <= LatestSpool
<1> DEFINE S == {0} \cup plain
<1>1. MaxDay \in Nat /\ S \subseteq 0..MaxDay /\ S # {}
  BY SpoolFileAssumption DEF FileTypes, Days
<1>2. Max(S) \in S /\ \A y \in S : y <= Max(S)
  <2> HIDE DEF S
  <2> QED BY <1>1, MaxOf
<1> QED BY <1>1, <1>2 DEF LatestSpool

(* tail changes nothing that the writer relies on. *)
LEMMA FileUntouched ==
    ASSUME FileIInv, UNCHANGED fileVars
    PROVE  FileIInv'
<1>1. UNCHANGED <<now, plain, file, up, wpc, open, orphan, curName, curSize, nev, accepted, sound,
                  failures, mishaps>>
  BY DEF fileVars, writerVars, historyVars
<1>2. FileTypes' /\ WriterInv'
  BY <1>1 DEF FileIInv, FileTypes, WriterInv, Event, HasFile
<1>3. SoundKept' /\ CleanFiles' /\ OnNewest'
  BY <1>1 DEF FileIInv, SoundKept, Kept, CleanFiles, Unharmed, OnNewest, HasFile
<1>4. Orderly'
  BY <1>1 DEF FileIInv, Orderly, Bounded, InHand
<1> QED BY <1>2, <1>3, <1>4 DEF FileIInv

(* Each step of tail, with the files as they are, keeps the types of its   *)
(* variables, its order and its place.                                     *)
LEMMA TailStep ==
    ASSUME TailIInv, TailNext
    PROVE  TailIInv'
<1>1. FileIInv /\ TailTypes /\ LeavesBehind /\ TailAt /\ PrintedInOrder /\ FileTypes
  BY DEF TailIInv, FileIInv
<1>2. UNCHANGED fileVars /\ UNCHANGED <<plain, file, nev, mishaps>>
  BY DEF TailNext, TailStart, TailPoll, TailLook, TailAgain, TailSwitch, TailWait, TailExit,
         fileVars, historyVars
<1>3. FileIInv'
  BY <1>1, <1>2, FileUntouched
<1>4. /\ LatestSpool \in 0..MaxDay
      /\ LatestSpool = 0 \/ LatestSpool \in plain
      /\ \A d \in plain : d <= LatestSpool
  BY <1>1, LatestIs
<1>5. /\ cur \in Nat /\ latest \in Nat /\ off \in Nat /\ MaxDay \in Nat
      /\ Days \subseteq Nat /\ plain \subseteq Days /\ 0 \notin Days
      /\ \A d \in Days : Len(file[d]) \in Nat
  <2>1. MaxDay \in Nat /\ Days \subseteq Nat /\ 0 \notin Days
    BY SpoolFileAssumption DEF Days
  <2>2. plain \subseteq Days /\ \A d \in Days : file[d] \in Seq(Pieces)
    BY <1>1 DEF FileTypes
  <2>3. cur \in Nat /\ latest \in Nat /\ off \in Nat
    BY <1>1, <2>1 DEF TailTypes
  <2> QED BY <2>1, <2>2, <2>3, LenProperties
<1>6. CASE TailStart
  <2>1. /\ tpc = "off" /\ tpc' = "read" /\ cur' = LatestSpool
        /\ UNCHANGED <<latest, printed>> /\ printed = << >>
        /\ off' = IF plain = {} THEN 0 ELSE Len(file[LatestSpool])
    BY <1>1, <1>6 DEF TailStart, TailAt
  <2>2. off' \in Nat
    <3>1. ASSUME plain # {} PROVE LatestSpool \in Days
      <4>1. PICK d \in plain : d <= LatestSpool
        BY <1>4, <3>1
      <4>2. d > 0 /\ d \in Nat
        BY <1>5
      <4> QED BY <1>4, <1>5, <4>1, <4>2
    <3> QED BY <1>5, <2>1, <3>1
  <2>3. TailTypes'
    BY <1>1, <1>4, <2>1, <2>2 DEF TailTypes
  <2>4. LeavesBehind'
    BY <2>1 DEF LeavesBehind
  <2>5. PrintedOlder' /\ PrintedInOrder' /\ AtLine'
    BY <2>1 DEF PrintedOlder, PrintedInOrder, AtLine
  <2>6. (cur = 0 \/ FileThere(cur))'
    BY <1>2, <1>4, <2>1 DEF FileThere
  <2>7. TailAt'
    BY <2>1, <2>5, <2>6 DEF TailAt
  <2> QED BY <1>3, <2>3, <2>4, <2>5, <2>7 DEF TailIInv
<1>7. ASSUME TailRead, UNCHANGED <<cur, latest>>, tpc # "off",
             \/ tpc' = "look"
             \/ tpc = "again" /\ tpc' = "switch"
      PROVE  TailIInv'
  <2>1. /\ off' \in Nat /\ printed' \in Seq(Events \cup {Garbage})
        /\ cur \in plain => off' >= WholeLines(file[cur])
        /\ mishaps = {} /\ AtLine /\ PrintedOlder /\ PrintedInOrder
              => AtLine' /\ PrintedOlder' /\ PrintedInOrder'
    BY <1>1, <1>2, <1>7, TailReads
  <2>2. TailTypes'
    BY <1>1, <1>7, <2>1 DEF TailTypes
  <2>3. LeavesBehind'
    BY <1>1, <1>2, <1>7, <2>1 DEF LeavesBehind, NewerThan
  <2>4. PrintedInOrder'
    <3>1. CASE mishaps = {}
      BY <1>1, <2>1, <3>1 DEF TailAt
    <3>2. CASE mishaps # {}
      BY <1>2, <3>2 DEF PrintedInOrder
    <3> QED BY <3>1, <3>2
  <2>5. TailAt'
    <3> SUFFICES ASSUME mishaps = {}
                 PROVE  /\ (cur = 0 \/ FileThere(cur))'
                        /\ tpc' \in {"again", "switch"} => FileThere(latest)'
                        /\ AtLine' /\ PrintedOlder'
      BY <1>2, <1>7 DEF TailAt
    <3>1. AtLine' /\ PrintedOlder'
      BY <1>1, <2>1 DEF TailAt
    <3>2. (cur = 0 \/ FileThere(cur))' /\ (tpc' \in {"again", "switch"} => FileThere(latest)')
      BY <1>1, <1>2, <1>7 DEF TailAt, FileThere, NewerThan
    <3> QED BY <3>1, <3>2
  <2> QED BY <1>3, <2>2, <2>3, <2>4, <2>5 DEF TailIInv
<1>8. CASE TailPoll \/ TailAgain
  BY <1>7, <1>8 DEF TailPoll, TailAgain
<1>9. ASSUME UNCHANGED <<cur, off, printed>>, latest' \in {latest, LatestSpool}, tpc # "off",
             \/ tpc' \in {"wait", "read"}
             \/ tpc' = "again" /\ latest' = LatestSpool /\ LatestSpool > cur
      PROVE  TailIInv'
  <2>1. TailTypes'
    BY <1>1, <1>4, <1>9 DEF TailTypes
  <2>2. tpc' = "again" => latest' > cur /\ latest' \in plain
    BY <1>4, <1>5, <1>9
  <2>3. LeavesBehind'
    BY <1>2, <1>9, <2>2 DEF LeavesBehind, NewerThan
  <2>4. PrintedInOrder' /\ (PrintedOlder => PrintedOlder') /\ (AtLine => AtLine')
    BY <1>1, <1>2, <1>9 DEF PrintedInOrder, PrintedOlder, AtLine
  <2>5. TailAt'
    <3>1. tpc' # "off" /\ (tpc' \in {"again", "switch"} => FileThere(latest)')
      BY <1>2, <1>9, <2>2 DEF FileThere
    <3>2. mishaps = {} => (cur = 0 \/ FileThere(cur))'
      BY <1>1, <1>2, <1>9 DEF TailAt, FileThere, NewerThan
    <3> QED BY <1>1, <1>2, <2>4, <3>1, <3>2 DEF TailAt
  <2> QED BY <1>3, <2>1, <2>3, <2>4, <2>5 DEF TailIInv
<1>10. CASE TailLook \/ TailWait
  BY <1>9, <1>10 DEF TailLook, TailWait
<1>11. CASE TailSwitch
  <2>1. /\ tpc = "switch" /\ tpc' = "read" /\ cur' = latest /\ off' = 0 /\ latest > cur
        /\ UNCHANGED <<latest, printed>>
    BY <1>1, <1>11 DEF TailSwitch, LeavesBehind
  <2>2. TailTypes' /\ LeavesBehind'
    BY <1>1, <2>1 DEF TailTypes, LeavesBehind
  <2>3. PrintedInOrder'
    BY <1>1, <1>2, <2>1 DEF PrintedInOrder
  <2>4. TailAt'
    <3> SUFFICES ASSUME mishaps = {}
                 PROVE  FileThere(cur)' /\ AtLine' /\ PrintedOlder'
      BY <1>2, <2>1 DEF TailAt
    <3>1. FileThere(cur)'
      BY <1>1, <1>2, <2>1 DEF TailAt, FileThere, NewerThan
    <3>2. AtLine'
      BY <1>2, <1>5, <2>1 DEF AtLine
    <3>3. PrintedOlder'
      <4>1. PrintedOlder
        BY <1>1 DEF TailAt
      <4>2. \A d \in Days : d > latest \/ d = latest => d > cur
        BY <1>5, <2>1
      <4> QED BY <1>2, <2>1, <4>1, <4>2 DEF PrintedOlder
    <3> QED BY <3>1, <3>2, <3>3
  <2> QED BY <1>3, <2>2, <2>3, <2>4 DEF TailIInv
<1>12. CASE TailExit
  <2>1. tpc' = "off" /\ cur' = 0 /\ off' = 0 /\ latest' = 0 /\ printed' = << >>
    BY <1>12 DEF TailExit, TailEnds
  <2>2. TailTypes' /\ LeavesBehind'
    BY <1>5, <2>1 DEF TailTypes, LeavesBehind
  <2>3. PrintedInOrder' /\ TailAt'
    BY <2>1 DEF PrintedInOrder, TailAt, AtLine, PrintedOlder
  <2> QED BY <1>3, <2>2, <2>3 DEF TailIInv
<1> QED BY <1>6, <1>8, <1>10, <1>11, <1>12 DEF TailNext

(* The files are empty when the machine is new. *)
LEMMA InitInv == Init => TailIInv
<1> SUFFICES ASSUME Init PROVE TailIInv
  OBVIOUS
<1>1. /\ now \in Days /\ plain = {} /\ file = [d \in Days |-> << >>]
      /\ up = FALSE /\ wpc = "ready" /\ open = FALSE /\ orphan = FALSE
      /\ curName = 0 /\ curSize = 0
      /\ nev = 0 /\ accepted = {} /\ sound = {} /\ failures = 0 /\ mishaps = {}
      /\ tpc = "off" /\ cur = 0 /\ off = 0 /\ latest = 0 /\ printed = << >>
  BY DEF Init, FileInit
<1>2. /\ MaxDay \in Nat /\ MaxEvents \in Nat /\ MaxFailures \in Nat
      /\ \A d \in Days : file[d] = << >> /\ Len(file[d]) = 0
      /\ file \in [Days -> Seq(Pieces)]
  BY <1>1, SpoolFileAssumption
<1>3. FileTypes /\ TailTypes
  <2>1. 0 \in 0..MaxDay /\ 0 \in 0..MaxEvents /\ 0 \in 0..MaxFailures /\ 0 \in Nat
    BY <1>2
  <2>2. FileTypes
    BY <1>1, <1>2, <2>1 DEF FileTypes
  <2>3. TailTypes
    BY <1>1, <2>1 DEF TailTypes
  <2> QED BY <2>2, <2>3
<1>4. WriterInv /\ SoundKept /\ CleanFiles /\ OnNewest
  BY <1>1, <1>2 DEF WriterInv, SoundKept, CleanFiles, OnNewest, HasFile
<1>5. Orderly
  BY <1>2 DEF Orderly, Alternates, Ascends, Bounded
<1>6. LeavesBehind /\ TailAt /\ PrintedInOrder
  BY <1>1 DEF LeavesBehind, TailAt, AtLine, PrintedOlder, PrintedInOrder
<1> QED BY <1>3, <1>4, <1>5, <1>6 DEF TailIInv, FileIInv

(* Every step keeps the invariant: one of tail, one of the writer beside   *)
(* it, and a loss of power, which ends both.                               *)
LEMMA StepInv == TailIInv /\ [Next]_vars => TailIInv'
<1> SUFFICES ASSUME TailIInv, [Next]_vars PROVE TailIInv'
  OBVIOUS
<1>1. CASE TailNext
  BY <1>1, TailStep
<1>2. CASE FileNext /\ UNCHANGED tailVars
  <2>1. FileIInv'
    BY <1>2, FileStep DEF TailIInv
  <2>2. TailTypes'
    BY <1>2 DEF TailIInv, TailTypes, tailVars
  <2>3. LeavesBehind' /\ TailAt' /\ PrintedInOrder'
    BY <1>2, WriterBesideTail DEF TailIInv
  <2> QED BY <2>1, <2>2, <2>3 DEF TailIInv
<1>3. CASE PowerLoss /\ TailEnds
  <2>1. FileIInv'
    BY <1>3, FileStep DEF TailIInv
  <2>2. /\ tpc' = "off" /\ cur' = 0 /\ off' = 0 /\ latest' = 0 /\ printed' = << >>
        /\ mishaps' # {} /\ MaxDay \in Nat
    BY <1>3, SpoolFileAssumption DEF PowerLoss, TailEnds
  <2>3. TailTypes' /\ LeavesBehind' /\ TailAt' /\ PrintedInOrder'
    BY <2>2 DEF TailTypes, LeavesBehind, TailAt, PrintedInOrder
  <2> QED BY <2>1, <2>3 DEF TailIInv
<1>4. CASE UNCHANGED vars
  <2>1. UNCHANGED fileVars /\ UNCHANGED <<plain, file, nev, mishaps, tpc, cur, off, latest,
                  printed>>
    BY <1>4 DEF vars, fileVars, historyVars, tailVars
  <2>2. FileIInv'
    BY <2>1, FileUntouched DEF TailIInv
  <2>3. TailTypes' /\ LeavesBehind' /\ PrintedInOrder'
    BY <2>1 DEF TailIInv, TailTypes, LeavesBehind, NewerThan, PrintedInOrder
  <2>4. TailAt'
    BY <2>1 DEF TailIInv, TailAt, FileThere, NewerThan, AtLine, PrintedOlder
  <2> QED BY <2>2, <2>3, <2>4 DEF TailIInv
<1> QED BY <1>1, <1>2, <1>3, <1>4 DEF Next

(* Specification and invariant. *)
LEMMA AlwaysTailIInv == Spec => []TailIInv
BY InitInv, StepInv, PTL DEF Spec

-----------------------------------------------------------------------------
(***************************************************************************)
(* Theorems                                                                *)
(***************************************************************************)

(* The files are in order whatever fails: everything has its type,         *)
(* completeLength finds for every content of a file and every size of its  *)
(* buffer where the whole lines end, and the writer is on the newest file  *)
(* unless it could not list the directory.                                 *)
THEOREM FilesAreSound == Spec => []FilesSound
<1>1. ASSUME TailIInv PROVE FilesSound
  <2>1. FileTypes /\ TailTypes /\ OnNewest
    BY <1>1 DEF TailIInv, FileIInv
  <2>2. TypeOK
    BY <2>1 DEF FileTypes, TailTypes, TypeOK
  <2>3. RepairExact
    <3>1. \A d \in plain : file[d] \in Seq(Pieces)
      BY <2>1 DEF FileTypes
    <3> QED BY <3>1, CompleteLengthIs DEF RepairExact
  <2> QED BY <2>1, <2>2, <2>3 DEF FilesSound
<1> QED BY <1>1, AlwaysTailIInv, PTL

(* Whatever Append accepted is found by readFrom as a line of its own, in  *)
(* any sequence of failing writes, crashes, restarts and settings of the   *)
(* clock, as long as every Truncate and every repairTails does its work    *)
(* and power is not lost.                                                  *)
THEOREM LinesStayIntact == Spec => []LinesIntact
<1>1. ASSUME TailIInv PROVE LinesIntact
  BY <1>1, LinesFound DEF TailIInv, FileIInv
<1> QED BY <1>1, AlwaysTailIInv, PTL

(* A line that was put on a clean file is found as it was even if Truncate *)
(* or repairTails fails afterwards.                                        *)
THEOREM SoundLinesAreKept == Spec => []SoundLinesStay
<1>1. ASSUME TailIInv PROVE SoundLinesStay
  BY <1>1, LinesFound DEF TailIInv, FileIInv
<1> QED BY <1>1, AlwaysTailIInv, PTL

(* tail prints what the agent receives in order and once each, however its *)
(* reads fall among the writes, the half lines, the rotations and the      *)
(* restarts of the agent.                                                  *)
THEOREM PrintsInOrder == Spec => []PrintedInOrder
<1>1. TailIInv => PrintedInOrder
  BY DEF TailIInv
<1> QED BY <1>1, AlwaysTailIInv, PTL

(* tail does not leave a file before it has read every whole line of it,   *)
(* although the agent may write between latestSpool and the second read.   *)
THEOREM TailLeavesNothing == Spec => LeavesNothing
<1> DEFINE Step == cur' > cur /\ cur \in plain /\ mishaps \cap {"listing", "newest"} = {}
                      => off >= WholeLines(file[cur])
<1>1. ASSUME TailIInv, [Next]_vars PROVE [Step]_vars
  <2> SUFFICES ASSUME Next, cur' > cur, cur \in plain, mishaps \cap {"listing", "newest"} = {}
               PROVE  off >= WholeLines(file[cur])
    BY <1>1
  <2>1. cur \in Nat /\ plain \subseteq Days /\ 0 \notin Days
    BY <1>1, SpoolFileAssumption DEF TailIInv, FileIInv, FileTypes, TailTypes, Days
  <2>2. CASE TailSwitch
    BY <1>1, <2>2 DEF TailIInv, LeavesBehind, TailSwitch
  <2>3. CASE TailStart
    BY <1>1, <2>1, <2>3 DEF TailIInv, TailAt, TailStart
  <2>4. CASE cur' = cur \/ cur' = 0
    BY <2>1, <2>4
  <2> QED BY <2>2, <2>3, <2>4
          DEF Next, TailNext, TailPoll, TailAgain, TailLook, TailWait, TailExit, TailEnds, tailVars
<1>2. Spec => [][Step]_vars
  BY <1>1, AlwaysTailIInv, PTL DEF Spec
<1> QED BY <1>2 DEF LeavesNothing
=============================================================================
