---------------------------- MODULE SpoolProofs ----------------------------
(***************************************************************************)
(* Theorems about Spool, for every value of its constants.  TypeOK and     *)
(* WriterNewest are inductive together; SpoolInv is the strengthening      *)
(* under which NoSilentLoss and NothingSkipped are invariants, and         *)
(* OrderInv the one for SettledInOrder.                                    *)
(***************************************************************************)
EXTENDS Spool, SequenceTheorems, WellFoundedInduction, TLAPS

-----------------------------------------------------------------------------
(***************************************************************************)
(* Lemmas about the operators                                              *)
(***************************************************************************)

(* A non-empty set of numbers has a least element: Min, which the reader   *)
(* and the janitor use to walk through the files, is well defined.         *)
LEMMA MinOfNats ==
    ASSUME NEW S \in SUBSET Nat, S # {}
    PROVE  Min(S) \in S /\ \A y \in S : Min(S) <= y
<1>1. PICK x \in S : \A y \in S : ~(<<y, x>> \in OpToRel(<, Nat))
  BY NatLessThanWellFounded, WFMin, Zenon
<1>2. \A y \in S : x <= y
  <2> DEFINE Rel == OpToRel(<, Nat)
  <2>1. Rel = {ss \in Nat \X Nat : ss[1] < ss[2]}
    BY Zenon DEF OpToRel
  <2>2. \A y \in S : ~(<<y, x>> \in Rel)
    BY <1>1, Zenon
  <2> HIDE DEF Rel
  <2>3. \A y \in Nat : y < x => <<y, x>> \in Rel
    BY <2>1
  <2>4. \A y \in S : ~(y < x)
    BY <2>2, <2>3, Zenon
  <2> QED BY <2>4
<1> QED BY <1>2 DEF Min

(* A non-empty bounded set of numbers has a greatest element: Max, which   *)
(* openLocked uses to find the newest file, is well defined.               *)
LEMMA MaxOfNames ==
    ASSUME NEW n \in Nat, NEW S \in SUBSET (0..n), S # {}
    PROVE  Max(S) \in S /\ \A y \in S : y <= Max(S)
<1> DEFINE R == {n - y : y \in S}
<1>1. R \in SUBSET Nat /\ R # {}
  <2>1. PICK x \in S : TRUE
    OBVIOUS
  <2>2. n - x \in R
    OBVIOUS
  <2>3. \A y \in S : n - y \in Nat
    OBVIOUS
  <2> QED BY <2>2, <2>3
<1>2. PICK m \in R : \A y \in R : m <= y
  <2> HIDE DEF R
  <2> QED BY <1>1, MinOfNats
<1>3. PICK x \in S : m = n - x
  BY <1>2
<1>4. \A y \in S : n - y \in R
  OBVIOUS
<1>5. \A y \in S : x >= y
  BY <1>2, <1>3, <1>4
<1> QED BY <1>5 DEF Max

(* The file openLocked opens is a day and is no older than any file on     *)
(* disk, provided the open file is not.                                    *)
LEMMA OpenNameNewest ==
    ASSUME TypeOK, WriterNewest, MustOpen
    PROVE  OpenName \in Days /\ \A d \in plain : d <= OpenName
<1> USE SpoolAssumption
<1>1. CASE handle = "closed" /\ \E d \in plain : d > now
  <2>1. plain \in SUBSET (0..MaxDay) /\ plain # {}
    BY <1>1 DEF TypeOK, Days
  <2>2. Max(plain) \in plain /\ \A y \in plain : y <= Max(plain)
    BY <2>1, MaxOfNames
  <2> QED BY <1>1, <2>2 DEF OpenName, TypeOK
<1>2. CASE ~(handle = "closed" /\ \E d \in plain : d > now)
  <2>1. OpenName = now
    BY <1>2 DEF OpenName
  <2>2. now \in Days /\ plain \subseteq Days /\ curName \in Names
    BY DEF TypeOK
  <2> QED BY <1>2, <2>1, <2>2 DEF MustOpen, WriterNewest, Days, Names
<1> QED BY <1>1, <1>2

(* What ReadFile takes: a run of lines of the file it enters, from the     *)
(* offset on; the whole rest of the file when it reports its end.          *)
LEMMA TakenLines ==
    ASSUME TypeOK, Ahead # {}
    PROVE  /\ NextFile \in Ahead /\ NextFile \in Days
           /\ \A d \in Ahead : NextFile <= d
           /\ EntryOff \in Nat /\ EntryOff <= Len(lines[NextFile])
           /\ Taken \in Seq(Events)
           /\ EndOff \in Nat /\ EndOff <= Len(lines[NextFile])
           /\ EntryOff <= EndOff
           /\ AtEOF => EndOff = Len(lines[NextFile])
           /\ \A i \in EntryOff + 1 .. EndOff : lines[NextFile][i] \in Range(Taken)
           /\ \A e \in Range(Taken) : \E i \in 1 .. EndOff : lines[NextFile][i] = e
<1> USE SpoolAssumption
<1>1. NextFile \in Ahead /\ \A d \in Ahead : NextFile <= d
  <2>1. Ahead \in SUBSET Nat
    <3>1. names \in SUBSET Days
      BY DEF TypeOK
    <3>2. Days \in SUBSET Nat
      BY SpoolAssumption DEF Days
    <3> QED BY <3>1, <3>2 DEF Ahead
  <2> QED BY <2>1, MinOfNats DEF NextFile
<1>2. NextFile \in Days
  BY <1>1 DEF Ahead, TypeOK
<1> DEFINE s == lines[NextFile]
<1>3. s \in Seq(Events) /\ Len(s) \in Nat /\ DOMAIN s = 1..Len(s)
  BY <1>2, LenProperties DEF TypeOK
<1>4. EntryOff \in Nat /\ EntryOff <= Len(s)
  BY <1>3 DEF EntryOff, TypeOK, Position
<1> HIDE DEF s
<1>5. \A i \in EntryOff + 1 .. Len(s) : s[i] \in Events
  BY <1>3, <1>4, ElementOfSeq
<1>6. /\ Available \in Seq(Events)
      /\ Len(Available) = Len(s) - EntryOff
      /\ \A i \in 1..Len(s) - EntryOff : Available[i] = s[EntryOff + i]
  <2>1. Available = SubSeq(s, EntryOff + 1, Len(s))
    BY DEF Available, s
  <2> DEFINE m == EntryOff + 1
             n == Len(s)
  <2>2. m \in Int /\ n \in Int /\ \A i \in m .. n : s[i] \in Events
    BY <1>3, <1>4, <1>5
  <2>3. /\ SubSeq(s, m, n) \in Seq(Events)
        /\ Len(SubSeq(s, m, n)) = IF m <= n THEN n - m + 1 ELSE 0
        /\ \A i \in 1 .. n - m + 1 : SubSeq(s, m, n)[i] = s[m + i - 1]
    <3> HIDE DEF m, n
    <3> QED BY <2>2, SubSeqProperties
  <2>4. n - m + 1 = Len(s) - EntryOff
    BY <1>3, <1>4
  <2>5. Len(Available) = Len(s) - EntryOff
    <3>1. CASE EntryOff < Len(s)
      <4>1. m <= n
        BY <1>3, <1>4, <3>1
      <4>2. Len(SubSeq(s, m, n)) = n - m + 1
        BY <2>3, <4>1
      <4> QED BY <2>1, <2>4, <4>2
    <3>2. CASE EntryOff = Len(s)
      <4>1. ~(m <= n)
        BY <1>3, <3>2
      <4>2. Len(SubSeq(s, m, n)) = 0
        BY <2>3, <4>1
      <4> QED BY <1>3, <2>1, <3>2, <4>2
    <3>3. \A a, b \in Nat : a <= b => a < b \/ a = b
      OBVIOUS
    <3>4. EntryOff < Len(s) \/ EntryOff = Len(s)
      BY <1>3, <1>4, <3>3, Zenon
    <3> QED BY <3>1, <3>2, <3>4
  <2>6. \A i \in 1..Len(s) - EntryOff : Available[i] = s[EntryOff + i]
    <3> TAKE i \in 1..Len(s) - EntryOff
    <3>1. m + i - 1 = EntryOff + i
      BY <1>3, <1>4
    <3> QED BY <2>1, <2>3, <2>4, <3>1
  <2> QED BY <2>1, <2>3, <2>5, <2>6
<1>7. Room \in Int
  BY LenProperties DEF Room, TypeOK
<1>8. CASE Len(Available) < Room
  <2>1. Taken = Available
    BY <1>8 DEF Taken
  <2>2. EndOff = Len(s)
    BY <2>1, <1>3, <1>4, <1>6 DEF EndOff
  <2>3. \A i \in EntryOff + 1 .. EndOff : lines[NextFile][i] \in Range(Taken)
    <3> TAKE i \in EntryOff + 1 .. EndOff
    <3>1. i - EntryOff \in DOMAIN Taken
      BY <1>3, <1>4, <1>6, <2>1, <2>2, LenProperties
    <3>2. Taken[i - EntryOff] = s[i]
      BY <1>3, <1>4, <1>6, <2>1, <2>2
    <3> QED BY <3>1, <3>2 DEF Range, s
  <2>4. \A e \in Range(Taken) : \E i \in 1 .. EndOff : s[i] = e
    <3> SUFFICES ASSUME NEW j \in DOMAIN Taken PROVE \E i \in 1 .. EndOff : s[i] = Taken[j]
      BY DEF Range
    <3>1. j \in 1 .. Len(s) - EntryOff
      BY <1>6, <2>1, LenProperties
    <3>2. EntryOff + j \in 1 .. EndOff /\ Taken[j] = s[EntryOff + j]
      BY <1>3, <1>4, <1>6, <2>1, <2>2, <3>1
    <3> QED BY <3>2
  <2> QED BY <1>1, <1>2, <1>3, <1>4, <1>6, <2>1, <2>2, <2>3, <2>4 DEF s
<1>9. CASE ~(Len(Available) < Room)
  <2> DEFINE n == Room
  <2>1. Taken = SubSeq(Available, 1, n) /\ ~AtEOF
    BY <1>9 DEF Taken, AtEOF
  <2>2. CASE n >= 1
    <3>1. \A i \in 1..n : Available[i] \in Events
      BY <1>6, <1>7, <1>9, ElementOfSeq
    <3>2. /\ Taken \in Seq(Events) /\ Len(Taken) = n
          /\ \A i \in 1..n : Taken[i] = Available[i]
      BY <2>1, <2>2, <1>7, <3>1, SubSeqProperties
    <3>3. EndOff = EntryOff + n /\ EndOff <= Len(s)
      BY <3>2, <1>3, <1>4, <1>6, <1>7, <1>9 DEF EndOff
    <3>4. \A i \in EntryOff + 1 .. EndOff : lines[NextFile][i] \in Range(Taken)
      <4> TAKE i \in EntryOff + 1 .. EndOff
      <4>1. i - EntryOff \in DOMAIN Taken
        BY <1>4, <1>7, <2>2, <3>2, <3>3, LenProperties
      <4>2. Taken[i - EntryOff] = s[i]
        BY <1>3, <1>4, <1>6, <1>7, <3>2, <3>3
      <4> QED BY <4>1, <4>2 DEF Range, s
    <3>5. \A e \in Range(Taken) : \E i \in 1 .. EndOff : s[i] = e
      <4> SUFFICES ASSUME NEW j \in DOMAIN Taken PROVE \E i \in 1 .. EndOff : s[i] = Taken[j]
        BY DEF Range
      <4>1. j \in 1 .. n
        BY <3>2, LenProperties
      <4>2. j \in 1 .. Len(s) - EntryOff
        BY <1>3, <1>4, <1>7, <3>3, <4>1
      <4>3. EntryOff + j \in 1 .. EndOff /\ Taken[j] = s[EntryOff + j]
        BY <1>3, <1>4, <1>6, <1>7, <3>2, <3>3, <4>1, <4>2
      <4> QED BY <4>3
    <3> QED BY <1>1, <1>2, <1>3, <1>4, <1>7, <2>1, <2>2, <3>2, <3>3, <3>4, <3>5 DEF s
  <2>3. CASE n < 1
    <3>1. Taken = << >>
      BY <2>1, <2>3, <1>7, SubSeqEmpty
    <3>2. Taken \in Seq(Events) /\ EndOff = EntryOff
      BY <3>1, <1>4 DEF EndOff
    <3>3. Range(Taken) = {}
      BY <3>1 DEF Range
    <3> QED BY <1>1, <1>2, <1>3, <1>4, <2>1, <3>2, <3>3 DEF s
  <2> QED BY <1>7, <2>2, <2>3
<1> QED BY <1>8, <1>9

-----------------------------------------------------------------------------
(***************************************************************************)
(* Type correctness                                                        *)
(***************************************************************************)

(* The names of the files, and the empty name, are natural numbers. *)
LEMMA DaysAreNats == Days \in SUBSET Nat /\ Days \in SUBSET Names /\ Names \in SUBSET Nat
BY SpoolAssumption DEF Days, Names

(* The initial state has the types. *)
LEMMA TypeInit == Init => TypeOK
<1> SUFFICES ASSUME Init PROVE TypeOK
  OBVIOUS
<1>1. NoPos \in Position
  BY SpoolAssumption DEF NoPos, Position, Names
<1>2. << >> \in Seq(Events)
  BY EmptySeq
<1>3. 0 \in Names /\ 0 \in 0..MaxEvents
  BY SpoolAssumption DEF Names
<1>4. lines \in [Days -> Seq(Events)] /\ synced \in [Days -> Nat]
  BY <1>2 DEF Init
<1> QED BY <1>1, <1>2, <1>3, <1>4 DEF Init, TypeOK

(* The receiver's steps keep the types. *)
LEMMA TypeReceiver == TypeOK /\ WriterNewest /\ Receiver => TypeOK'
<1> SUFFICES ASSUME TypeOK, WriterNewest, Receiver PROVE TypeOK'
  OBVIOUS
<1> USE SpoolAssumption DEF diskVars, writerVars, readerVars, janitorVars, historyVars
<1>0. \A ok : SyncedAfter(ok) \in [Days -> Nat]
  <2>1. curName \in Days => Len(lines[curName]) \in Nat
    BY LenProperties DEF TypeOK
  <2> QED BY <2>1 DEF SyncedAfter, TypeOK
<1>1. CASE AppendOpen
  <2>1. OpenName \in Days
    BY <1>1, OpenNameNewest DEF AppendOpen
  <2>2. OpenName \in Names
    BY <2>1 DEF Days, Names
  <2> QED BY <1>0, <1>1, <2>1, <2>2 DEF AppendOpen, TypeOK
<1>2. CASE AppendOpenFails
  <2>1. OpenName \in Days
    BY <1>2, OpenNameNewest DEF AppendOpenFails
  <2> QED BY <1>0, <1>2, <2>1 DEF AppendOpenFails, TypeOK
<1>3. CASE AppendWrite
  <2>1. nev + 1 \in Events /\ nev + 1 \in 0..MaxEvents
    BY <1>3 DEF AppendWrite, TypeOK, Events
  <2>2. lines' \in [Days -> Seq(Events)]
    <3>1. curName \in Days => Append(lines[curName], nev + 1) \in Seq(Events)
      BY <2>1 DEF TypeOK
    <3> QED BY <1>3, <3>1 DEF AppendWrite, TypeOK
  <2>3. synced' \in [Days -> Nat]
    <3>1. curName \in Days => Len(lines[curName]) + 1 \in Nat
      BY LenProperties DEF TypeOK
    <3> QED BY <1>3, <3>1 DEF AppendWrite, TypeOK
  <2>4. unsynced' \in Nat /\ accepted' \in SUBSET Events /\ nev' \in 0..MaxEvents
    BY <1>3, <2>1 DEF AppendWrite, TypeOK
  <2> QED BY <1>3, <2>2, <2>3, <2>4 DEF AppendWrite, TypeOK
<1>4. CASE AppendWriteFails
  BY <1>4 DEF AppendWriteFails, TypeOK
<1>5. CASE Sync
  BY <1>0, <1>5 DEF Sync, TypeOK
<1> QED BY <1>1, <1>2, <1>3, <1>4, <1>5 DEF Receiver

(* The forwarder's steps keep the types. *)
LEMMA TypeForwarder == TypeOK /\ Forwarder => TypeOK'
<1> SUFFICES ASSUME TypeOK, Forwarder PROVE TypeOK'
  OBVIOUS
<1> USE SpoolAssumption DEF diskVars, writerVars, readerVars, janitorVars, historyVars
<1>0. NoPos \in Position /\ << >> \in Seq(Events) /\ Range(batch) \in SUBSET Events
  <2>1. NoPos \in Position
    BY DEF NoPos, Position, Names
  <2>2. << >> \in Seq(Events)
    BY EmptySeq
  <2>3. Range(batch) \in SUBSET Events
    <3>1. batch \in Seq(Events)
      BY DEF TypeOK
    <3> QED BY <3>1, ElementOfSeq, LenProperties DEF Range
  <2> QED BY <2>1, <2>2, <2>3
<1>1. CASE ReadBegin
  BY <1>0, <1>1 DEF ReadBegin, TypeOK
<1>2. CASE ReadFile
  <2>1. NextFile \in Days /\ Taken \in Seq(Events) /\ EndOff \in Nat
    BY <1>2, TakenLines DEF ReadFile
  <2>2. batch' \in Seq(Events)
    <3>1. batch \in Seq(Events)
      BY DEF TypeOK
    <3> QED BY <1>2, <2>1, <3>1, ConcatProperties DEF ReadFile
  <2>3. Later # {} => Min(Later) \in Days
    <3>1. Later \in SUBSET Days /\ Later \in SUBSET Nat
      <4>1. names \in SUBSET Days
        BY DEF TypeOK
      <4> QED BY <4>1, DaysAreNats DEF Later
    <3> QED BY <3>1, MinOfNats
  <2>4. pos' \in Position
    <3>1. NextFile \in Names /\ (Later # {} => Min(Later) \in Names)
      BY <2>1, <2>3, DaysAreNats
    <3>2. CASE AtEOF /\ Later # {}
      BY <1>2, <3>1, <3>2 DEF ReadFile, Position
    <3>3. CASE ~(AtEOF /\ Later # {})
      BY <1>2, <2>1, <3>1, <3>3 DEF ReadFile, Position
    <3> QED BY <3>2, <3>3
  <2>5. fpc' \in {"reading", "read"}
    BY <1>2 DEF ReadFile
  <2> QED BY <1>2, <2>2, <2>4, <2>5 DEF ReadFile, TypeOK
<1>3. CASE ReadNothing
  BY <1>3 DEF ReadNothing, TypeOK
<1>4. CASE ReadFails
  BY <1>0, <1>4 DEF ReadFails, TypeOK
<1>5. CASE ReadEnd
  BY <1>0, <1>5 DEF ReadEnd, TypeOK
<1>6. CASE PostStored
  BY <1>0, <1>6 DEF PostStored, TypeOK
<1>7. CASE PostRejected
  BY <1>0, <1>7 DEF PostRejected, TypeOK
<1>8. CASE Commit
  BY <1>0, <1>8 DEF Commit, WriteFileAtomic, TypeOK
<1> QED BY <1>1, <1>2, <1>3, <1>4, <1>5, <1>6, <1>7, <1>8 DEF Forwarder

(* The janitor's steps keep the types. *)
LEMMA TypeJanitor == TypeOK /\ Janitor => TypeOK'
<1> SUFFICES ASSUME TypeOK, Janitor PROVE TypeOK'
  OBVIOUS
<1> USE SpoolAssumption DEF diskVars, writerVars, readerVars, janitorVars, historyVars
<1>0. \A S : /\ [d \in Days |-> IF d \in S THEN << >> ELSE lines[d]] \in [Days -> Seq(Events)]
             /\ [d \in Days |-> IF d \in S THEN 0 ELSE synced[d]] \in [Days -> Nat]
  <2>1. << >> \in Seq(Events)
    BY EmptySeq
  <2> QED BY <2>1 DEF TypeOK
<1>1. CASE CleanupBegin
  <2>1. now \in Nat /\ curName \in Names
    BY DaysAreNats DEF TypeOK
  <2>2. jcutoff' \in Nat /\ jcurrent' \in Names
    BY <1>1, <2>1 DEF CleanupBegin
  <2> QED BY <1>1, <2>2 DEF CleanupBegin, TypeOK
<1>2. CASE CleanupLocked
  <2>1. PICK gone \in SUBSET Files : CleanupLocked!2!(gone)
    BY <1>2 DEF CleanupLocked
  <2> DEFINE removed == {d \in plain : [day |-> d, gz |-> FALSE] \in gone}
  <2>2. Unlink(removed) /\ todo' = ToCompress(plain \ removed)
    BY <2>1
  <2>3. gz' \in SUBSET Days
    BY <2>1 DEF TypeOK
  <2>4. todo' \in SUBSET Days
    BY <2>2 DEF ToCompress, TypeOK
  <2>5. \A d \in Days : Unsent(d) \in SUBSET Events
    <3> TAKE d \in Days
    <3>1. lines[d] \in Seq(Events)
      BY DEF TypeOK
    <3> QED BY <3>1, ElementOfSeq, LenProperties DEF Unsent
  <2>6. PICK uncounted \in SUBSET removed :
          /\ dropped' = dropped \cup UNION {Unsent(d) : d \in removed \ uncounted}
          /\ mishaps' = mishaps
               \cup (IF uncounted # {} THEN {"uncounted"} ELSE {})
               \cup (IF \E d \in removed : \A x \in plain : x <= d
                     THEN {"newestRemoved"} ELSE {})
    BY <2>1
  <2>7. dropped' \in SUBSET Events
    <3>1. removed \in SUBSET Days /\ dropped \in SUBSET Events
      BY DEF TypeOK
    <3> QED BY <2>5, <2>6, <3>1
  <2>8. mishaps' \in SUBSET {"uncounted", "newestRemoved", "inflightLost", "powerLost"}
    BY <2>6 DEF TypeOK
  <2>9. plain' \in SUBSET Days /\ handle' \in {"closed", "open", "unlinked"}
    BY <2>2 DEF Unlink, TypeOK
  <2>10. lines' \in [Days -> Seq(Events)] /\ synced' \in [Days -> Nat]
    BY <1>0, <2>2 DEF Unlink
  <2>11. jpc' = "compress" /\ UNCHANGED <<now, offsetFile, dlq, up, wpc, curName, unsynced,
                   readerVars, jcurrent, jcutoff, nev, accepted, stored, dead>>
    BY <1>2 DEF CleanupLocked
  <2> QED BY <2>3, <2>4, <2>7, <2>8, <2>9, <2>10, <2>11 DEF TypeOK
<1>3. CASE CompressRename
  <2>1. Min(todo) \in Days
    <3>1. todo \in SUBSET Days /\ todo # {}
      BY <1>3 DEF CompressRename, TypeOK
    <3> QED BY <3>1, DaysAreNats, MinOfNats
  <2> QED BY <1>3, <2>1 DEF CompressRename, TypeOK
<1>4. CASE CompressFails
  BY <1>4 DEF CompressFails, TypeOK
<1>5. CASE CompressUnlink
  <2>1. PICK removed : Unlink(removed)
    BY <1>5 DEF CompressUnlink
  <2>2. lines' \in [Days -> Seq(Events)] /\ synced' \in [Days -> Nat]
    BY <1>0, <2>1 DEF Unlink
  <2> QED BY <1>5, <2>1, <2>2 DEF CompressUnlink, Unlink, TypeOK
<1>6. CASE CleanupEnd
  BY <1>6 DEF CleanupEnd, TypeOK, Names
<1> QED BY <1>1, <1>2, <1>3, <1>4, <1>5, <1>6 DEF Janitor

(* Starts, ends and clock steps keep the types. *)
LEMMA TypeEnvironment == TypeOK /\ Environment => TypeOK'
<1> SUFFICES ASSUME TypeOK, Environment PROVE TypeOK'
  OBVIOUS
<1> USE SpoolAssumption DEF diskVars, writerVars, readerVars, janitorVars, historyVars
<1>0. /\ NoPos \in Position /\ << >> \in Seq(Events)
      /\ 0 \in Names
      /\ MishapsAtEnd \in SUBSET {"inflightLost"}
  <2>1. NoPos \in Position /\ 0 \in Names
    BY DEF NoPos, Position, Names
  <2>2. << >> \in Seq(Events)
    BY EmptySeq
  <2> QED BY <2>1, <2>2 DEF MishapsAtEnd
<1>1. CASE Start
  BY <1>0, <1>1 DEF Start, LoadOffset, TypeOK
<1>2. CASE Crash
  BY <1>0, <1>2 DEF Crash, ProcessEnds, TypeOK
<1>3. CASE Stop
  <2>1. curName \in Days => Len(lines[curName]) \in Nat
    BY LenProperties DEF TypeOK
  <2>2. synced' \in [Days -> Nat]
    BY <1>3, <2>1 DEF Stop, SyncedAfter, TypeOK
  <2> QED BY <1>0, <1>3, <2>2 DEF Stop, ProcessEnds, TypeOK
<1>4. CASE PowerLoss
  <2>1. PICK keep \in [Days -> 0..MaxEvents] :
          /\ \A d \in Days : synced[d] <= keep[d] /\ keep[d] <= Len(lines[d])
          /\ lines' = [d \in Days |-> SubSeq(lines[d], 1, keep[d])]
          /\ synced' = keep
    BY <1>4 DEF PowerLoss
  <2>2. \A d \in Days : SubSeq(lines[d], 1, keep[d]) \in Seq(Events)
    <3> TAKE d \in Days
    <3>1. lines[d] \in Seq(Events) /\ keep[d] \in Nat /\ keep[d] <= Len(lines[d])
      BY <2>1 DEF TypeOK
    <3>2. \A i \in 1..keep[d] : lines[d][i] \in Events
      BY <3>1, ElementOfSeq, LenProperties
    <3> QED BY <3>1, <3>2, SubSeqProperties
  <2>3. lines' \in [Days -> Seq(Events)] /\ synced' \in [Days -> Nat]
    BY <2>1, <2>2
  <2>4. mishaps' \in SUBSET {"uncounted", "newestRemoved", "inflightLost", "powerLost"}
    BY <1>0, <1>4 DEF PowerLoss, TypeOK
  <2> QED BY <1>0, <1>4, <2>3, <2>4 DEF PowerLoss, ProcessEnds, TypeOK
<1>5. CASE ClockForward
  <2>1. now \in Days
    BY DEF TypeOK
  <2>2. now' \in Days
    BY <1>5, <2>1 DEF ClockForward, Days
  <2> QED BY <1>5, <2>2 DEF ClockForward, TypeOK
<1>6. CASE ClockSetBack
  BY <1>6 DEF ClockSetBack, TypeOK
<1> QED BY <1>1, <1>2, <1>3, <1>4, <1>5, <1>6 DEF Environment

(***************************************************************************)
(* WriterNewest, from which readBatch may conclude that a file with a      *)
(* successor is complete.                                                  *)
(***************************************************************************)

(* No step makes a file newer than the one being written.                  *)
LEMMA NewestStep == TypeOK /\ WriterNewest /\ [Next]_vars => WriterNewest'
<1> SUFFICES ASSUME TypeOK, WriterNewest, [Next]_vars PROVE WriterNewest'
  OBVIOUS
<1> USE DEF diskVars, writerVars, readerVars, janitorVars, historyVars
<1>1. CASE AppendOpen
  <2>1. \A d \in plain : d <= OpenName
    BY <1>1, OpenNameNewest DEF AppendOpen
  <2>2. OpenName \in Nat
    BY <1>1, OpenNameNewest, DaysAreNats DEF AppendOpen
  <2> QED BY <1>1, <2>1, <2>2 DEF AppendOpen, WriterNewest
<1>2. CASE CleanupLocked
  <2>1. PICK removed : Unlink(removed)
    BY <1>2 DEF CleanupLocked
  <2> QED BY <1>2, <2>1 DEF CleanupLocked, Unlink, WriterNewest
<1>3. CASE CompressUnlink
  <2>1. PICK removed : Unlink(removed)
    BY <1>3 DEF CompressUnlink
  <2> QED BY <1>3, <2>1 DEF CompressUnlink, Unlink, WriterNewest
<1>4. CASE Crash \/ Stop \/ PowerLoss
  BY <1>4 DEF Crash, Stop, PowerLoss, ProcessEnds, WriterNewest
<1>5. CASE UNCHANGED <<plain, curName>> /\ handle' \in {handle, "closed"}
  BY <1>5 DEF WriterNewest
<1>6. CASE AppendWrite \/ AppendWriteFails \/ Sync
  BY <1>5, <1>6 DEF AppendWrite, AppendWriteFails, Sync
<1>11. CASE AppendOpenFails
  BY <1>11 DEF AppendOpenFails, WriterNewest
<1>7. CASE Forwarder
  BY <1>5, <1>7 DEF Forwarder, ReadBegin, ReadFile, ReadNothing, ReadFails, ReadEnd,
                    PostStored, PostRejected, Commit
<1>8. CASE CleanupBegin \/ CompressRename \/ CompressFails \/ CleanupEnd
  BY <1>5, <1>8 DEF CleanupBegin, CompressRename, CompressFails, CleanupEnd
<1>9. CASE Start \/ ClockForward \/ ClockSetBack
  BY <1>5, <1>9 DEF Start, ClockForward, ClockSetBack
<1>10. CASE UNCHANGED vars
  BY <1>5, <1>10 DEF vars
<1> QED
  BY <1>1, <1>2, <1>3, <1>4, <1>6, <1>7, <1>8, <1>9, <1>10, <1>11
  DEF Next, Receiver, Janitor, Environment

(* Every reachable state has the types of TypeOK, and no file of the       *)
(* spool is newer than the one the receiver has open.                      *)
THEOREM TypeAndNewest == Spec => [](TypeOK /\ WriterNewest)
<1>1. Init => TypeOK /\ WriterNewest
  BY TypeInit DEF Init, WriterNewest
<1>2. TypeOK /\ WriterNewest /\ [Next]_vars => TypeOK' /\ WriterNewest'
  <2> SUFFICES ASSUME TypeOK, WriterNewest, [Next]_vars PROVE TypeOK' /\ WriterNewest'
    OBVIOUS
  <2>1. CASE Next
    BY <2>1, TypeReceiver, TypeForwarder, TypeJanitor, TypeEnvironment, NewestStep DEF Next
  <2>2. CASE UNCHANGED vars
    <3>1. TypeOK'
      BY <2>2 DEF vars, diskVars, writerVars, readerVars, janitorVars, historyVars, TypeOK
    <3> QED BY <3>1, NewestStep
  <2> QED BY <2>1, <2>2
<1> QED BY <1>1, <1>2, PTL DEF Spec

-----------------------------------------------------------------------------
(***************************************************************************)
(* The inductive invariant SpoolInv                                        *)
(***************************************************************************)

(* The parts of SpoolInv that speak of the reader and of its positions.    *)
ReaderInv ==
    /\ InflightTracks /\ Positions /\ BatchCovers
    /\ AckedSettled /\ TodoBehind /\ Retained

(* ReaderInv does not depend on the writer, the clock or the rest of the   *)
(* directory.                                                              *)
LEMMA ReaderFrame ==
    ASSUME ReaderInv,
           UNCHANGED <<plain, lines, offsetFile, readerVars, todo, accepted, stored, dead,
                       dropped, mishaps>>
    PROVE  ReaderInv'
BY DEF ReaderInv, InflightTracks, Positions, BatchCovers, AckedSettled, TodoBehind,
       Retained, Calm, Sending, Reachable, SettledBefore, IsBefore, Less, Settled,
       InFlight, readerVars

(* Days are positive numbers, and so are the names in use and the offsets. *)
LEMMA Numbers ==
    ASSUME TypeOK
    PROVE  /\ Days \in SUBSET Nat /\ \A d \in Days : d # 0
           /\ plain \in SUBSET Nat /\ \A d \in plain : d # 0
           /\ names \in SUBSET Nat /\ \A d \in names : d # 0
           /\ todo \in SUBSET Nat
           /\ curName \in Nat /\ now \in Nat
           /\ committed.file \in Nat /\ committed.off \in Nat
           /\ offsetFile.file \in Nat /\ offsetFile.off \in Nat
           /\ pos.file \in Nat /\ pos.off \in Nat
           /\ \A d \in Days : Len(lines[d]) \in Nat /\ DOMAIN lines[d] = 1..Len(lines[d])
<1>1. Days \in SUBSET Nat /\ Names \in SUBSET Nat /\ \A d \in Days : d # 0
  BY SpoolAssumption DEF Days, Names
<1>2. plain \in SUBSET Days /\ names \in SUBSET Days /\ todo \in SUBSET Days /\ now \in Days
  BY DEF TypeOK
<1>3. curName \in Names /\ committed \in Position /\ offsetFile \in Position /\ pos \in Position
  BY DEF TypeOK
<1>4. \A d \in Days : lines[d] \in Seq(Events)
  BY DEF TypeOK
<1>5. \A d \in Days : Len(lines[d]) \in Nat /\ DOMAIN lines[d] = 1..Len(lines[d])
  BY <1>4, LenProperties
<1> QED BY <1>1, <1>2, <1>3, <1>5 DEF Position

(* SpoolInv holds initially: the spool is empty and the process is down.   *)
LEMMA InvInit == Init => SpoolInv
<1> SUFFICES ASSUME Init PROVE SpoolInv
  OBVIOUS
<1>1. TypeOK
  BY TypeInit
<1>2. DownIsEmpty /\ OpenFile
  BY DEF Init, DownIsEmpty, OpenFile, WriterNewest
<1>3. InflightTracks /\ Positions /\ BatchCovers
  BY DEF Init, InflightTracks, Positions, BatchCovers, Sending, Reachable, SettledBefore,
         NoPos
<1>4. AckedSettled /\ TodoBehind /\ Retained
  BY DEF Init, AckedSettled, TodoBehind, Retained
<1> QED BY <1>1, <1>2, <1>3, <1>4 DEF SpoolInv

(* Opening a file preserves the reader's invariant: the new file is no     *)
(* older than any file on disk, so it lies behind no position.             *)
LEMMA ReaderAppendOpen ==
    ASSUME SpoolInv, MustOpen, plain' = plain \cup {OpenName},
           UNCHANGED <<lines, offsetFile, todo, historyVars, readerVars>>
    PROVE  ReaderInv'
<1> USE DEF diskVars, writerVars, readerVars, janitorVars, historyVars
<1> DEFINE n == OpenName
<1>1. n \in Days /\ \A d \in plain : d <= n
  BY OpenNameNewest DEF SpoolInv, OpenFile
<1>2. /\ plain' = plain \cup {n}
      /\ UNCHANGED <<lines, offsetFile, todo, historyVars, readerVars>>
  OBVIOUS
<1>3. /\ plain \in SUBSET Nat /\ n \in Nat /\ n # 0 /\ names \in SUBSET Nat
      /\ \A x \in names : x # 0
      /\ committed.file \in Nat /\ offsetFile.file \in Nat /\ pos.file \in Nat
  BY <1>1, Numbers DEF SpoolInv
<1> HIDE DEF n
<1>4. ASSUME NEW q, q.file \in Nat, Reachable(q)
      PROVE  /\ Reachable(q)'
             /\ \A i : n \notin plain => ~IsBefore(n, i, q)
  BY <1>1, <1>2, <1>3, <1>4 DEF Reachable, IsBefore
<1>5. Calm' <=> Calm
  BY <1>2 DEF Calm
<1>6. Positions'
  <2> SUFFICES ASSUME Calm
               PROVE  /\ Reachable(committed)' /\ Reachable(offsetFile)' /\ Reachable(pos)'
                      /\ SettledBefore(committed)' /\ SettledBefore(offsetFile)'
    BY <1>5 DEF Positions
  <2>1. /\ Reachable(committed) /\ Reachable(offsetFile) /\ Reachable(pos)
        /\ SettledBefore(committed) /\ SettledBefore(offsetFile)
    BY DEF SpoolInv, Positions
  <2>2. Reachable(committed)' /\ Reachable(offsetFile)' /\ Reachable(pos)'
    BY <1>1, <1>2, <1>3, <2>1 DEF Reachable
  <2>3. SettledBefore(committed)'
    BY <1>2, <1>3, <1>4, <2>1 DEF SettledBefore, IsBefore, Settled
  <2>4. SettledBefore(offsetFile)'
    BY <1>2, <1>3, <1>4, <2>1 DEF SettledBefore, IsBefore, Settled
  <2> QED BY <2>2, <2>3, <2>4
<1>7. BatchCovers'
  <2> SUFFICES ASSUME Calm PROVE BatchCovers'
    BY <1>5 DEF BatchCovers
  <2>1. Reachable(committed) /\ Reachable(pos) /\ BatchCovers
    BY DEF SpoolInv, Positions
  <2>2. ASSUME fpc # "idle"
        PROVE  \A d \in plain' : \A i \in DOMAIN lines[d] :
                 IsBefore(d, i, pos) => IsBefore(d, i, committed) \/ lines[d][i] \in Range(batch)
    BY <1>2, <1>3, <1>4, <2>1, <2>2 DEF BatchCovers
  <2>3. ASSUME fpc = "reading"
        PROVE  /\ \A d \in plain' : d \in names \/ \A x \in names : x < d
               /\ \A x \in names : committed.file <= x => x \in plain'
    <3>1. /\ \A d \in plain : d \in names \/ \A x \in names : x < d
          /\ \A x \in names : committed.file <= x => x \in plain
      BY <2>1, <2>3 DEF BatchCovers
    <3>2. n \notin names => \A x \in names : x < n
      <4> SUFFICES ASSUME n \notin names, NEW x \in names PROVE x < n
        OBVIOUS
      <4>1. CASE committed.file <= x
        BY <1>1, <1>3, <3>1, <4>1
      <4>2. CASE ~(committed.file <= x)
        BY <1>1, <1>3, <2>1, <4>2 DEF Reachable
      <4> QED BY <4>1, <4>2
    <3> QED BY <1>2, <3>1, <3>2
  <2>4. fpc # "idle" => ~Less(pos, committed)
    BY <2>1 DEF BatchCovers
  <2> QED BY <1>2, <2>2, <2>3, <2>4 DEF BatchCovers, IsBefore, Less
<1>8. InflightTracks' /\ AckedSettled' /\ TodoBehind' /\ Retained'
  BY <1>2 DEF SpoolInv, InflightTracks, AckedSettled, TodoBehind, Retained, Calm, Sending,
              Settled, InFlight
<1> QED BY <1>6, <1>7, <1>8 DEF ReaderInv

(* Appending a line preserves the reader's invariant: the open file is the *)
(* newest and no position is beyond its end, so the new line is ahead of   *)
(* every position, and the event is retained by it.                        *)
LEMMA ReaderAppendWrite ==
    ASSUME SpoolInv, AppendWrite
    PROVE  ReaderInv'
<1> USE DEF diskVars, writerVars, readerVars, janitorVars, historyVars
<1> DEFINE e == nev + 1
           c == curName
<1>1. UNCHANGED <<plain, offsetFile, readerVars, todo, stored, dead, dropped, mishaps>>
  BY DEF AppendWrite
<1>2. Calm' <=> Calm
  BY <1>1 DEF Calm
<1>3. InflightTracks' /\ AckedSettled' /\ TodoBehind'
  BY <1>1 DEF SpoolInv, InflightTracks, AckedSettled, TodoBehind, Calm, Sending, Settled
<1>4. CASE ~Calm
  <2>1. mishaps # {}
    BY <1>4 DEF Calm
  <2> QED BY <1>1, <1>2, <1>3, <1>4, <2>1
          DEF ReaderInv, Positions, BatchCovers, Retained
<1>5. CASE Calm
  <2>1. /\ handle = "open" /\ c \in plain /\ \A d \in plain : d <= c
    <3>1. handle # "closed"
      BY DEF AppendWrite, MustOpen, SpoolInv, DownIsEmpty
    <3> QED BY <1>5, <3>1 DEF SpoolInv, OpenFile, WriterNewest, TypeOK
  <2>2. /\ c \in Days /\ plain \in SUBSET Days /\ lines \in [Days -> Seq(Events)]
        /\ e \in Events
    <3>1. plain \in SUBSET Days /\ lines \in [Days -> Seq(Events)] /\ nev \in 0..MaxEvents
      BY DEF SpoolInv, TypeOK
    <3>2. e \in Events
      BY <3>1, SpoolAssumption DEF AppendWrite, Events
    <3> QED BY <2>1, <3>1, <3>2
  <2>3. /\ lines' = [lines EXCEPT ![c] = Append(lines[c], e)]
        /\ accepted' \in SUBSET (accepted \cup {e})
    BY <2>1 DEF AppendWrite
  <2> HIDE DEF e, c
  <2>4. /\ Len(lines'[c]) = Len(lines[c]) + 1
        /\ \A i \in 1..Len(lines[c]) : lines'[c][i] = lines[c][i]
        /\ lines'[c][Len(lines[c]) + 1] = e
        /\ DOMAIN lines'[c] = 1..Len(lines[c]) + 1
    BY <2>2, <2>3, AppendProperties, LenProperties
  <2>5. \A d \in plain : d # c => lines'[d] = lines[d]
    BY <2>2, <2>3
  <2>6. \A d \in plain : Len(lines[d]) \in Nat /\ DOMAIN lines[d] = 1..Len(lines[d])
    BY <2>2, Numbers DEF SpoolInv
  <2>7. \A d \in plain : Len(lines[d]) <= Len(lines'[d])
    BY <2>4, <2>5, <2>6
  <2>8. \A d \in plain : \A i \in DOMAIN lines'[d] :
          \/ i \in DOMAIN lines[d] /\ lines'[d][i] = lines[d][i]
          \/ d = c /\ i = Len(lines[c]) + 1
    BY <2>4, <2>5, <2>6
  <2>9. ASSUME NEW q \in {committed, offsetFile, pos}
        PROVE  /\ q.file = 0 \/ \E d \in plain : q.file <= d
               /\ q.file \in plain => q.off <= Len(lines'[q.file])
               /\ ~IsBefore(c, Len(lines[c]) + 1, q)
    <3>1. q.file \in Nat /\ q.off \in Nat /\ Reachable(q)
      BY <1>5, Numbers DEF SpoolInv, Positions
    <3>2. c \in Nat /\ plain \in SUBSET Nat /\ c # 0
      BY <2>1, Numbers DEF SpoolInv
    <3>3. q.file \in plain => q.off <= Len(lines'[q.file])
      BY <2>4, <2>6, <2>7, <3>1 DEF Reachable
    <3>4. q.file <= c /\ (q.file = c => q.off <= Len(lines[c]))
      BY <2>1, <3>1, <3>2 DEF Reachable
    <3> QED BY <2>1, <2>6, <3>1, <3>2, <3>3, <3>4 DEF IsBefore, Reachable
  <2>10. Positions'
    <3>1. Reachable(committed)' /\ Reachable(offsetFile)' /\ Reachable(pos)'
      BY <1>1, <2>9 DEF Reachable
    <3>2. SettledBefore(committed)'
      BY <1>1, <1>5, <2>8, <2>9 DEF SpoolInv, Positions, SettledBefore, IsBefore, Settled
    <3>3. SettledBefore(offsetFile)'
      BY <1>1, <1>5, <2>8, <2>9 DEF SpoolInv, Positions, SettledBefore, IsBefore, Settled
    <3> QED BY <3>1, <3>2, <3>3 DEF Positions
  <2>11. BatchCovers'
    <3>1. \A d \in plain : \A i \in DOMAIN lines'[d] :
            IsBefore(d, i, pos) => i \in DOMAIN lines[d] /\ lines'[d][i] = lines[d][i]
      BY <2>8, <2>9
    <3> QED BY <1>1, <1>5, <3>1 DEF SpoolInv, BatchCovers, IsBefore, Less
  <2>12. Retained'
    <3> SUFFICES ASSUME mishaps = {}, NEW x \in accepted'
                 PROVE  \/ x \in Settled \cup dropped
                        \/ \E d \in plain : x \in Range(lines'[d])
                        \/ InFlight(x)
      BY <1>1 DEF Retained, Settled, InFlight
    <3>1. CASE x = e
      <4>1. Len(lines[c]) + 1 \in DOMAIN lines'[c]
        BY <2>1, <2>4, <2>6
      <4> QED BY <2>1, <2>4, <3>1, <4>1 DEF Range
    <3>2. CASE x \in accepted
      <4>1. \A d \in plain : Range(lines[d]) \subseteq Range(lines'[d])
        <5> SUFFICES ASSUME NEW d \in plain, NEW i \in DOMAIN lines[d]
                     PROVE  i \in DOMAIN lines'[d] /\ lines'[d][i] = lines[d][i]
          BY DEF Range
        <5>1. CASE d = c
          BY <2>1, <2>4, <2>6, <5>1
        <5>2. CASE d # c
          BY <2>5, <5>2
        <5> QED BY <5>1, <5>2
      <4> QED BY <3>2, <4>1 DEF SpoolInv, Retained
    <3> QED BY <2>3, <3>1, <3>2
  <2> QED BY <1>3, <2>10, <2>11, <2>12 DEF ReaderInv
<1> QED BY <1>4, <1>5

(* What a concatenation contains. *)
LEMMA RangeOfConcat ==
    ASSUME NEW S, NEW s \in Seq(S), NEW t \in Seq(S)
    PROVE  Range(s) \subseteq Range(s \o t) /\ Range(t) \subseteq Range(s \o t)
<1>1. /\ DOMAIN s = 1..Len(s) /\ DOMAIN t = 1..Len(t) /\ Len(s) \in Nat /\ Len(t) \in Nat
      /\ DOMAIN (s \o t) = 1..Len(s) + Len(t)
  BY ConcatProperties, LenProperties
<1>2. ASSUME NEW i \in DOMAIN s PROVE s[i] \in Range(s \o t)
  <2>1. i \in DOMAIN (s \o t) /\ (s \o t)[i] = s[i]
    BY <1>1, ConcatProperties
  <2> QED BY <2>1 DEF Range
<1>3. ASSUME NEW i \in DOMAIN t PROVE t[i] \in Range(s \o t)
  <2>1. Len(s) + i \in DOMAIN (s \o t) /\ (s \o t)[Len(s) + i] = t[i]
    BY <1>1, ConcatProperties
  <2> QED BY <2>1 DEF Range
<1> QED BY <1>2, <1>3 DEF Range

(* readFrom preserves the reader's invariant: the position moves over the  *)
(* lines it takes and over no other line of a file on disk.                *)
LEMMA ReaderReadFile ==
    ASSUME SpoolInv, ReadFile
    PROVE  ReaderInv'
<1> USE DEF diskVars, writerVars, readerVars, janitorVars, historyVars
<1>1. /\ fpc = "reading" /\ Ahead # {} /\ batch' = batch \o Taken
      /\ fpc' \in {"reading", "read"}
      /\ UNCHANGED <<plain, lines, offsetFile, committed, inflight, names, todo,
                     accepted, stored, dead, dropped, mishaps>>
  BY DEF ReadFile
<1>2. InflightTracks' /\ AckedSettled' /\ TodoBehind' /\ Retained'
  BY <1>1 DEF SpoolInv, InflightTracks, AckedSettled, TodoBehind, Retained, Calm, Sending,
              Settled, InFlight
<1>3. Calm' <=> Calm
  BY <1>1 DEF Calm
<1> SUFFICES ASSUME Calm PROVE Positions' /\ BatchCovers'
  BY <1>2, <1>3 DEF ReaderInv, Positions, BatchCovers
<1> DEFINE f == NextFile
<1>4. /\ f \in Ahead /\ f \in Days /\ \A d \in Ahead : f <= d
      /\ EntryOff \in Nat
      /\ EndOff \in Nat /\ EndOff <= Len(lines[f]) /\ EntryOff <= EndOff
      /\ AtEOF => EndOff = Len(lines[f])
      /\ \A i \in EntryOff + 1 .. EndOff : lines[f][i] \in Range(Taken)
      /\ Taken \in Seq(Events)
  BY <1>1, TakenLines DEF SpoolInv
<1>5. /\ Reachable(pos) /\ ~Less(pos, committed)
      /\ \A d \in plain : \A i \in DOMAIN lines[d] :
           IsBefore(d, i, pos) => IsBefore(d, i, committed) \/ lines[d][i] \in Range(batch)
      /\ \A d \in plain : d \in names \/ \A n \in names : n < d
      /\ \A n \in names : committed.file <= n => n \in plain
  BY <1>1 DEF SpoolInv, Positions, BatchCovers
<1>6. /\ f \in names /\ pos.file <= f /\ f \in plain
      /\ committed.file <= pos.file
      /\ f \in Nat /\ plain \in SUBSET Nat /\ names \in SUBSET Nat
      /\ committed.file \in Nat /\ committed.off \in Nat /\ pos.file \in Nat /\ pos.off \in Nat
      /\ Len(lines[f]) \in Nat /\ f # 0
  <2>1. f \in names /\ pos.file <= f
    BY <1>4 DEF Ahead
  <2>2. /\ committed.file \in Nat /\ pos.file \in Nat /\ f \in Nat /\ Len(lines[f]) \in Nat
        /\ committed.off \in Nat /\ pos.off \in Nat
        /\ plain \in SUBSET Nat /\ names \in SUBSET Nat /\ f # 0
    BY <1>4, Numbers DEF SpoolInv
  <2>3. committed.file <= pos.file
    BY <1>5, <2>2 DEF Less
  <2>4. committed.file <= f
    BY <2>1, <2>2, <2>3
  <2> QED BY <1>5, <2>1, <2>2, <2>3, <2>4
<1>7. EntryOff = IF f = pos.file THEN pos.off ELSE 0
  BY <1>5, <1>6 DEF EntryOff, Reachable
<1> HIDE DEF f
<1>8. \A d \in plain : d < f => d < pos.file
  <2> SUFFICES ASSUME NEW d \in plain, d < f, ~(d < pos.file) PROVE FALSE
    OBVIOUS
  <2>1. CASE d \in names
    <3>1. d \in Ahead
      BY <1>6, <2>1 DEF Ahead
    <3> QED BY <1>4, <1>6, <3>1
  <2>2. CASE d \notin names
    BY <1>5, <1>6, <2>2
  <2> QED BY <2>1, <2>2
<1>9. Range(batch) \subseteq Range(batch') /\ Range(Taken) \subseteq Range(batch')
  <2>1. batch \in Seq(Events)
    BY DEF SpoolInv, TypeOK
  <2> QED BY <1>1, <1>4, <2>1, RangeOfConcat
<1>10. \A d \in plain : \A i \in DOMAIN lines[d] :
         d < f \/ (d = f /\ i <= EndOff) =>
             IsBefore(d, i, committed) \/ lines[d][i] \in Range(batch')
  <2> SUFFICES ASSUME NEW d \in plain, NEW i \in DOMAIN lines[d],
                      d < f \/ (d = f /\ i <= EndOff)
               PROVE  IsBefore(d, i, pos) \/ lines[d][i] \in Range(Taken)
    BY <1>5, <1>9
  <2>1. i \in Nat /\ i >= 1 /\ d \in Nat
    <3>1. d \in Days
      BY DEF SpoolInv, TypeOK
    <3>2. Len(lines[d]) \in Nat /\ DOMAIN lines[d] = 1..Len(lines[d])
      BY <3>1, Numbers DEF SpoolInv
    <3> QED BY <1>6, <3>2
  <2>2. CASE d < f
    BY <1>8, <2>2 DEF IsBefore
  <2>3. CASE d = f /\ i <= EntryOff
    BY <1>6, <1>7, <2>1, <2>3 DEF IsBefore
  <2>4. CASE d = f /\ i > EntryOff
    BY <1>4, <1>6, <2>1, <2>4
  <2>5. d < f \/ d = f
    OBVIOUS
  <2>6. i <= EntryOff \/ i > EntryOff
    BY <1>4, <2>1
  <2> QED BY <2>2, <2>3, <2>4, <2>5, <2>6
<1>11. CASE AtEOF /\ Later # {}
  <2> DEFINE g == Min(Later)
  <2>1. pos' = [file |-> g, off |-> 0]
    BY <1>11 DEF ReadFile
  <2>2. g \in names /\ g > f /\ \A d \in names : d > f => g <= d
    <3>1. Later \in SUBSET Nat
      BY <1>6 DEF Later
    <3>2. g \in Later /\ \A d \in Later : g <= d
      BY <1>11, <3>1, MinOfNats
    <3> QED BY <3>2 DEF Later, f
  <2> HIDE DEF g
  <2>3. g \in Nat /\ g \in plain
    BY <1>5, <1>6, <2>2
  <2>4. Positions'
    <3>1. Reachable(pos)'
      BY <1>1, <2>1, <2>3, Numbers DEF Reachable, SpoolInv
    <3> QED BY <1>1, <3>1 DEF SpoolInv, Positions, Reachable, SettledBefore, IsBefore, Settled
  <2>5. ~Less(pos', committed)
    BY <1>6, <2>1, <2>2, <2>3 DEF Less
  <2>6. ASSUME NEW d \in plain, NEW i \in DOMAIN lines[d], IsBefore(d, i, pos')
        PROVE  IsBefore(d, i, committed) \/ lines[d][i] \in Range(batch')
    <3>1. d \in Days /\ Len(lines[d]) \in Nat /\ DOMAIN lines[d] = 1..Len(lines[d])
      <4>1. d \in Days
        BY DEF SpoolInv, TypeOK
      <4> QED BY <4>1, Numbers DEF SpoolInv
    <3>2. i \in Nat /\ i >= 1 /\ i <= Len(lines[d])
      BY <3>1
    <3>3. d < g
      BY <1>6, <2>1, <2>3, <2>6, <3>2 DEF IsBefore
    <3>4. d \in names
      BY <1>5, <1>6, <2>2, <2>3, <3>3
    <3>5. d <= f
      BY <1>6, <2>2, <2>3, <3>3, <3>4
    <3>6. d < f \/ (d = f /\ i <= EndOff)
      BY <1>4, <1>6, <1>11, <3>2, <3>5 DEF f
    <3> QED BY <1>10, <3>6
  <2>7. /\ fpc' # "idle"
        /\ \A d \in plain' : d \in names' \/ \A n \in names' : n < d
        /\ \A n \in names' : committed'.file <= n => n \in plain'
    BY <1>1, <1>5
  <2>8. BatchCovers'
    BY <1>1, <2>5, <2>6, <2>7 DEF BatchCovers, IsBefore, Less
  <2> QED BY <2>4, <2>8
<1>12. CASE ~(AtEOF /\ Later # {})
  <2>1. pos' = [file |-> f, off |-> EndOff]
    BY <1>12 DEF ReadFile, f
  <2>2. Positions'
    <3>1. Reachable(pos)'
      BY <1>1, <1>4, <1>6, <2>1 DEF Reachable, f
    <3> QED BY <1>1, <3>1 DEF SpoolInv, Positions, Reachable, SettledBefore, IsBefore, Settled
  <2>3. ~Less(pos', committed)
    BY <1>4, <1>5, <1>6, <1>7, <2>1 DEF Less
  <2>4. BatchCovers'
    BY <1>1, <1>5, <1>10, <2>1, <2>3 DEF BatchCovers, IsBefore, Less
  <2> QED BY <2>2, <2>4
<1> QED BY <1>11, <1>12

(* The other steps of the forwarder preserve the reader's invariant: the   *)
(* batch is acknowledged only when it is settled, and Commit then moves    *)
(* over it.                                                                *)
LEMMA ReaderForwarder ==
    ASSUME SpoolInv, Forwarder
    PROVE  ReaderInv'
<1> USE DEF diskVars, writerVars, readerVars, janitorVars, historyVars
<1>0. Reachable(NoPos)' /\ ReaderInv
  <2>1. Reachable(NoPos)'
    <3>1. 0 \notin plain'
      <4>1. plain' = plain
        BY DEF Forwarder, ReadBegin, ReadFile, ReadNothing, ReadFails, ReadEnd, PostStored,
               PostRejected, Commit
      <4> QED BY <4>1, Numbers DEF SpoolInv
    <3> QED BY <3>1 DEF Reachable, NoPos
  <2> QED BY <2>1 DEF SpoolInv, ReaderInv
<1>1. CASE ReadBegin
  <2>1. /\ fpc = "idle" /\ fpc' = "reading" /\ names' = plain /\ pos' = committed
        /\ UNCHANGED <<plain, lines, offsetFile, committed, inflight, todo, accepted, stored,
                       dead, dropped, mishaps>>
    BY <1>1 DEF ReadBegin
  <2>2. committed.file \in Nat /\ committed.off \in Nat
    BY Numbers DEF SpoolInv
  <2>3. InflightTracks' /\ AckedSettled' /\ TodoBehind'
    BY <1>0, <2>1 DEF ReaderInv, InflightTracks, AckedSettled, TodoBehind, Calm, Sending
  <2>4. Positions'
    BY <1>0, <2>1 DEF ReaderInv, Positions, Calm, Reachable, SettledBefore, IsBefore, Settled
  <2>5. BatchCovers'
    BY <2>1, <2>2 DEF BatchCovers, Less, IsBefore
  <2>6. Retained'
    BY <1>0, <2>1 DEF ReaderInv, Retained, InFlight, Settled
  <2> QED BY <2>3, <2>4, <2>5, <2>6 DEF ReaderInv
<1>2. CASE ReadFile
  BY <1>2, ReaderReadFile
<1>3. CASE ReadNothing
  BY <1>0, <1>3 DEF ReadNothing, ReaderInv, InflightTracks, Positions, BatchCovers,
     AckedSettled, TodoBehind, Retained, Calm, Sending, Reachable, SettledBefore, IsBefore,
     Less, Settled, InFlight
<1>4. CASE ReadFails
  <2>1. /\ fpc = "reading" /\ fpc' = "idle" /\ pos' = NoPos
        /\ UNCHANGED <<plain, lines, offsetFile, committed, inflight, todo, accepted, stored,
                       dead, dropped, mishaps>>
    BY <1>4 DEF ReadFails
  <2>2. InflightTracks' /\ BatchCovers' /\ AckedSettled' /\ TodoBehind'
    BY <1>0, <2>1 DEF ReaderInv, InflightTracks, BatchCovers, AckedSettled, TodoBehind, Calm,
                      Sending
  <2>3. Positions'
    BY <1>0, <2>1 DEF ReaderInv, Positions, Calm, Reachable, SettledBefore, IsBefore, Settled
  <2>4. Retained'
    BY <1>0, <2>1 DEF ReaderInv, Retained, InFlight, Settled
  <2> QED BY <2>2, <2>3, <2>4 DEF ReaderInv
<1>5. CASE ReadEnd
  <2>1. /\ fpc = "read"
        /\ UNCHANGED <<plain, lines, offsetFile, committed, todo, accepted, stored, dead,
                       dropped, mishaps>>
    BY <1>5 DEF ReadEnd
  <2>2. \/ inflight' = pos /\ fpc' = "deliver" /\ UNCHANGED <<pos, batch>>
        \/ fpc' = "idle" /\ pos' = NoPos /\ UNCHANGED inflight
    BY <1>5 DEF ReadEnd
  <2>3. InflightTracks' /\ AckedSettled' /\ TodoBehind'
    BY <1>0, <2>1, <2>2 DEF ReaderInv, InflightTracks, AckedSettled, TodoBehind, Calm, Sending
  <2>4. Positions'
    BY <1>0, <2>1, <2>2 DEF ReaderInv, Positions, Calm, Reachable, SettledBefore, IsBefore,
                            Settled
  <2>5. BatchCovers'
    BY <1>0, <2>1, <2>2 DEF ReaderInv, BatchCovers, Calm, IsBefore, Less
  <2>6. Retained'
    BY <1>0, <2>1, <2>2 DEF ReaderInv, Retained, InFlight, Settled
  <2> QED BY <2>3, <2>4, <2>5, <2>6 DEF ReaderInv
<1>6. CASE PostStored \/ PostRejected
  <2>1. /\ fpc = "deliver" /\ fpc' \in {"deliver", "acked"}
        /\ Settled \subseteq Settled'
        /\ Range(batch) \subseteq Settled'
        /\ UNCHANGED <<plain, lines, offsetFile, committed, inflight, names, pos, batch, todo,
                       accepted, dropped, mishaps>>
    BY <1>6 DEF PostStored, PostRejected, Settled
  <2>2. InflightTracks' /\ AckedSettled' /\ TodoBehind'
    BY <1>0, <2>1 DEF ReaderInv, InflightTracks, AckedSettled, TodoBehind, Calm, Sending
  <2>3. Positions'
    BY <1>0, <2>1 DEF ReaderInv, Positions, Calm, Reachable, SettledBefore, IsBefore
  <2>4. BatchCovers'
    BY <1>0, <2>1 DEF ReaderInv, BatchCovers, Calm, IsBefore, Less
  <2>5. Retained'
    BY <1>0, <2>1 DEF ReaderInv, Retained, InFlight
  <2> QED BY <2>2, <2>3, <2>4, <2>5 DEF ReaderInv
<1>7. CASE Commit
  <2>1. /\ fpc = "acked" /\ fpc' = "idle" /\ committed' = pos /\ pos' = NoPos
        /\ offsetFile' \in {pos, offsetFile}
        /\ inflight' = IF Less(inflight, pos) THEN pos ELSE inflight
        /\ UNCHANGED <<plain, lines, todo, accepted, stored, dead, dropped, mishaps>>
    BY <1>7 DEF Commit, WriteFileAtomic
  <2>2. inflight = pos
    BY <1>0, <2>1 DEF ReaderInv, InflightTracks, Sending
  <2>3. InflightTracks' /\ BatchCovers' /\ AckedSettled'
    BY <2>1, <2>2 DEF InflightTracks, BatchCovers, AckedSettled, Sending
  <2>4. ASSUME Calm
        PROVE  SettledBefore(pos) /\ committed.file <= pos.file
    <3>1. SettledBefore(committed) /\ Range(batch) \subseteq Settled
      BY <1>0, <2>1, <2>4 DEF ReaderInv, Positions, AckedSettled
    <3>2. /\ ~Less(pos, committed)
          /\ \A d \in plain : \A i \in DOMAIN lines[d] :
               IsBefore(d, i, pos) => IsBefore(d, i, committed) \/ lines[d][i] \in Range(batch)
      BY <1>0, <2>1, <2>4 DEF ReaderInv, BatchCovers
    <3>3. committed.file \in Nat /\ pos.file \in Nat
      BY Numbers DEF SpoolInv
    <3>4. SettledBefore(pos)
      BY <3>1, <3>2 DEF SettledBefore
    <3> QED BY <3>2, <3>3, <3>4 DEF Less
  <2>5. Positions'
    BY <1>0, <2>1, <2>4 DEF ReaderInv, Positions, Calm, Reachable, SettledBefore, IsBefore,
                            Settled
  <2>6. TodoBehind'
    <3>1. committed.file \in Nat /\ pos.file \in Nat /\ todo \in SUBSET Nat
      BY Numbers DEF SpoolInv
    <3> QED BY <1>0, <2>1, <2>4, <3>1 DEF ReaderInv, TodoBehind, Calm
  <2>7. Retained'
    <3>1. Range(batch) \subseteq Settled
      BY <1>0, <2>1 DEF ReaderInv, AckedSettled
    <3> QED BY <1>0, <2>1, <3>1 DEF ReaderInv, Retained, InFlight, Settled
  <2> QED BY <2>3, <2>5, <2>6, <2>7 DEF ReaderInv
<1> QED BY <1>1, <1>2, <1>3, <1>4, <1>5, <1>6, <1>7 DEF Forwarder

(* Removing files other than the newest one, and none that readBatch has   *)
(* ahead of it, keeps every position reachable and the batch complete.     *)
LEMMA ReaderUnlink ==
    ASSUME SpoolInv, Calm, NEW removed \in SUBSET Nat, Unlink(removed),
           \A d \in removed : \E x \in plain : d < x,
           fpc = "reading" => \A d \in removed : d < committed.file,
           UNCHANGED <<offsetFile, readerVars, stored, dead>>
    PROVE  Positions' /\ BatchCovers' /\ handle' = handle
<1> USE DEF readerVars
<1>1. plain \in SUBSET Days /\ lines \in [Days -> Seq(Events)]
  BY DEF SpoolInv, TypeOK
<1>2. plain' = plain \ removed /\ \A d \in plain' : lines'[d] = lines[d]
  BY <1>1 DEF Unlink
<1>3. plain \in SUBSET Nat /\ committed.file \in Nat /\ names \in SUBSET Nat
  BY Numbers DEF SpoolInv
<1>4. handle' = handle
  <2>1. ASSUME handle = "open", curName \in removed PROVE FALSE
    <3>1. PICK x \in plain : curName < x
      BY <2>1
    <3>2. x <= curName
      BY <2>1 DEF SpoolInv, OpenFile, WriterNewest
    <3>3. x \in Nat /\ curName \in Nat
      BY <1>3, <2>1
    <3> QED BY <3>1, <3>2, <3>3
  <2> QED BY <2>1 DEF Unlink
<1>5. ASSUME NEW q \in {committed, offsetFile, pos}
      PROVE  /\ q.file = 0 \/ \E d \in plain' : q.file <= d
             /\ q.file \in plain' => q.off <= Len(lines'[q.file])
  <2>1. q.file \in Nat /\ Reachable(q)
    BY Numbers DEF SpoolInv, Positions
  <2>2. q.file \in plain' => q.off <= Len(lines'[q.file])
    BY <1>2, <2>1 DEF Reachable
  <2>3. ASSUME q.file # 0 PROVE \E d \in plain' : q.file <= d
    <3>1. PICK w \in plain : q.file <= w
      BY <2>1, <2>3 DEF Reachable
    <3>2. plain # {} /\ plain \in SUBSET (0..MaxDay) /\ MaxDay \in Nat
      BY <1>1, <3>1, SpoolAssumption DEF Days
    <3>3. PICK m \in plain : \A y \in plain : y <= m
      BY <3>2, MaxOfNames
    <3>4. m \in plain'
      <4>1. m \notin removed
        BY <1>3, <3>3
      <4> QED BY <1>2, <4>1
    <3>5. w \in Nat /\ m \in Nat /\ w <= m
      BY <1>3, <3>3
    <3>6. q.file <= m
      BY <2>1, <3>1, <3>5
    <3> QED BY <3>4, <3>6
  <2> QED BY <2>2, <2>3
<1>6. Positions'
  <2>1. Reachable(committed)' /\ Reachable(offsetFile)' /\ Reachable(pos)'
    BY <1>5 DEF Reachable
  <2>2. SettledBefore(committed)' /\ SettledBefore(offsetFile)'
    BY <1>2 DEF SpoolInv, Positions, SettledBefore, IsBefore, Settled
  <2> QED BY <2>1, <2>2 DEF Positions
<1>7. BatchCovers'
  <2>1. fpc = "reading" => \A n \in names : committed.file <= n => n \in plain'
    BY <1>2, <1>3 DEF SpoolInv, BatchCovers
  <2> QED BY <1>2, <2>1 DEF SpoolInv, BatchCovers, IsBefore, Less
<1> QED BY <1>4, <1>6, <1>7

(* The janitor preserves the reader's invariant: what it removes is        *)
(* settled, in the batch in flight, or counted as dropped, and what it     *)
(* compresses is settled.                                                  *)
LEMMA ReaderJanitor ==
    ASSUME SpoolInv, Janitor
    PROVE  ReaderInv' /\ (Calm' => handle' = handle)
<1> USE DEF diskVars, writerVars, readerVars, janitorVars, historyVars
<1>0. ReaderInv
  BY DEF SpoolInv, ReaderInv
<1>1. CASE CleanupBegin \/ CompressRename \/ CleanupEnd
  BY <1>0, <1>1, ReaderFrame DEF CleanupBegin, CompressRename, CleanupEnd
<1>2. CASE CompressFails
  <2>1. /\ todo' \in SUBSET todo
        /\ UNCHANGED <<plain, lines, offsetFile, readerVars, accepted, stored, dead, dropped,
                       mishaps>>
    BY <1>2 DEF CompressFails
  <2>2. ReaderInv'
    BY <1>0, <2>1 DEF ReaderInv, InflightTracks, Positions, BatchCovers, AckedSettled,
             TodoBehind, Retained, Calm, Sending, Reachable, SettledBefore, IsBefore, Less,
             Settled, InFlight
  <2> QED BY <1>2, <2>2 DEF CompressFails
<1>3. CASE CompressUnlink
  <2>1. PICK removed \in SUBSET {Min(todo)} : Unlink(removed)
    BY <1>3 DEF CompressUnlink, AllOrSome
  <2>2. /\ todo' \in SUBSET todo /\ jpc = "unlink"
        /\ UNCHANGED <<offsetFile, readerVars, accepted, stored, dead, dropped, mishaps>>
    BY <1>3 DEF CompressUnlink
  <2>3. InflightTracks' /\ AckedSettled' /\ TodoBehind' /\ (Calm' <=> Calm)
    BY <1>0, <2>2 DEF ReaderInv, InflightTracks, AckedSettled, TodoBehind, Calm, Sending, Settled
  <2>4. CASE ~Calm
    <3>1. mishaps' # {}
      BY <2>2, <2>4 DEF Calm
    <3> QED BY <2>3, <2>4, <3>1 DEF ReaderInv, Positions, BatchCovers, Retained
  <2>5. CASE Calm
    <3>1. Min(todo) \in todo /\ Min(todo) < committed.file
      <4>1. todo # {} /\ todo \in SUBSET Nat
        BY <2>2, Numbers DEF SpoolInv, DownIsEmpty
      <4> QED BY <1>0, <2>5, <4>1, MinOfNats DEF ReaderInv, TodoBehind
    <3>2. removed \in SUBSET Nat /\ \A d \in removed : d < committed.file
      BY <2>1, <3>1, Numbers DEF SpoolInv
    <3>3. \A d \in removed : \E x \in plain : d < x
      <4> SUFFICES ASSUME NEW d \in removed PROVE \E x \in plain : d < x
        OBVIOUS
      <4>1. committed.file \in Nat /\ plain \in SUBSET Nat /\ d \in Nat /\ d < committed.file
        BY <3>2, Numbers DEF SpoolInv
      <4>2. PICK x \in plain : committed.file <= x
        BY <1>0, <2>5, <4>1 DEF ReaderInv, Positions, Reachable
      <4>3. d < x
        BY <4>1, <4>2
      <4> QED BY <4>3
    <3>4. Positions' /\ BatchCovers' /\ handle' = handle
      BY <2>1, <2>2, <2>5, <3>2, <3>3, ReaderUnlink
    <3>5. Retained'
      <4> SUFFICES ASSUME mishaps = {}, NEW e \in accepted
                   PROVE  \/ e \in Settled \cup dropped
                          \/ \E d \in plain' : e \in Range(lines'[d])
                          \/ InFlight(e)
        BY <2>2 DEF Retained, Settled, InFlight
      <4>1. CASE \E d \in plain : e \in Range(lines[d])
        <5>0. PICK d \in plain : e \in Range(lines[d])
          BY <4>1
        <5>1. PICK i \in DOMAIN lines[d] : e = lines[d][i]
          BY <5>0 DEF Range
        <5>2. CASE d \in removed
          BY <1>0, <2>5, <3>2, <5>1, <5>2 DEF ReaderInv, Positions, SettledBefore, IsBefore
        <5>3. CASE d \notin removed
          <6>1. d \in Days
            BY DEF SpoolInv, TypeOK
          <6>2. d \in plain' /\ lines'[d] = lines[d]
            BY <2>1, <5>3, <6>1 DEF Unlink
          <6> QED BY <5>1, <6>2 DEF Range
        <5> QED BY <5>2, <5>3
      <4> QED BY <1>0, <4>1 DEF ReaderInv, Retained
    <3> QED BY <2>3, <3>4, <3>5 DEF ReaderInv
  <2> QED BY <2>4, <2>5
<1>4. CASE CleanupLocked
  <2>1. PICK gone \in SUBSET Files : CleanupLocked!2!(gone)
    BY <1>4 DEF CleanupLocked
  <2> DEFINE removed == {d \in plain : [day |-> d, gz |-> FALSE] \in gone}
  <2>2. Unlink(removed) /\ todo' = ToCompress(plain \ removed)
    BY <2>1
  <2>3. PICK uncounted \in SUBSET removed :
          /\ dropped' = dropped \cup UNION {Unsent(d) : d \in removed \ uncounted}
          /\ mishaps' = mishaps
               \cup (IF uncounted # {} THEN {"uncounted"} ELSE {})
               \cup (IF \E d \in removed : \A x \in plain : x <= d
                     THEN {"newestRemoved"} ELSE {})
    BY <2>1
  <2>4. removed \in SUBSET plain
    OBVIOUS
  <2> HIDE DEF removed
  <2>5. /\ PmuFree
        /\ UNCHANGED <<offsetFile, readerVars, accepted, stored, dead>>
    BY <1>4 DEF CleanupLocked
  <2>6. InflightTracks' /\ AckedSettled'
    BY <1>0, <2>5 DEF ReaderInv, InflightTracks, AckedSettled, Sending, Settled
  <2>7. TodoBehind'
    BY <2>2, <2>5 DEF TodoBehind, ToCompress
  <2>8. CASE ~(Calm')
    <3>1. mishaps' # {}
      BY <2>8 DEF Calm
    <3> QED BY <2>6, <2>7, <2>8, <3>1 DEF ReaderInv, Positions, BatchCovers, Retained
  <2>9. CASE Calm'
    <3>1. Calm /\ ~\E d \in removed : \A x \in plain : x <= d
      BY <2>3, <2>9 DEF Calm
    <3>2. plain \in SUBSET Nat /\ removed \in SUBSET Nat
      BY <2>4, Numbers DEF SpoolInv
    <3>3. \A d \in removed : \E x \in plain : d < x
      BY <3>1, <3>2
    <3>4. Positions' /\ BatchCovers' /\ handle' = handle
      BY <2>2, <2>5, <3>1, <3>2, <3>3, ReaderUnlink DEF PmuFree
    <3>5. Retained'
      <4> SUFFICES ASSUME mishaps' = {}, NEW e \in accepted
                   PROVE  \/ e \in Settled \cup dropped'
                          \/ \E d \in plain' : e \in Range(lines'[d])
                          \/ InFlight(e)
        BY <2>5 DEF Retained, Settled, InFlight
      <4>1. mishaps = {} /\ uncounted = {}
        BY <2>3
      <4>2. dropped' = dropped \cup UNION {Unsent(d) : d \in removed}
        BY <2>3, <4>1
      <4>3. CASE \E d \in plain : e \in Range(lines[d])
        <5>0. PICK d \in plain : e \in Range(lines[d])
          BY <4>3
        <5>1. PICK i \in DOMAIN lines[d] : e = lines[d][i]
          BY <5>0 DEF Range
        <5>2. CASE d \in removed /\ ~IsBefore(d, i, Effective)
          <6>1. e \in Unsent(d)
            BY <5>1, <5>2 DEF Unsent
          <6> QED BY <4>2, <5>2, <6>1
        <5>3. CASE d \in removed /\ IsBefore(d, i, Effective)
          <6>1. CASE Effective = committed
            BY <1>0, <3>1, <5>1, <5>3, <6>1 DEF ReaderInv, Positions, SettledBefore
          <6>2. CASE Effective # committed
            <7>1. Effective = inflight /\ inflight # committed
              BY <6>2 DEF Effective
            <7>2. Sending /\ Effective = pos
              BY <1>0, <7>1 DEF ReaderInv, InflightTracks
            <7>3. IsBefore(d, i, committed) \/ e \in Range(batch)
              BY <1>0, <3>1, <5>1, <5>3, <7>2 DEF ReaderInv, BatchCovers, Sending
            <7> QED BY <1>0, <3>1, <5>1, <7>2, <7>3
                    DEF ReaderInv, Positions, SettledBefore, InFlight, Sending
          <6> QED BY <6>1, <6>2
        <5>4. CASE d \notin removed
          <6>1. d \in Days
            BY DEF SpoolInv, TypeOK
          <6>2. d \in plain' /\ lines'[d] = lines[d]
            BY <2>2, <5>4, <6>1 DEF Unlink
          <6> QED BY <5>1, <6>2 DEF Range
        <5> QED BY <5>2, <5>3, <5>4
      <4> QED BY <1>0, <4>1, <4>2, <4>3 DEF ReaderInv, Retained
    <3> QED BY <2>6, <2>7, <3>4, <3>5 DEF ReaderInv
  <2> QED BY <2>8, <2>9
<1> QED BY <1>1, <1>2, <1>3, <1>4 DEF Janitor

(* The end of the process preserves the reader's invariant: reading will   *)
(* resume from the offset file, before which everything is settled, and a  *)
(* batch that was in memory is still in the files.                         *)
LEMMA ReaderEnds ==
    ASSUME SpoolInv, ProcessEnds,
           UNCHANGED <<plain, lines, offsetFile, accepted, stored, dead, dropped>>,
           mishaps' = mishaps \cup MishapsAtEnd
    PROVE  ReaderInv'
<1>0. ReaderInv
  BY DEF SpoolInv, ReaderInv
<1>1. /\ committed' = NoPos /\ inflight' = NoPos /\ pos' = NoPos /\ fpc' = "idle" /\ todo' = {}
  BY DEF ProcessEnds
<1>2. InflightTracks' /\ BatchCovers' /\ AckedSettled' /\ TodoBehind'
  BY <1>1 DEF InflightTracks, BatchCovers, AckedSettled, TodoBehind, Sending
<1>3. Positions'
  <2>1. \A d \in plain : d \in Nat /\ d # 0
    BY Numbers DEF SpoolInv
  <2>2. Calm' => Calm
    BY DEF Calm
  <2> QED BY <1>0, <1>1, <2>1, <2>2 DEF ReaderInv, Positions, Reachable, SettledBefore,
             IsBefore, NoPos, Settled
<1>4. Retained'
  <2> SUFFICES ASSUME mishaps' = {}, NEW e \in accepted
               PROVE  e \in Settled \cup dropped \/ \E d \in plain : e \in Range(lines[d])
    BY DEF Retained, Settled
  <2>1. mishaps = {} /\ ~InflightOnly
    BY DEF MishapsAtEnd
  <2> QED BY <1>0, <2>1 DEF ReaderInv, Retained, InFlight, InflightOnly
<1> QED BY <1>2, <1>3, <1>4 DEF ReaderInv

(* The environment preserves the reader's invariant. *)
LEMMA ReaderEnvironment ==
    ASSUME SpoolInv, Environment
    PROVE  ReaderInv'
<1> USE DEF diskVars, writerVars, readerVars, janitorVars, historyVars
<1>0. ReaderInv
  BY DEF SpoolInv, ReaderInv
<1>1. CASE ClockForward \/ ClockSetBack
  BY <1>0, <1>1, ReaderFrame DEF ClockForward, ClockSetBack
<1>2. CASE Crash \/ Stop
  BY <1>2, ReaderEnds DEF Crash, Stop
<1>3. CASE PowerLoss
  <2>1. PICK keep \in [Days -> 0..MaxEvents] :
          /\ \A d \in Days : synced[d] <= keep[d] /\ keep[d] <= Len(lines[d])
          /\ lines' = [d \in Days |-> SubSeq(lines[d], 1, keep[d])]
          /\ mishaps' = mishaps \cup MishapsAtEnd
               \cup (IF \E d \in Days : keep[d] < Len(lines[d]) THEN {"powerLost"} ELSE {})
    BY <1>3 DEF PowerLoss
  <2>2. CASE \E d \in Days : keep[d] < Len(lines[d])
    <3>1. "powerLost" \in mishaps'
      BY <2>1, <2>2
    <3>2. ~(Calm') /\ mishaps' # {}
      BY <3>1 DEF Calm
    <3>3. inflight' = committed' /\ fpc' = "idle" /\ todo' = {}
      BY <1>3 DEF PowerLoss, ProcessEnds
    <3> QED BY <3>2, <3>3 DEF ReaderInv, InflightTracks, Positions, BatchCovers, AckedSettled,
               TodoBehind, Retained, Sending
  <2>3. CASE ~\E d \in Days : keep[d] < Len(lines[d])
    <3>1. \A d \in Days : SubSeq(lines[d], 1, keep[d]) = lines[d]
      <4> TAKE d \in Days
      <4>1. lines[d] \in Seq(Events) /\ Len(lines[d]) \in Nat
        BY LenProperties DEF SpoolInv, TypeOK
      <4>2. keep[d] = Len(lines[d])
        <5>1. keep[d] \in Nat /\ keep[d] <= Len(lines[d]) /\ ~(keep[d] < Len(lines[d]))
          BY <2>1, <2>3
        <5> QED BY <4>1, <5>1
      <4> QED BY <4>1, <4>2, SubSeqFull
    <3>2. lines' = lines
      BY <2>1, <3>1 DEF SpoolInv, TypeOK
    <3>3. mishaps' = mishaps \cup MishapsAtEnd
      BY <2>1, <2>3
    <3> QED BY <1>3, <3>2, <3>3, ReaderEnds DEF PowerLoss
  <2> QED BY <2>2, <2>3
<1>4. CASE Start
  <2>1. /\ ~up /\ committed' \in {offsetFile, NoPos} /\ inflight' = committed'
        /\ UNCHANGED <<plain, lines, offsetFile, fpc, names, pos, batch, todo, accepted, stored,
                       dead, dropped, mishaps>>
    BY <1>4 DEF Start, LoadOffset
  <2>2. fpc = "idle" /\ todo = {}
    BY <2>1 DEF SpoolInv, DownIsEmpty
  <2>3. InflightTracks' /\ BatchCovers' /\ AckedSettled' /\ TodoBehind'
    BY <2>1, <2>2 DEF InflightTracks, BatchCovers, AckedSettled, TodoBehind, Sending
  <2>4. Positions'
    <3>1. \A d \in plain : d \in Nat /\ d # 0
      BY Numbers DEF SpoolInv
    <3> QED BY <1>0, <2>1, <3>1 DEF ReaderInv, Positions, Calm, Reachable, SettledBefore,
               IsBefore, NoPos, Settled
  <2>5. Retained'
    BY <1>0, <2>1 DEF ReaderInv, Retained, InFlight, Settled
  <2> QED BY <2>3, <2>4, <2>5 DEF ReaderInv
<1> QED BY <1>1, <1>2, <1>3, <1>4 DEF Environment

(* The small parts of SpoolInv are preserved by every step. *)
LEMMA DownStep ==
    ASSUME SpoolInv, [Next]_vars
    PROVE  DownIsEmpty' /\ OpenFile'
<1> USE DEF diskVars, writerVars, readerVars, janitorVars, historyVars
<1>1. WriterNewest'
  BY NewestStep DEF SpoolInv, OpenFile
<1>2. CASE Receiver
  <2>1. DownIsEmpty'
    BY <1>2 DEF Receiver, AppendOpen, AppendOpenFails, AppendWrite, AppendWriteFails, Sync,
                SpoolInv, DownIsEmpty
  <2>2. OpenFile'
    BY <1>1, <1>2 DEF Receiver, AppendOpen, AppendOpenFails, AppendWrite, AppendWriteFails,
                      Sync, SpoolInv, OpenFile, Calm
  <2> QED BY <2>1, <2>2
<1>3. CASE Forwarder
  <2>1. DownIsEmpty'
    BY <1>3 DEF Forwarder, ReadBegin, ReadFile, ReadNothing, ReadFails, ReadEnd, PostStored,
                PostRejected, Commit, SpoolInv, DownIsEmpty
  <2>2. OpenFile'
    BY <1>1, <1>3 DEF Forwarder, ReadBegin, ReadFile, ReadNothing, ReadFails, ReadEnd,
                PostStored, PostRejected, Commit, SpoolInv, OpenFile, Calm
  <2> QED BY <2>1, <2>2
<1>4. CASE CleanupBegin \/ CompressRename \/ CompressFails \/ CleanupEnd
  <2>1. DownIsEmpty'
    BY <1>4 DEF CleanupBegin, CompressRename, CompressFails, CleanupEnd, SpoolInv, DownIsEmpty
  <2>2. OpenFile'
    BY <1>1, <1>4 DEF CleanupBegin, CompressRename, CompressFails, CleanupEnd, SpoolInv,
                OpenFile, Calm
  <2> QED BY <2>1, <2>2
<1>5. CASE CleanupLocked \/ CompressUnlink
  <2>1. PICK removed : Unlink(removed)
    BY <1>5 DEF CleanupLocked, CompressUnlink
  <2>2. DownIsEmpty'
    BY <1>5, <2>1 DEF CleanupLocked, CompressUnlink, Unlink, SpoolInv, DownIsEmpty
  <2>3. handle' = "open" => curName' \in plain'
    BY <1>5, <2>1 DEF CleanupLocked, CompressUnlink, Unlink, SpoolInv, OpenFile
  <2>4. Calm' => handle' # "unlinked"
    <3>1. Calm' => handle' = handle
      BY <1>5, ReaderJanitor DEF Janitor
    <3>2. Calm' => Calm
      BY <1>5 DEF CleanupLocked, CompressUnlink, Calm
    <3> QED BY <3>1, <3>2 DEF SpoolInv, OpenFile
  <2> QED BY <1>1, <2>2, <2>3, <2>4 DEF OpenFile
<1>6. CASE Environment
  <2>1. DownIsEmpty'
    BY <1>6 DEF Environment, Start, Crash, Stop, PowerLoss, ProcessEnds, ClockForward,
                ClockSetBack, SpoolInv, DownIsEmpty
  <2>2. OpenFile'
    BY <1>1, <1>6 DEF Environment, Start, Crash, Stop, PowerLoss, ProcessEnds, ClockForward,
                ClockSetBack, SpoolInv, OpenFile, Calm
  <2> QED BY <2>1, <2>2
<1>7. CASE UNCHANGED vars
  BY <1>7 DEF vars, SpoolInv, DownIsEmpty, OpenFile, WriterNewest, Calm
<1> QED BY <1>2, <1>3, <1>4, <1>5, <1>6, <1>7 DEF Next, Janitor

(* SpoolInv is inductive. *)
LEMMA InvStep == SpoolInv /\ [Next]_vars => SpoolInv'
<1> SUFFICES ASSUME SpoolInv, [Next]_vars PROVE SpoolInv'
  OBVIOUS
<1>1. DownIsEmpty' /\ OpenFile'
  BY DownStep
<1>2. ReaderInv /\ TypeOK /\ WriterNewest
  BY DEF SpoolInv, ReaderInv, OpenFile
<1>3. TypeOK'
  <2>1. CASE UNCHANGED vars
    BY <1>2, <2>1 DEF vars, diskVars, writerVars, readerVars, janitorVars, historyVars, TypeOK
  <2> QED BY <1>2, <2>1, TypeReceiver, TypeForwarder, TypeJanitor, TypeEnvironment DEF Next
<1>4. ReaderInv'
  <2>1. CASE AppendWriteFails \/ Sync \/ UNCHANGED vars
    BY <1>2, <2>1, ReaderFrame
       DEF AppendWriteFails, Sync, vars, diskVars, readerVars, janitorVars, historyVars
  <2>2. CASE AppendOpen \/ AppendOpenFails
    <3>1. MustOpen /\ UNCHANGED <<lines, offsetFile, todo, historyVars, readerVars>>
      BY <2>2 DEF AppendOpen, AppendOpenFails, janitorVars
    <3>2. CASE plain' = plain \cup {OpenName}
      BY <3>1, <3>2, ReaderAppendOpen
    <3>3. CASE plain' = plain
      BY <1>2, <3>1, <3>3, ReaderFrame DEF historyVars
    <3> QED BY <2>2, <3>2, <3>3 DEF AppendOpen, AppendOpenFails
  <2>3. CASE AppendWrite
    BY <2>3, ReaderAppendWrite
  <2> QED BY <2>1, <2>2, <2>3, ReaderForwarder, ReaderJanitor, ReaderEnvironment
          DEF Next, Receiver
<1> QED BY <1>1, <1>3, <1>4 DEF SpoolInv, ReaderInv

(* The inductive invariant holds in every reachable state of the spool,    *)
(* for every number of days and events, every batch size and sync          *)
(* interval, every limit and every combination of faults.                  *)
THEOREM SpoolInvariant == Spec => []SpoolInv
<1>1. Init => SpoolInv
  BY InvInit
<1>2. SpoolInv /\ [Next]_vars => SpoolInv'
  BY InvStep
<1> QED BY <1>1, <1>2, PTL DEF Spec

(* Nothing the forwarder has not settled lies behind its position, in      *)
(* memory or in the offset file (Commit after deliver).                    *)
THEOREM NothingIsSkipped == Spec => []NothingSkipped
<1>1. SpoolInv => NothingSkipped
  BY DEF SpoolInv, Positions, Calm, SettledBefore, NothingSkipped
<1> QED BY <1>1, SpoolInvariant, PTL

(* At least once: what Append accepted is stored, dead-lettered, counted   *)
(* as dropped, in flight or still ahead of the position at which reading   *)
(* resumes, now or after a crash.                                          *)
THEOREM NothingIsLost == Spec => []NoSilentLoss
<1>1. SpoolInv => NoSilentLoss
  <2> SUFFICES ASSUME SpoolInv, mishaps = {}, NEW e \in accepted
               PROVE  e \in Settled \cup dropped \/ Pending(e) \/ InFlight(e)
    BY DEF NoSilentLoss, NoLoss
  <2>1. SettledBefore(Resume)
    BY DEF SpoolInv, Positions, Calm, Resume
  <2>2. CASE \E d \in plain : e \in Range(lines[d])
    <3>1. PICK d \in plain : e \in Range(lines[d])
      BY <2>2
    <3>2. PICK i \in DOMAIN lines[d] : lines[d][i] = e
      BY <3>1 DEF Range
    <3> QED BY <2>1, <3>2 DEF SettledBefore, Pending
  <2> QED BY <2>2 DEF SpoolInv, Retained
<1> QED BY <1>1, SpoolInvariant, PTL

(* What moves the committed position on: a batch with lines ends behind it,*)
(* and only such a batch is sent.                                          *)
BatchAdvances ==
    /\ Sending => batch # << >>
    /\ Calm /\ fpc # "idle" /\ batch # << >> => Less(committed, pos)

(* A readFrom that finds lines moves the position on, and one that finds   *)
(* none does not move it back.                                             *)
LEMMA ReadAdvances ==
    ASSUME SpoolInv, BatchAdvances, ReadFile, Calm, batch' # << >>
    PROVE  Less(committed, pos')
<1> USE DEF diskVars, readerVars
<1>1. /\ fpc = "reading" /\ batch' = batch \o Taken
      /\ Ahead # {} /\ TypeOK /\ UNCHANGED committed
  BY DEF ReadFile, SpoolInv
<1> DEFINE f == NextFile
<1>2. /\ f \in Ahead /\ \A d \in Ahead : f <= d
      /\ EntryOff \in Nat /\ Taken \in Seq(Events)
      /\ EndOff = EntryOff + Len(Taken) /\ EndOff <= Len(lines[f])
      /\ AtEOF => EndOff = Len(lines[f])
      /\ Len(lines[f]) \in Nat
  <2>1. /\ f \in Ahead /\ f \in Days /\ \A d \in Ahead : f <= d
        /\ EntryOff \in Nat /\ Taken \in Seq(Events)
        /\ EndOff <= Len(lines[f]) /\ (AtEOF => EndOff = Len(lines[f]))
    BY <1>1, TakenLines
  <2>2. Len(lines[f]) \in Nat
    BY <1>1, <2>1, Numbers
  <2> QED BY <2>1, <2>2 DEF EndOff
<1>3. /\ Reachable(pos) /\ ~Less(pos, committed)
      /\ \A n \in names : committed.file <= n => n \in plain
      /\ batch # << >> => Less(committed, pos)
  BY <1>1 DEF SpoolInv, Positions, BatchCovers, BatchAdvances
<1>4. /\ f \in names /\ f \in Nat /\ pos.file <= f /\ names \in SUBSET Nat
      /\ committed.file \in Nat /\ pos.file \in Nat
      /\ committed.off \in Nat /\ pos.off \in Nat
  BY <1>1, <1>2, Numbers DEF Ahead
<1>5. f \in plain
  BY <1>3, <1>4 DEF Less
<1>6. EntryOff = IF f = pos.file THEN pos.off ELSE 0
  BY <1>3, <1>5 DEF EntryOff, Reachable
<1>7. Len(Taken) \in Nat /\ (batch # << >> \/ Len(Taken) > 0)
  <2>1. batch \in Seq(Events)
    BY <1>1 DEF TypeOK
  <2>2. ASSUME batch = << >>, Len(Taken) = 0
        PROVE  FALSE
    <3>1. Taken = << >>
      BY <1>2, <2>2
    <3> QED BY <1>1, <2>2, <3>1
  <2>3. Len(Taken) \in Nat
    BY <1>2
  <2> QED BY <2>2, <2>3
<1>8. CASE AtEOF /\ Later # {}
  <2>1. Min(Later) \in Later
    <3>1. Later \in SUBSET Nat
      BY <1>4 DEF Later
    <3> QED BY <1>8, <3>1, MinOfNats
  <2>2. Min(Later) \in Nat /\ Min(Later) > f
    BY <1>4, <2>1 DEF Later
  <2>3. pos' = [file |-> Min(Later), off |-> 0]
    BY <1>8 DEF ReadFile
  <2> QED BY <1>1, <1>3, <1>4, <2>2, <2>3 DEF Less
<1>9. CASE ~(AtEOF /\ Later # {})
  <2>1. pos' = [file |-> f, off |-> EndOff]
    BY <1>9 DEF ReadFile
  <2> HIDE DEF f
  <2> QED BY <1>1, <1>2, <1>3, <1>4, <1>6, <1>7, <2>1 DEF Less
<1> QED BY <1>8, <1>9

LEMMA AdvanceStep == SpoolInv /\ BatchAdvances /\ [Next]_vars => BatchAdvances'
<1> SUFFICES ASSUME SpoolInv, BatchAdvances, [Next]_vars PROVE BatchAdvances'
  OBVIOUS
<1> USE DEF diskVars, writerVars, readerVars, janitorVars, historyVars
<1>1. Calm' => Calm
  BY DEF Calm, Next, Receiver, Forwarder, Janitor, Environment, AppendOpen, AppendOpenFails,
         AppendWrite, AppendWriteFails, Sync, ReadBegin, ReadFile, ReadNothing, ReadFails,
         ReadEnd, PostStored, PostRejected, Commit, CleanupBegin, CleanupLocked, CompressRename,
         CompressFails, CompressUnlink, CleanupEnd, Start, Crash, Stop, PowerLoss,
         ProcessEnds, ClockForward, ClockSetBack, vars
<1>2. CASE ReadFile
  <2>1. fpc' \in {"reading", "read"} /\ committed' = committed
    BY <1>2 DEF ReadFile
  <2>2. Calm' /\ batch' # << >> => Less(committed, pos')
    BY <1>1, <1>2, ReadAdvances
  <2> QED BY <2>1, <2>2 DEF BatchAdvances, Sending, Less
<1>3. CASE ReadEnd
  <2>1. \/ /\ Len(batch) > 0 /\ fpc' = "deliver"
           /\ UNCHANGED <<pos, batch, committed>>
        \/ fpc' = "idle"
    BY <1>3 DEF ReadEnd
  <2>2. Len(batch) > 0 => batch # << >>
    OBVIOUS
  <2>3. fpc # "idle"
    BY <1>3 DEF ReadEnd
  <2> QED BY <1>1, <2>1, <2>2, <2>3 DEF BatchAdvances, Sending, Less
<1>4. CASE ReadNothing \/ PostStored \/ PostRejected
  BY <1>1, <1>4 DEF ReadNothing, PostStored, PostRejected, BatchAdvances, Sending, Less
<1>5. CASE fpc' = "idle"
  BY <1>5 DEF BatchAdvances, Sending
<1>6. CASE ReadBegin
  BY <1>6 DEF ReadBegin, BatchAdvances, Sending
<1>7. CASE UNCHANGED <<fpc, pos, batch, committed>>
  BY <1>1, <1>7 DEF BatchAdvances, Sending, Less
<1>8. Start => fpc' = "idle"
  BY DEF Start, SpoolInv, DownIsEmpty
<1>9. CASE Next
  BY <1>2, <1>3, <1>4, <1>5, <1>6, <1>7, <1>8, <1>9
     DEF Next, Receiver, Forwarder, Janitor, Environment, AppendOpen, AppendOpenFails,
         AppendWrite, AppendWriteFails, Sync, ReadFails, Commit, CleanupBegin, CleanupLocked,
         CompressRename, CompressFails, CompressUnlink, CleanupEnd, Crash, Stop, PowerLoss,
         ProcessEnds, ClockForward, ClockSetBack
<1> QED BY <1>7, <1>9 DEF vars

(* The committed position of a running process only moves forward, and     *)
(* with every batch that has been delivered.                               *)
THEOREM CommitNeverRewinds == Spec => NeverRewinds
<1>1. Init => BatchAdvances
  BY DEF Init, BatchAdvances, Sending
<1>2. SpoolInv /\ BatchAdvances /\ [Next]_vars =>
        [up /\ up' /\ mishaps \cap {"powerLost", "newestRemoved"} = {} =>
            /\ ~Less(committed', committed)
            /\ fpc = "acked" /\ fpc' = "idle" => Less(committed, committed')]_vars
  <2> SUFFICES ASSUME SpoolInv, BatchAdvances, Next, up, up',
                      mishaps \cap {"powerLost", "newestRemoved"} = {}
               PROVE  /\ ~Less(committed', committed)
                      /\ fpc = "acked" /\ fpc' = "idle" => Less(committed, committed')
    OBVIOUS
  <2>1. CASE Commit
    BY <2>1 DEF Commit, WriteFileAtomic, SpoolInv, BatchCovers, BatchAdvances, Sending, Calm
  <2>2. CASE UNCHANGED committed /\ ~(fpc = "acked" /\ fpc' = "idle")
    <3>1. committed.file \in Nat /\ committed.off \in Nat
      BY Numbers DEF SpoolInv
    <3> QED BY <2>2, <3>1 DEF Less
  <2>3. Commit \/ (committed' = committed /\ ~(fpc = "acked" /\ fpc' = "idle"))
    BY DEF Next, Receiver, Forwarder, Janitor, Environment, AppendOpen, AppendOpenFails,
           AppendWrite, AppendWriteFails, Sync, ReadBegin, ReadFile, ReadNothing, ReadFails,
           ReadEnd, PostStored, PostRejected, CleanupBegin, CleanupLocked, CompressRename,
           CompressFails, CompressUnlink, CleanupEnd, Start, Crash, Stop, PowerLoss,
           ProcessEnds, ClockForward, ClockSetBack, readerVars
  <2> QED BY <2>1, <2>2, <2>3
<1> QED BY <1>1, <1>2, AdvanceStep, SpoolInvariant, PTL DEF Spec, NeverRewinds

(* The newest file, which the writer is on, is not before the position. *)
LEMMA InvAhead == SpoolInv => WriterAhead
<1> SUFFICES ASSUME SpoolInv, Calm, handle = "open" PROVE curName >= committed.file
  BY DEF WriterAhead, Calm
<1>1. /\ curName \in Nat /\ committed.file \in Nat /\ plain \in SUBSET Nat
      /\ committed.file = 0 \/ \E d \in plain : committed.file <= d
      /\ \A d \in plain : d <= curName
  BY Numbers DEF SpoolInv, Positions, Reachable, OpenFile, WriterNewest
<1> QED BY <1>1

(* The writer is never behind the position: what Append writes after       *)
(* openLocked has chosen a file will be read.                              *)
THEOREM WriterStaysAhead == Spec => []WriterAhead
BY InvAhead, SpoolInvariant, PTL

(* The files that compress has still to work on are in the directory:      *)
(* nobody but the janitor removes one.                                     *)
LEMMA TodoOnDisk == Spec => [](todo \subseteq plain)
<1>1. Init => todo \subseteq plain
  BY DEF Init
<1>2. todo \subseteq plain /\ [Next]_vars => (todo \subseteq plain)'
  <2> SUFFICES ASSUME todo \subseteq plain, [Next]_vars PROVE todo' \subseteq plain'
    OBVIOUS
  <2>1. CASE CleanupLocked
    BY <2>1 DEF CleanupLocked, Unlink, ToCompress
  <2>2. CASE CompressUnlink
    BY <2>2 DEF CompressUnlink, Unlink, AllOrSome
  <2>3. CASE AppendOpen \/ AppendOpenFails
    BY <2>3 DEF AppendOpen, AppendOpenFails, janitorVars
  <2>4. CASE PowerLoss \/ Crash \/ Stop
    BY <2>4 DEF PowerLoss, Crash, Stop, ProcessEnds
  <2>5. \/ todo' \subseteq todo /\ plain' = plain
        \/ CleanupLocked \/ CompressUnlink \/ AppendOpen \/ AppendOpenFails
        \/ PowerLoss \/ Crash \/ Stop
    BY DEF Next, Receiver, Forwarder, Janitor, Environment, AppendWrite, AppendWriteFails, Sync,
           ReadBegin, ReadFile, ReadNothing, ReadFails, ReadEnd, PostStored, PostRejected, Commit,
           CleanupBegin, CompressRename, CompressFails, CleanupEnd, Start, ClockForward,
           ClockSetBack, diskVars, janitorVars, vars
  <2> QED BY <2>1, <2>2, <2>3, <2>4, <2>5
<1> QED BY <1>1, <1>2, PTL DEF Spec

(* compress needs no lock: neither the writer nor the reader is on a file  *)
(* that it works on, and every line of such a file is settled.             *)
THEOREM CompressionIsQuiet == Spec => []CompressedQuiet
<1>1. SpoolInv /\ todo \subseteq plain => CompressedQuiet
  <2> SUFFICES ASSUME SpoolInv, todo \subseteq plain, Calm, NEW d \in todo
               PROVE  /\ handle # "closed" => curName # d
                      /\ fpc = "reading" => d \notin Ahead
                      /\ Range(lines[d]) \subseteq Settled
    BY DEF CompressedQuiet, Calm
  <2>1. /\ d < committed.file /\ d \in Nat /\ committed.file \in Nat /\ committed.off \in Nat
        /\ pos.file \in Nat /\ pos.off \in Nat /\ curName \in Nat /\ d \in plain
    BY Numbers DEF SpoolInv, TodoBehind
  <2>2. handle # "closed" => curName # d
    <3>1. handle # "closed" => handle = "open"
      BY DEF SpoolInv, OpenFile, TypeOK
    <3> QED BY <2>1, <3>1, InvAhead DEF WriterAhead, Calm
  <2>3. fpc = "reading" => d \notin Ahead
    BY <2>1 DEF SpoolInv, BatchCovers, Less, Ahead
  <2>4. Range(lines[d]) \subseteq Settled
    <3>1. \A i \in DOMAIN lines[d] : IsBefore(d, i, committed)
      BY <2>1 DEF IsBefore
    <3> QED BY <2>1, <3>1 DEF SpoolInv, Positions, SettledBefore, Range
  <2> QED BY <2>2, <2>3, <2>4
<1> QED BY <1>1, TodoOnDisk, SpoolInvariant, PTL

-----------------------------------------------------------------------------
(***************************************************************************)
(* The order of the events                                                 *)
(***************************************************************************)

(* The lines of the files, one file after the other, are in the order in   *)
(* which their events were received.                                       *)
LinesInOrder ==
    /\ \A d \in Days \ plain : lines[d] = << >>
    /\ \A d \in Days : \A i \in DOMAIN lines[d] : lines[d][i] <= nev
    /\ \A c, d \in Days : \A j \in DOMAIN lines[c], i \in DOMAIN lines[d] :
          c < d \/ (c = d /\ j < i) => lines[c][j] < lines[d][i]

(* Nothing is read or settled that was not received. *)
Received == \A e \in Settled \cup Range(batch) : e <= nev

(* Whatever was accepted before an event of the batch is in the batch too, *)
(* or needs no more sending.                                               *)
BatchInOrder ==
    mishaps = {} =>
        \A e \in Range(batch) : \A f \in accepted :
            f < e => f \in Settled \cup dropped \cup Range(batch)

OrderInv == LinesInOrder /\ Received /\ BatchInOrder /\ SettledInOrder

(* Cutting off the ends of files, or whole files, keeps the order. *)
LEMMA LinesCut ==
    ASSUME TypeOK, TypeOK', LinesInOrder, nev' = nev,
           \A d \in Days \ plain' : lines'[d] = << >>,
           \A d \in Days : \A i \in DOMAIN lines'[d] :
               i \in DOMAIN lines[d] /\ lines'[d][i] = lines[d][i]
    PROVE  LinesInOrder'
BY DEF LinesInOrder

(* Append writes the newest event to the end of the newest file. *)
LEMMA LinesAppended ==
    ASSUME SpoolInv, LinesInOrder, AppendWrite
    PROVE  LinesInOrder'
<1>1. /\ nev \in Nat /\ nev' = nev + 1 /\ plain' = plain /\ nev + 1 \in Events
      /\ lines \in [Days -> Seq(Events)] /\ Days \subseteq Nat
      /\ \A d \in Days : \A i \in DOMAIN lines[d] : lines[d][i] \in Nat /\ i \in Nat
  <2>1. /\ nev \in 0..MaxEvents /\ lines \in [Days -> Seq(Events)] /\ nev < MaxEvents
        /\ nev' = nev + 1 /\ plain' = plain
    BY DEF SpoolInv, TypeOK, AppendWrite
  <2>2. Events \subseteq Nat /\ nev + 1 \in Events /\ Days \subseteq Nat /\ nev \in Nat
    BY <2>1, SpoolAssumption DEF Events, Days
  <2>3. \A d \in Days : \A i \in DOMAIN lines[d] : lines[d][i] \in Events /\ i \in Nat
    BY <2>1, ElementOfSeq, LenProperties
  <2>4. \A d \in Days : \A i \in DOMAIN lines[d] : lines[d][i] \in Nat /\ i \in Nat
    BY <2>2, <2>3
  <2> QED BY <2>1, <2>2, <2>4, Zenon
<1>2. CASE handle # "open"
  <2>1. lines' = lines
    BY <1>2 DEF AppendWrite
  <2> QED BY <1>1, <2>1 DEF LinesInOrder
<1>3. CASE handle = "open"
  <2> DEFINE n == Len(lines[curName])  t == Append(lines[curName], nev + 1)
  <2>1. curName \in plain /\ curName \in Days /\ \A d \in plain : d <= curName
    BY <1>3 DEF SpoolInv, OpenFile, WriterNewest, TypeOK
  <2>2. lines' = [lines EXCEPT ![curName] = t]
    BY <1>3 DEF AppendWrite
  <2>3. /\ n \in Nat /\ DOMAIN lines[curName] = 1..n /\ DOMAIN t = 1..n + 1
        /\ \A i \in 1..n : t[i] = lines[curName][i]
        /\ t[n + 1] = nev + 1
    BY <1>1, <2>1, AppendProperties, LenProperties
  <2> HIDE DEF n, t
  <2>4. lines'[curName] = t /\ \A d \in Days : d # curName => lines'[d] = lines[d]
    BY <1>1, <2>1, <2>2
  <2>5. \A d \in Days : \A i \in DOMAIN lines'[d] :
           \/ i \in DOMAIN lines[d] /\ lines'[d][i] = lines[d][i]
           \/ d = curName /\ i = n + 1 /\ lines'[d][i] = nev + 1
    BY <2>3, <2>4
  <2>6. \A d \in Days \ plain' : lines'[d] = << >>
    BY <1>1, <2>1, <2>4 DEF LinesInOrder
  <2>7. \A d \in Days : \A i \in DOMAIN lines'[d] : lines'[d][i] <= nev'
    BY <1>1, <2>5 DEF LinesInOrder
  <2>8. ASSUME NEW c \in Days, NEW d \in Days, NEW j \in DOMAIN lines'[c], NEW i \in DOMAIN lines'[d],
               c < d \/ (c = d /\ j < i)
        PROVE  lines'[c][j] < lines'[d][i]
    <3>1. CASE i \in DOMAIN lines[d] /\ lines'[d][i] = lines[d][i]
      <4>1. ~(c = curName /\ j = n + 1)
        <5>1. d \in plain
          BY <3>1 DEF LinesInOrder
        <5>2. d <= curName /\ (d = curName => i \in 1..n)
          BY <2>1, <2>3, <3>1, <5>1
        <5>3. c \in Nat /\ d \in Nat /\ curName \in Nat
          BY <1>1, <2>1
        <5>4. CASE c < d
          BY <5>2, <5>3, <5>4
        <5>5. CASE c = d /\ j < i
          <6> SUFFICES ASSUME c = curName, j = n + 1 PROVE FALSE
            OBVIOUS
          <6> QED BY <2>3, <5>2, <5>5
        <5> QED BY <2>8, <5>4, <5>5
      <4>2. j \in DOMAIN lines[c] /\ lines'[c][j] = lines[c][j]
        BY <2>5, <4>1
      <4> QED BY <2>8, <3>1, <4>2 DEF LinesInOrder
    <3>2. CASE d = curName /\ i = n + 1 /\ lines'[d][i] = nev + 1
      <4>1. ~(c = curName /\ j = n + 1)
        BY <1>1, <2>1, <2>3, <2>8, <3>2
      <4>2. j \in DOMAIN lines[c] /\ lines'[c][j] = lines[c][j]
        BY <2>5, <4>1
      <4>3. lines[c][j] <= nev /\ lines[c][j] \in Nat
        BY <1>1, <4>2 DEF LinesInOrder
      <4> QED BY <1>1, <3>2, <4>2, <4>3
    <3> QED BY <2>5, <3>1, <3>2
  <2> QED BY <2>6, <2>7, <2>8 DEF LinesInOrder
<1> QED BY <1>2, <1>3

(* readFrom takes lines that come after what it passes over. *)
LEMMA BatchRead ==
    ASSUME SpoolInv, SpoolInv', OrderInv, ReadFile
    PROVE  Received' /\ BatchInOrder'
<1>1. /\ Ahead # {} /\ batch' = batch \o Taken /\ fpc' \in {"reading", "read"}
      /\ UNCHANGED <<plain, lines, committed, accepted, stored, dead, dropped, mishaps, nev>>
  BY DEF ReadFile, diskVars, historyVars
<1>2. LinesInOrder /\ Received /\ BatchInOrder /\ TypeOK
  BY DEF OrderInv, SpoolInv
<1>3. /\ NextFile \in Days /\ Taken \in Seq(Events) /\ EndOff \in Nat
      /\ EndOff <= Len(lines[NextFile])
      /\ \A e \in Range(Taken) : \E i \in 1 .. EndOff : lines[NextFile][i] = e
      /\ AtEOF => EndOff = Len(lines[NextFile])
  BY <1>1, <1>2, TakenLines
<1>4. Range(batch') = Range(batch) \cup Range(Taken)
  <2>1. batch \in Seq(Events)
    BY <1>2 DEF TypeOK
  <2>2. Range(batch) \subseteq Range(batch') /\ Range(Taken) \subseteq Range(batch')
    BY <1>1, <1>3, <2>1, RangeOfConcat
  <2>3. Range(batch') \subseteq Range(batch) \cup Range(Taken)
    <3> SUFFICES ASSUME NEW i \in DOMAIN batch' PROVE batch'[i] \in Range(batch) \cup Range(Taken)
      BY DEF Range
    <3>1. /\ Len(batch) \in Nat /\ Len(Taken) \in Nat /\ i \in 1..Len(batch) + Len(Taken)
          /\ DOMAIN batch = 1..Len(batch) /\ DOMAIN Taken = 1..Len(Taken)
          /\ batch'[i] = IF i <= Len(batch) THEN batch[i] ELSE Taken[i - Len(batch)]
      BY <1>1, <1>3, <2>1, ConcatProperties, LenProperties
    <3>2. i \in DOMAIN batch \/ (~(i <= Len(batch)) /\ i - Len(batch) \in DOMAIN Taken)
      BY <3>1
    <3>3. i \in DOMAIN batch => i <= Len(batch)
      BY <3>1
    <3> QED BY <3>1, <3>2, <3>3 DEF Range
  <2> QED BY <2>2, <2>3
<1>5. /\ Len(lines[NextFile]) \in Nat /\ DOMAIN lines[NextFile] = 1..Len(lines[NextFile])
      /\ NextFile \in Nat /\ plain \in SUBSET Days /\ Days \in SUBSET Nat
      /\ \A d \in Days : Len(lines[d]) \in Nat /\ DOMAIN lines[d] = 1..Len(lines[d])
      /\ \A d \in Days : \A i \in DOMAIN lines[d] : lines[d][i] \in Nat
  <2>1. Days \in SUBSET Nat /\ \A d \in Days : Len(lines[d]) \in Nat /\ DOMAIN lines[d] = 1..Len(lines[d])
    BY <1>2, Numbers
  <2>2. plain \in SUBSET Days /\ \A d \in Days : lines[d] \in Seq(Events)
    BY <1>2 DEF TypeOK
  <2>3. Events \subseteq Nat
    BY SpoolAssumption DEF Events
  <2>4. \A d \in Days : \A i \in DOMAIN lines[d] : lines[d][i] \in Nat
    BY <2>1, <2>2, <2>3, ElementOfSeq
  <2> QED BY <1>3, <2>1, <2>2, <2>4
<1>6. \A e \in Range(Taken) : \E i \in DOMAIN lines[NextFile] : i <= EndOff /\ lines[NextFile][i] = e
  BY <1>3, <1>5
<1>7. Received'
  <2>1. \A e \in Range(Taken) : e <= nev
    BY <1>2, <1>3, <1>6 DEF LinesInOrder
  <2> QED BY <1>1, <1>2, <1>4, <2>1 DEF Received, Settled
<1>8. BatchInOrder'
  <2> SUFFICES ASSUME mishaps = {}, NEW e \in Range(batch'), NEW f \in accepted, f < e
               PROVE  f \in Settled \cup dropped \cup Range(batch')
    BY <1>1 DEF BatchInOrder, Settled
  <2>1. CASE e \in Range(batch)
    BY <1>2, <1>4, <2>1 DEF BatchInOrder
  <2>2. CASE e \in Range(Taken)
    <3>1. PICK i \in DOMAIN lines[NextFile] : i <= EndOff /\ lines[NextFile][i] = e
      BY <1>6, <2>2
    <3> SUFFICES ASSUME f \notin Settled \cup dropped PROVE f \in Range(batch')
      OBVIOUS
    <3>2. PICK d \in plain : f \in Range(lines[d])
      <4>1. ~InFlight(f)
        BY DEF ReadFile, InFlight
      <4> QED BY <4>1 DEF SpoolInv, Retained
    <3>3. PICK j \in DOMAIN lines[d] : lines[d][j] = f
      BY <3>2 DEF Range
    <3>4. d \in Days /\ d \in Nat /\ j \in Nat /\ i \in Nat
      <4>1. d \in Days
        BY <1>5
      <4>2. j \in 1..Len(lines[d]) /\ i \in 1..Len(lines[NextFile])
        BY <1>5, <4>1
      <4>3. d \in Nat
        BY <1>5, <4>1
      <4>4. j \in Nat /\ i \in Nat
        BY <4>2
      <4> QED BY <4>1, <4>3, <4>4
    <3>5. d < NextFile \/ (d = NextFile /\ j <= EndOff)
      <4>1. ~(NextFile < d \/ (NextFile = d /\ i < j))
        <5>1. NextFile < d \/ (NextFile = d /\ i < j) => e < f
          BY <1>2, <1>3, <3>1, <3>3, <3>4 DEF LinesInOrder
        <5>2. e \in Nat /\ f \in Nat
          BY <1>3, <1>5, <3>1, <3>3, <3>4
        <5> QED BY <5>1, <5>2
      <4> QED BY <1>3, <1>5, <3>1, <3>4, <4>1
    <3>6. IsBefore(d, j, pos')
      <4>1. CASE AtEOF /\ Later # {}
        <5>1. pos' = [file |-> Min(Later), off |-> 0]
          BY <4>1 DEF ReadFile
        <5>2. Later \in SUBSET Nat
          BY <1>2, Numbers DEF Later
        <5>3. Min(Later) \in Later
          BY <4>1, <5>2, MinOfNats
        <5>4. Min(Later) > NextFile /\ Min(Later) \in Nat
          BY <5>2, <5>3 DEF Later
        <5> HIDE DEF Later
        <5> QED BY <1>5, <3>4, <3>5, <5>1, <5>4 DEF IsBefore
      <4>2. CASE ~(AtEOF /\ Later # {})
        <5>1. pos' = [file |-> NextFile, off |-> EndOff]
          BY <4>2 DEF ReadFile
        <5> QED BY <3>5, <5>1 DEF IsBefore
      <4> QED BY <4>1, <4>2
    <3>7. IsBefore(d, j, committed) \/ lines[d][j] \in Range(batch')
      <4>1. \A x \in plain' : \A y \in DOMAIN lines'[x] :
               IsBefore(x, y, pos)' => IsBefore(x, y, committed)' \/ lines'[x][y] \in Range(batch')
        BY <1>1 DEF SpoolInv, BatchCovers, Calm
      <4>2. IsBefore(d, j, pos') => IsBefore(d, j, committed') \/ lines'[d][j] \in Range(batch')
        BY <1>1, <4>1 DEF IsBefore
      <4> QED BY <1>1, <3>6, <4>2
    <3>8. ~IsBefore(d, j, committed)
      BY <3>3 DEF SpoolInv, Positions, Calm, SettledBefore
    <3> QED BY <3>3, <3>7, <3>8
  <2> QED BY <1>4, <2>1, <2>2
<1> QED BY <1>7, <1>8

(* Every step keeps the order. *)
LEMMA OrderStep == SpoolInv /\ SpoolInv' /\ OrderInv /\ [Next]_vars => OrderInv'
<1> SUFFICES ASSUME SpoolInv, SpoolInv', OrderInv, [Next]_vars PROVE OrderInv'
  OBVIOUS
<1> USE DEF diskVars, writerVars, readerVars, janitorVars, historyVars
<1>1. LinesInOrder /\ Received /\ BatchInOrder /\ SettledInOrder /\ TypeOK /\ TypeOK'
  BY DEF OrderInv, SpoolInv
<1>2. /\ nev \in Nat /\ Settled \cup Range(batch) \subseteq Nat /\ accepted \subseteq Nat
      /\ \A d \in Days : Len(lines[d]) \in Nat /\ DOMAIN lines[d] = 1..Len(lines[d])
  <2>1. Events \subseteq Nat
    BY SpoolAssumption DEF Events
  <2>2. batch \in Seq(Events)
    BY <1>1 DEF TypeOK
  <2>3. Range(batch) \subseteq Events
    BY <2>2, ElementOfSeq, LenProperties DEF Range
  <2>4. nev \in Nat /\ Settled \subseteq Events /\ accepted \subseteq Events
    BY <1>1 DEF TypeOK, Settled
  <2> QED BY <1>1, <2>1, <2>3, <2>4, Numbers
<1>3. Range(<< >>) = {}
  BY DEF Range
<1>4. CASE AppendWrite
  <2>1. /\ UNCHANGED <<batch, stored, dead, dropped, mishaps>>
        /\ nev' = nev + 1 /\ accepted' \subseteq accepted \cup {nev + 1}
    BY <1>4 DEF AppendWrite
  <2>2. Settled' = Settled
    BY <2>1 DEF Settled
  <2>3. Received'
    BY <1>1, <1>2, <2>1, <2>2 DEF Received
  <2>4. \A e \in Settled \cup Range(batch) : ~(nev + 1 < e)
    BY <1>1, <1>2 DEF Received
  <2>5. BatchInOrder' /\ SettledInOrder'
    BY <1>1, <2>1, <2>2, <2>4 DEF BatchInOrder, SettledInOrder
  <2> QED BY <1>1, <1>4, <2>3, <2>5, LinesAppended DEF OrderInv
<1>5. ASSUME UNCHANGED <<nev, accepted, stored, dead>>, dropped \subseteq dropped',
             mishaps \subseteq mishaps', batch' \in {batch, << >>}
      PROVE  Received' /\ BatchInOrder' /\ SettledInOrder'
  <2>1. Settled' = Settled
    BY <1>5 DEF Settled
  <2>2. Received'
    BY <1>1, <1>3, <1>5, <2>1 DEF Received
  <2>3. BatchInOrder'
    BY <1>1, <1>3, <1>5, <2>1 DEF BatchInOrder
  <2>4. SettledInOrder'
    BY <1>1, <1>5, <2>1 DEF SettledInOrder
  <2> QED BY <2>2, <2>3, <2>4
<1>6. ASSUME lines' = lines, nev' = nev, plain \subseteq plain' PROVE LinesInOrder'
  BY <1>1, <1>6 DEF LinesInOrder
<1>7. CASE ReadFile
  <2>1. UNCHANGED <<plain, lines, nev, accepted, stored, dead, dropped, mishaps>>
    BY <1>7 DEF ReadFile
  <2>2. SettledInOrder'
    BY <1>1, <2>1 DEF SettledInOrder, Settled
  <2> QED BY <1>6, <1>7, <2>1, <2>2, BatchRead DEF OrderInv
<1>8. CASE PostStored \/ PostRejected
  <2>1. UNCHANGED <<plain, lines, nev, accepted, dropped, mishaps, batch>>
    BY <1>8 DEF PostStored, PostRejected
  <2>2. Settled' = Settled \cup Range(batch)
    BY <1>8 DEF PostStored, PostRejected, Settled
  <2>3. Received'
    BY <1>1, <2>1, <2>2 DEF Received
  <2>4. BatchInOrder' /\ SettledInOrder'
    BY <1>1, <2>1, <2>2 DEF BatchInOrder, SettledInOrder
  <2> QED BY <1>6, <2>1, <2>3, <2>4 DEF OrderInv
<1>9. CASE CleanupLocked \/ CompressUnlink
  <2>1. /\ UNCHANGED <<nev, accepted, stored, dead, batch>>
        /\ dropped \subseteq dropped' /\ mishaps \subseteq mishaps'
    BY <1>9 DEF CleanupLocked, CompressUnlink
  <2>2. PICK removed : Unlink(removed)
    BY <1>9 DEF CleanupLocked, CompressUnlink
  <2>3. /\ plain' = plain \ removed
        /\ \A d \in Days : lines'[d] = IF d \in removed THEN << >> ELSE lines[d]
    BY <2>2 DEF Unlink
  <2>4. LinesInOrder'
    <3>1. \A d \in Days \ plain' : lines'[d] = << >>
      BY <1>1, <2>3 DEF LinesInOrder
    <3>2. \A d \in Days : \A i \in DOMAIN lines'[d] :
             i \in DOMAIN lines[d] /\ lines'[d][i] = lines[d][i]
      BY <2>3
    <3> QED BY <1>1, <2>1, <3>1, <3>2, LinesCut
  <2> QED BY <1>5, <2>1, <2>4 DEF OrderInv
<1>10. CASE PowerLoss
  <2>1. /\ UNCHANGED <<nev, accepted, stored, dead, dropped, plain>> /\ batch' = << >>
        /\ mishaps \subseteq mishaps'
    BY <1>10 DEF PowerLoss, ProcessEnds
  <2>2. PICK keep \in [Days -> 0..MaxEvents] :
           /\ \A d \in Days : keep[d] <= Len(lines[d])
           /\ lines' = [d \in Days |-> SubSeq(lines[d], 1, keep[d])]
    BY <1>10 DEF PowerLoss
  <2>3. ASSUME NEW d \in Days
        PROVE  /\ DOMAIN lines'[d] = 1..keep[d] /\ keep[d] \in Nat
               /\ \A i \in DOMAIN lines'[d] : i \in DOMAIN lines[d] /\ lines'[d][i] = lines[d][i]
    <3>1. lines'[d] = SubSeq(lines[d], 1, keep[d]) /\ lines[d] \in Seq(Events)
      BY <1>1, <2>2 DEF TypeOK
    <3>2. keep[d] \in 0..Len(lines[d])
      BY <1>2, <2>2, SpoolAssumption
    <3>3. \A i \in 1..keep[d] : lines[d][i] \in Events
      BY <1>2, <3>1, <3>2, ElementOfSeq
    <3>4. /\ SubSeq(lines[d], 1, keep[d]) \in Seq(Events)
          /\ Len(SubSeq(lines[d], 1, keep[d])) = keep[d]
          /\ \A i \in 1..keep[d] : SubSeq(lines[d], 1, keep[d])[i] = lines[d][i]
      BY <1>2, <3>1, <3>2, <3>3, SubSeqProperties
    <3>5. DOMAIN SubSeq(lines[d], 1, keep[d]) = 1..keep[d]
      BY <3>4, LenProperties
    <3>6. 1..keep[d] \subseteq DOMAIN lines[d] /\ keep[d] \in Nat
      BY <1>2, <3>2
    <3> QED BY <3>1, <3>4, <3>5, <3>6
  <2>4. \A d \in Days \ plain' : lines'[d] = << >>
    <3> SUFFICES ASSUME NEW d \in Days, d \notin plain PROVE lines'[d] = << >>
      BY <2>1
    <3>1. lines[d] = << >>
      BY <1>1 DEF LinesInOrder
    <3>2. keep[d] <= 0
      BY <2>2, <3>1
    <3>3. lines'[d] \in Seq(Events) /\ DOMAIN lines'[d] = {}
      <4>1. keep[d] = 0
        BY <2>3, <3>2
      <4> QED BY <1>1, <2>3, <4>1 DEF TypeOK
    <3>4. Len(lines'[d]) = 0
      <4>1. PICK s \in Seq(Events) : s = lines'[d]
        BY <3>3
      <4>2. Len(s) \in Nat /\ 1..Len(s) = {}
        BY <3>3, <4>1, LenProperties
      <4> QED BY <4>1, <4>2
    <3> QED BY <3>3, <3>4, EmptySeq
  <2>5. LinesInOrder'
    BY <1>1, <2>1, <2>3, <2>4, LinesCut
  <2> QED BY <1>5, <2>1, <2>5 DEF OrderInv
<1>11. CASE UNCHANGED vars
  <2>1. UNCHANGED <<plain, lines, nev, accepted, stored, dead, dropped, mishaps, batch>>
    BY <1>11 DEF vars
  <2> QED BY <1>5, <1>6, <2>1 DEF OrderInv
<1>12. CASE \/ AppendOpen \/ AppendOpenFails \/ AppendWriteFails \/ Sync
  <2>1. /\ UNCHANGED <<lines, nev, accepted, stored, dead, dropped, mishaps, batch>>
        /\ plain \subseteq plain'
    BY <1>12 DEF AppendOpen, AppendOpenFails, AppendWriteFails, Sync
  <2> QED BY <1>5, <1>6, <2>1 DEF OrderInv
<1>13. CASE ReadBegin \/ ReadNothing \/ ReadFails \/ ReadEnd \/ Commit
  <2>1. /\ UNCHANGED <<plain, lines, nev, accepted, stored, dead, dropped, mishaps>>
        /\ batch' \in {batch, << >>}
    BY <1>13 DEF ReadBegin, ReadNothing, ReadFails, ReadEnd, Commit
  <2> QED BY <1>5, <1>6, <2>1 DEF OrderInv
<1>14. CASE CleanupBegin \/ CompressRename \/ CompressFails \/ CleanupEnd
  <2>1. UNCHANGED <<plain, lines, nev, accepted, stored, dead, dropped, mishaps, batch>>
    BY <1>14 DEF CleanupBegin, CompressRename, CompressFails, CleanupEnd
  <2> QED BY <1>5, <1>6, <2>1 DEF OrderInv
<1>15. CASE Start \/ Crash \/ Stop \/ ClockForward \/ ClockSetBack
  <2>1. /\ UNCHANGED <<plain, lines, nev, accepted, stored, dead, dropped>>
        /\ mishaps \subseteq mishaps' /\ batch' \in {batch, << >>}
    BY <1>15 DEF Start, Crash, Stop, ClockForward, ClockSetBack, ProcessEnds
  <2> QED BY <1>5, <1>6, <2>1 DEF OrderInv
<1> QED BY <1>4, <1>7, <1>8, <1>9, <1>10, <1>11, <1>12, <1>13, <1>14, <1>15
        DEF Next, Receiver, Forwarder, Janitor, Environment

(* Delivery in order: when an event is settled, every event accepted       *)
(* before it is settled too or was counted as dropped, although the        *)
(* receiver appends, rotates and meets a clock that is set back while a    *)
(* batch is read, and batches are sent again after crashes.                *)
THEOREM SettledInOrderAlways == Spec => []SettledInOrder
<1>1. Init => OrderInv
  <2> SUFFICES ASSUME Init PROVE OrderInv
    OBVIOUS
  <2>1. /\ \A d \in Days : lines[d] = << >> /\ DOMAIN lines[d] = {}
        /\ Settled = {} /\ accepted = {} /\ Range(batch) = {}
    BY DEF Init, Settled, Range
  <2> QED BY <2>1 DEF OrderInv, LinesInOrder, Received, BatchInOrder, SettledInOrder
<1>2. OrderInv => SettledInOrder
  BY DEF OrderInv
<1> QED BY <1>1, <1>2, OrderStep, SpoolInvariant, PTL DEF Spec
=============================================================================
