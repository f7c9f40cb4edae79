-------------------------- MODULE InstallerProofs --------------------------
(***************************************************************************)
(* Proofs about the installer, for any number of runs and of failures.     *)
(*                                                                         *)
(* Neither Restored nor OriginalSafe is inductive: what a rollback will do *)
(* depends on the stack.  InstallerIInv says, for each part of the machine,*)
(* that it is as it was before the run, or that the command which makes it *)
(* so is on the stack, or that a failure has been reported; and that the   *)
(* command would do so, because the backup holds what was there.  When the *)
(* stack is empty only "it is as it was" is left.                          *)
(*                                                                         *)
(* The proof first says what each command does to the machine and to the   *)
(* stack (the lemmas ...Effect), then which parts it leaves alone (the     *)
(* lemmas ...Commands), and then takes the parts one by one (...Step).     *)
(***************************************************************************)
EXTENDS Installer, SequenceTheorems, TLAPS

-----------------------------------------------------------------------------
(***************************************************************************)
(* The program and the stack                                               *)
(***************************************************************************)

(* The commands of install.sh in their order. *)
LEMMA ProgramIs ==
    /\ Len(Program) = 19
    /\ Program[1] = <<"stop", "service">> /\ Program[2] = <<"mktemp", "backup">>
    /\ Program[3] = <<"useradd", "user">> /\ Program[4] = <<"snapshot", "bin">>
    /\ Program[5] = <<"install", "bin">> /\ Program[6] = <<"agent_id", "conf">>
    /\ Program[7] = <<"dir", "conf">> /\ Program[8] = <<"snapshot", "conf">>
    /\ Program[9] = <<"snapshot", "status">> /\ Program[10] = <<"snapshot", "ports">>
    /\ Program[11] = <<"install", "conf">> /\ Program[12] = <<"dir", "data">>
    /\ Program[13] = <<"dir", "spool">> /\ Program[14] = <<"dir", "log">>
    /\ Program[15] = <<"firewall", "ports">> /\ Program[16] = <<"firewall", "rule">>
    /\ Program[17] = <<"register", "service">> /\ Program[18] = <<"test", "bin">>
    /\ Program[19] = <<"start", "service">>
BY DEF Program

(* The commands from which a step of the program proceeds are known by     *)
(* their place in it.                                                      *)
LEMMA WhichCommand ==
    ASSUME NEW c, NEW a, At(c, a), pc \in Nat, pc >= 1
    PROVE  \/ (c = "stop" /\ a = "service" /\ pc = 1) \/ (c = "mktemp" /\ a = "backup" /\ pc = 2)
           \/ (c = "useradd" /\ a = "user" /\ pc = 3) \/ (c = "snapshot" /\ a = "bin" /\ pc = 4)
           \/ (c = "install" /\ a = "bin" /\ pc = 5) \/ (c = "agent_id" /\ a = "conf" /\ pc = 6)
           \/ (c = "dir" /\ a = "conf" /\ pc = 7) \/ (c = "snapshot" /\ a = "conf" /\ pc = 8)
           \/ (c = "snapshot" /\ a = "status" /\ pc = 9) \/ (c = "snapshot" /\ a = "ports" /\ pc = 10)
           \/ (c = "install" /\ a = "conf" /\ pc = 11) \/ (c = "dir" /\ a = "data" /\ pc = 12)
           \/ (c = "dir" /\ a = "spool" /\ pc = 13) \/ (c = "dir" /\ a = "log" /\ pc = 14)
           \/ (c = "firewall" /\ a = "ports" /\ pc = 15) \/ (c = "firewall" /\ a = "rule" /\ pc = 16)
           \/ (c = "register" /\ a = "service" /\ pc = 17) \/ (c = "test" /\ a = "bin" /\ pc = 18)
           \/ (c = "start" /\ a = "service" /\ pc = 19)
<1>1. Program[pc][1] = c /\ Program[pc][2] = a
  BY DEF At
<1>2. pc \in {1, 2, 3, 4, 5, 6, 7, 8, 9, 10, 11, 12, 13, 14, 15, 16, 17, 18, 19}
  BY ProgramIs DEF At
<1> QED BY <1>1, <1>2, ProgramIs

(* A rollback command is on the stack. *)
On(s, cmd, arg) == \E i \in 1..Len(s) : s[i] = <<cmd, arg>>

(* restore_service is nowhere but at the bottom of the stack: it is run    *)
(* last, after the service has been stopped.                               *)
ServiceLast(s) ==
    \A i \in 1..Len(s) : s[i] = <<"restore_service", "service">> => i = 1

(* The rollback commands that the program pushes. *)
LEMMA Undos ==
    /\ <<"restore_service", "service">> \in UndoCommands
    /\ <<"uninstall", "service">> \in UndoCommands /\ <<"stop", "service">> \in UndoCommands
    /\ <<"userdel", "user">> \in UndoCommands /\ <<"close", "rule">> \in UndoCommands
    /\ \A f \in Files : <<"restore", f>> \in UndoCommands /\ <<"remove", f>> \in UndoCommands
    /\ \A d \in Dirs : /\ <<"perms", d>> \in UndoCommands /\ <<"rmdir", d>> \in UndoCommands
                       /\ <<"rm-rf", d>> \in UndoCommands
BY DEF UndoCommands

(* What a step does to the stack. *)
Extends(t, s, cmd, arg) ==
    \A x, y : On(t, x, y) <=> (On(s, x, y) \/ (x = cmd /\ y = arg))

Pushes(cmd, arg) == Extends(stack', stack, cmd, arg)

Pops(cmd, arg) ==
    /\ \A x, y : On(stack', x, y) => On(stack, x, y)
    /\ \A x, y : On(stack, x, y) => (On(stack', x, y) \/ (x = cmd /\ y = arg))

Stacked == stack' \in Seq(UndoCommands) /\ ServiceLast(stack')

(* Nothing is on an empty stack. *)
LEMMA OnEmpty ==
    /\ << >> \in Seq(UndoCommands) /\ ServiceLast(<< >>)
    /\ \A x, y : ~On(<< >>, x, y)
BY EmptySeq DEF On, ServiceLast

(* A rollback command is put on a s. *)
LEMMA OnAppended ==
    ASSUME NEW s \in Seq(UndoCommands), ServiceLast(s), NEW c, NEW a, <<c, a>> \in UndoCommands,
           c = "restore_service" => s = << >>, NEW t,
           t = s \o << <<c, a>> >>
    PROVE  /\ Extends(t, s, c, a)
           /\ t \in Seq(UndoCommands) /\ ServiceLast(t)
<1> DEFINE e == <<c, a>>  n == Len(s)
<1>0. e \in UndoCommands /\ e[1] = c /\ e[2] = a
  OBVIOUS
<1>1. n \in Nat
  BY LenProperties
<1>2. /\ t \in Seq(UndoCommands) /\ Len(t) = n + 1
      /\ \A i \in 1..n : t[i] = s[i]
      /\ t[n + 1] = e
  BY <1>0, <1>1
<1> HIDE DEF e, n
<1>3. \A x, y : On(t, x, y) <=> (On(s, x, y) \/ (x = c /\ y = a))
  <2> TAKE x, y
  <2>1. ASSUME On(t, x, y) PROVE On(s, x, y) \/ (x = c /\ y = a)
    <3>1. PICK i \in 1..(n + 1) : t[i] = <<x, y>>
      BY <2>1, <1>2 DEF On
    <3>2. CASE i = n + 1
      BY <3>1, <3>2, <1>0, <1>2 DEF e
    <3>3. CASE i \in 1..n
      BY <3>1, <3>3, <1>2 DEF On, n
    <3> QED BY <3>2, <3>3, <1>1
  <2>2. ASSUME On(s, x, y) PROVE On(t, x, y)
    <3>1. PICK i \in 1..n : s[i] = <<x, y>>
      BY <2>2 DEF On, n
    <3>2. i \in 1..Len(t) /\ t[i] = <<x, y>>
      BY <3>1, <1>1, <1>2
    <3> QED BY <3>2 DEF On
  <2>3. ASSUME x = c, y = a PROVE On(t, x, y)
    <3>1. n + 1 \in 1..Len(t) /\ t[n + 1] = <<x, y>>
      BY <2>3, <1>1, <1>2 DEF e
    <3> QED BY <3>1 DEF On
  <2> QED BY <2>1, <2>2, <2>3
<1>4. ServiceLast(t)
  <2> SUFFICES ASSUME NEW i \in 1..(n + 1), t[i] = <<"restore_service", "service">>
               PROVE  i = 1
    BY <1>2 DEF ServiceLast
  <2>1. CASE i \in 1..n
    BY <2>1, <1>2 DEF ServiceLast, n
  <2>2. CASE i = n + 1
    <3>1. c = "restore_service"
      BY <2>2, <1>2, <1>0
    <3>2. n = 0
      BY <3>1 DEF n
    <3> QED BY <2>2, <3>2
  <2> QED BY <2>1, <2>2, <1>1
<1> QED BY <1>2, <1>3, <1>4 DEF Extends

(* A command that pushes one rollback command. *)
LEMMA OnePushed ==
    ASSUME stack \in Seq(UndoCommands), ServiceLast(stack),
           NEW c, NEW a, <<c, a>> \in UndoCommands,
           c = "restore_service" => stack = << >>,
           stack' = stack \o << <<c, a>> >>
    PROVE  Pushes(c, a) /\ Stacked
BY OnAppended DEF Pushes, Stacked

(* on_error takes the command at the top; restore_service is the last.     *)
LEMMA OnePopped ==
    ASSUME stack \in Seq(UndoCommands), ServiceLast(stack), NEW c, NEW a,
           Undoing(c, a), stack' = Popped
    PROVE  /\ On(stack, c, a) /\ Pops(c, a) /\ Stacked
           /\ c = "restore_service" /\ a = "service" => \A x, y : ~On(stack', x, y)
<1> DEFINE n == Len(stack)
<1>1. n \in Nat /\ n # 0 /\ stack[n] = <<c, a>>
  BY LenProperties, EmptySeq DEF Undoing, Top
<1>2. \A i \in 1..n : stack[i] \in UndoCommands
  BY ElementOfSeq
<1>3. stack' = [i \in 1..(n - 1) |-> stack[i]]
  BY <1>1 DEF Popped, Top
<1> HIDE DEF n
<1>4. stack' \in Seq(UndoCommands) /\ Len(stack') = n - 1 /\ \A i \in 1..(n - 1) : stack'[i] = stack[i]
  <2>1. n - 1 \in Nat /\ \A i \in 1..(n - 1) : stack[i] \in UndoCommands
    BY <1>1, <1>2
  <2> QED BY <2>1, <1>3, IsASeq
<1>5. On(stack, c, a)
  BY <1>1 DEF On, n
<1>6. Pops(c, a)
  <2>1. ASSUME NEW x, NEW y, On(stack', x, y) PROVE On(stack, x, y)
    <3>1. PICK i \in 1..(n - 1) : stack'[i] = <<x, y>>
      BY <2>1, <1>4 DEF On
    <3>2. i \in 1..n /\ stack[i] = <<x, y>>
      BY <3>1, <1>1, <1>4
    <3> QED BY <3>2 DEF On, n
  <2>2. ASSUME NEW x, NEW y, On(stack, x, y) PROVE On(stack', x, y) \/ (x = c /\ y = a)
    <3>1. PICK i \in 1..n : stack[i] = <<x, y>>
      BY <2>2 DEF On, n
    <3>2. CASE i = n
      BY <3>1, <3>2, <1>1
    <3>3. CASE i \in 1..(n - 1)
      BY <3>1, <3>3, <1>4 DEF On
    <3> QED BY <3>2, <3>3, <1>1
  <2> QED BY <2>1, <2>2 DEF Pops
<1>7. ServiceLast(stack')
  BY <1>1, <1>4 DEF ServiceLast, n
<1>8. ASSUME c = "restore_service", a = "service", NEW x, NEW y
      PROVE  ~On(stack', x, y)
  <2>1. n = 1
    <3>1. n \in 1..Len(stack)
      BY <1>1 DEF n
    <3> QED BY <3>1, <1>1, <1>8 DEF ServiceLast
  <2> QED BY <2>1, <1>4 DEF On
<1> QED BY <1>4, <1>5, <1>6, <1>7, <1>8 DEF Stacked

-----------------------------------------------------------------------------
(***************************************************************************)
(* The inductive invariant                                                 *)
(***************************************************************************)
Active == phase \in {"running", "rolling"}

(* The state of the run itself. *)
RunInv ==
    /\ ServiceLast(stack)
    /\ phase = "running" => pc >= 1 /\ ~reported /\ quiet = {}
    /\ phase = "running" /\ pc = 1 => stack = << >>

(* Where the snapshot of a file is made, and a directory. *)
SnapAt(f) == CASE f = "bin" -> 4 [] f = "conf" -> 8 [] f = "status" -> 9 [] OTHER -> 10
DirAt(d)  == CASE d = "conf" -> 7 [] d = "data" -> 12 [] d = "spool" -> 13 [] OTHER -> 14

(* A file is as it was, or there is a command on the stack that makes it   *)
(* so, or a failure has been reported.                                     *)
FileInv(f) ==
    /\ On(stack, "restore", f) => backup[f] = before.file[f] /\ before.file[f] # None
    /\ On(stack, "remove", f) => before.file[f] = None
    /\ Active /\ ~On(stack, "restore", f) /\ ~On(stack, "remove", f) /\ ~reported
          => m.file[f] = before.file[f]
    /\ phase = "running" /\ pc <= SnapAt(f)
          => m.file[f] = before.file[f] /\ ~On(stack, "restore", f)
    /\ phase = "running" /\ pc > SnapAt(f) => On(stack, "restore", f) \/ On(stack, "remove", f)
    /\ (Active \/ phase \in {"failed", "killed"}) /\ before.file[f] \in Versions
          => before.file[f] \in {m.file[f], backup[f]}

(* The same for directories; nothing removes one that was there before.    *)
DirInv(d) ==
    /\ On(stack, "perms", d) => before.dir[d] # "absent"
    /\ On(stack, "rm-rf", d) \/ On(stack, "rmdir", d) => before.dir[d] = "absent"
    /\ Active /\ before.dir[d] # "absent" => m.dir[d] # "absent"
    /\ (Active /\ ~reported /\ quiet = {}
        /\ ~On(stack, "perms", d) /\ ~On(stack, "rm-rf", d) /\ ~On(stack, "rmdir", d))
          => m.dir[d] = before.dir[d]
    /\ phase = "running" /\ pc <= DirAt(d) => m.dir[d] = before.dir[d]

(* The spool directory is in the data directory. *)
Nested ==
    /\ m.dir["data"] = "absent" => m.dir["spool"] = "absent"
    /\ before.dir["data"] = "absent" => before.dir["spool"] = "absent"
    /\ phase = "running" /\ pc > 12 => m.dir["data"] # "absent"

(* The account and the rule. *)
UserInv ==
    /\ On(stack, "userdel", "user") => ~before.user
    /\ Active /\ ~On(stack, "userdel", "user") /\ ~reported /\ quiet = {} => m.user = before.user
    /\ phase = "running" /\ pc <= 3 => m.user = before.user

RuleInv ==
    /\ On(stack, "close", "rule") => ~before.rule
    /\ Active /\ ~On(stack, "close", "rule") /\ ~reported => m.rule = before.rule
    /\ phase = "running" /\ pc <= 16 => m.rule = before.rule

(* The service.  What was there is restored last, when nothing that the    *)
(* installer has started runs any more; what was not is uninstalled.       *)
ServiceInv ==
    /\ (m.enabled \/ m.active) => m.unit
    /\ (before.enabled \/ before.active) => before.unit
    /\ Active /\ before.unit => m.unit
    /\ On(stack, "restore_service", "service") => before.unit
    /\ On(stack, "uninstall", "service") => ~before.unit
    /\ Active /\ ~before.unit /\ ~On(stack, "uninstall", "service") /\ ~reported => ~m.unit
    /\ (Active /\ before.unit /\ ~On(stack, "restore_service", "service")
        /\ ~reported /\ quiet = {})
          => m.enabled = before.enabled /\ m.active = before.active
    /\ Active /\ ~On(stack, "stop", "service") /\ ~reported /\ m.active => before.active
    /\ On(stack, "stop", "service") /\ before.unit => On(stack, "restore_service", "service")
    /\ phase = "running" /\ pc > 1 /\ before.unit => On(stack, "restore_service", "service")
    /\ phase = "running" /\ pc > 17 => On(stack, "stop", "service") /\ m.unit

(* The agent_id. *)
IdInv ==
    /\ ~fresh /\ HasId(m.file["conf"]) => ident[Source(m.file["conf"])] = 0
    /\ ~fresh /\ Active => /\ HasId(before.file["conf"]) /\ ~regen
                           /\ ident[Source(before.file["conf"])] = 0
    /\ ~fresh /\ phase = "running" /\ pc > 6 => ident[run] = 0

InstallerIInv ==
    /\ TypeOK /\ RunInv
    /\ \A f \in Files : FileInv(f)
    /\ \A d \in Dirs : DirInv(d)
    /\ Nested /\ UserInv /\ RuleInv /\ ServiceInv /\ IdInv /\ Restored

-----------------------------------------------------------------------------
(***************************************************************************)
(* What each command does, in terms of the invariant                       *)
(***************************************************************************)
Kept == /\ before' = before /\ run' = run /\ regen' = regen /\ fresh' = fresh
        /\ firewall' = firewall

(* A command of the program that goes well, and one that fails. *)
Goes  == /\ phase = "running" /\ phase' = "running" /\ pc' = pc + 1
         /\ Kept /\ reported' = reported /\ failures' = failures
Fails == /\ phase = "running" /\ phase' = "rolling" /\ pc' = pc
         /\ Kept /\ reported' = reported /\ failures' \in 0..MaxFailures

(* A rollback command, whose failure may be reported. *)
Undoes(cmd, arg) ==
    /\ phase = "rolling" /\ phase' = "rolling" /\ pc' = pc
    /\ Kept /\ backup' = backup /\ ident' = ident
    /\ reported' = reported \/ reported' = TRUE
    /\ failures' \in 0..MaxFailures
    /\ On(stack, cmd, arg) /\ Pops(cmd, arg)

FilesKept   == m'.file = m.file
DirsKept    == m'.dir = m.dir
UserKept    == m'.user = m.user
RuleKept    == m'.rule = m.rule
ServiceKept == m'.unit = m.unit /\ m'.enabled = m.enabled /\ m'.active = m.active
NotesKept   == backup' = backup /\ quiet' = quiet /\ ident' = ident

(* What a file may be. *)
LEMMA ContentsAre ==
    /\ Versions \subseteq Contents /\ None \in Contents /\ Torn \in Contents
    /\ run \in 0..MaxRuns => run \in Contents
    /\ NoBackup \in [Files -> Contents]
BY DEF Contents, NoBackup, Versions

(* A part of a file has the agent_id of the file, if it has one. *)
LEMMA PartsIs ==
    ASSUME NEW f, NEW c \in Contents
    PROVE  /\ Parts(f, c) \subseteq Contents
           /\ \A p \in Parts(f, c) : HasId(p) => HasId(c) /\ Source(p) = Source(c)
           /\ HasId(c) => Source(c) \in Versions
           /\ c \in Versions => HasId(c) /\ Source(c) = c
           /\ ~HasId(c) <=> c \in {None, Torn}
<1>1. \A v \in Versions : /\ Cut(v) \notin Versions /\ Cut(Cut(v)) = v
                          /\ Cut(v) # None /\ Cut(v) # Torn
  BY InstallerAssumption DEF Cut, Versions, None, Torn
<1>2. None \notin Versions /\ Torn \notin Versions
  BY DEF None, Torn, Versions
<1>3. /\ ~HasId(None) /\ ~HasId(Torn) /\ None \in Contents /\ Torn \in Contents
      /\ \A v \in Versions : /\ HasId(v) /\ HasId(Cut(v)) /\ Cut(v) \in Contents
                            /\ Source(v) = v /\ Source(Cut(v)) = v
  BY <1>1, <1>2 DEF HasId, Source, Cuts, Contents
<1>4. (\E v \in Versions : c = v \/ c = Cut(v)) \/ c \in {None, Torn}
  BY DEF Contents, Cuts
<1>5. HasId(c) => Source(c) \in Versions
  BY <1>3, <1>4
<1>6. c \in Versions => HasId(c) /\ Source(c) = c
  BY <1>3
<1>7. ~HasId(c) <=> c \in {None, Torn}
  BY <1>3, <1>4
<1>8. ASSUME NEW p \in Parts(f, c)
      PROVE  p \in Contents /\ (HasId(p) => HasId(c) /\ Source(p) = Source(c))
  <2>1. p = Torn \/ (HasId(c) /\ p = Cut(Source(c)))
    BY DEF Parts
  <2> QED BY <1>3, <1>5, <2>1
<1> QED BY <1>5, <1>6, <1>7, <1>8

(* The machine with another version of a file. *)
LEMMA FileChanged ==
    ASSUME m \in Machines, NEW f \in Files, NEW v \in Contents
    PROVE  /\ WithFile(f, v) \in Machines
           /\ WithFile(f, v).file = [m.file EXCEPT ![f] = v]
           /\ WithFile(f, v).dir = m.dir /\ WithFile(f, v).user = m.user
           /\ WithFile(f, v).rule = m.rule /\ WithFile(f, v).unit = m.unit
           /\ WithFile(f, v).enabled = m.enabled /\ WithFile(f, v).active = m.active
BY DEF WithFile, Machines

(* The machine with a directory made or changed. *)
LEMMA DirChanged ==
    ASSUME m \in Machines, NEW d \in Dirs, NEW v \in {"absent", "was", "set"}
    PROVE  /\ WithDir(d, v) \in Machines
           /\ WithDir(d, v).dir = [m.dir EXCEPT ![d] = v]
           /\ WithDir(d, v).file = m.file /\ WithDir(d, v).user = m.user
           /\ WithDir(d, v).rule = m.rule /\ WithDir(d, v).unit = m.unit
           /\ WithDir(d, v).enabled = m.enabled /\ WithDir(d, v).active = m.active
BY DEF WithDir, Machines

(* A command of install.sh goes well or fails: what both come to. *)
LEMMA CommandRuns ==
    ASSUME TypeOK, RunInv, NEW c, NEW a, At(c, a), NEW done, NEW left, NEW b, NEW e,
           Command(done, left, b, e)
    PROVE  /\ pc \in 1..19
           /\ \/ Goes /\ m' = done /\ stack' = stack \o b \o e
              \/ Fails /\ m' \in left /\ stack' = stack \o b
<1>1. phase = "running" /\ pc \in 1..19
  BY ProgramIs DEF At, TypeOK, RunInv
<1>2. pc' = pc + 1 /\ UNCHANGED <<phase, failures>> /\ UNCHANGED <<runVars, reported>> => Goes
  BY <1>1 DEF Goes, Kept, runVars
<1>3. Failure /\ phase' = "rolling" /\ UNCHANGED pc /\ UNCHANGED <<runVars, reported>> => Fails
  BY <1>1, InstallerAssumption DEF Fails, Kept, runVars, Failure, TypeOK
<1> QED BY <1>1, <1>2, <1>3 DEF Command

(* A command that pushes nothing. *)
LEMMA PushesNone ==
    ASSUME TypeOK, RunInv
    PROVE  /\ stack \o << >> = stack /\ stack \o << >> \o << >> = stack
           /\ stack' = stack => Stacked
<1>1. stack \in Seq(UndoCommands) /\ ServiceLast(stack)
  BY DEF TypeOK, RunInv
<1>2. stack \o << >> = stack
  BY <1>1, ConcatEmptySeq
<1> QED BY <1>1, <1>2 DEF Stacked

(* A command that pushes one rollback command, before or after its work.   *)
LEMMA PushesOne ==
    ASSUME TypeOK, RunInv, NEW c, NEW a, <<c, a>> \in UndoCommands,
           c = "restore_service" => stack = << >>,
           \/ stack' = stack \o << <<c, a>> >>
           \/ stack' = stack \o << <<c, a>> >> \o << >>
           \/ stack' = stack \o << >> \o << <<c, a>> >>
    PROVE  Pushes(c, a) /\ Stacked
<1>1. stack \in Seq(UndoCommands) /\ ServiceLast(stack)
  BY DEF TypeOK, RunInv
<1>2. stack \o << >> = stack
  BY <1>1, ConcatEmptySeq
<1>4. stack \o << <<c, a>> >> \in Seq(UndoCommands)
  BY <1>1
<1>5. (stack \o << <<c, a>> >>) \o << >> = stack \o << <<c, a>> >>
  BY <1>4, ConcatEmptySeq
<1>6. stack' = stack \o << <<c, a>> >>
  BY <1>2, <1>5
<1> QED BY <1>1, <1>6, OnePushed

(* The three kinds of commands: without a rollback command, with one that  *)
(* is pushed before the work, and with one that is pushed after it.        *)
LEMMA CommandPlain ==
    ASSUME TypeOK, RunInv, NEW c, NEW a, At(c, a), NEW done, NEW left,
           Command(done, left, << >>, << >>)
    PROVE  /\ (Goes /\ m' = done) \/ (Fails /\ m' \in left)
           /\ stack' = stack /\ Stacked
<1> DEFINE none == << >>
<1>1. Command(done, left, none, none)
  OBVIOUS
<1> HIDE DEF none
<1>2. \/ Goes /\ m' = done /\ stack' = stack \o none \o none
      \/ Fails /\ m' \in left /\ stack' = stack \o none
  BY <1>1, CommandRuns
<1>3. stack \o none = stack
  BY PushesNone DEF none
<1>4. stack' = stack
  BY <1>2, <1>3
<1> QED BY <1>2, <1>4, PushesNone

LEMMA CommandBefore ==
    ASSUME TypeOK, RunInv, NEW c, NEW a, At(c, a), NEW done, NEW left,
           NEW x, NEW y, <<x, y>> \in UndoCommands, x = "restore_service" => stack = << >>,
           Command(done, left, << <<x, y>> >>, << >>)
    PROVE  /\ (Goes /\ m' = done) \/ (Fails /\ m' \in left)
           /\ Pushes(x, y) /\ Stacked
<1> DEFINE none == << >>  one == << <<x, y>> >>
<1>1. Command(done, left, one, none)
  OBVIOUS
<1> HIDE DEF none, one
<1>2. \/ Goes /\ m' = done /\ stack' = stack \o one \o none
      \/ Fails /\ m' \in left /\ stack' = stack \o one
  BY <1>1, CommandRuns
<1>3. Pushes(x, y) /\ Stacked
  <2>1. stack' = stack \o << <<x, y>> >> \o << >> \/ stack' = stack \o << <<x, y>> >>
    BY <1>2 DEF none, one
  <2> QED BY <2>1, PushesOne, Zenon
<1> QED BY <1>2, <1>3

LEMMA CommandAfter ==
    ASSUME TypeOK, RunInv, NEW c, NEW a, At(c, a), NEW done, NEW left,
           NEW x, NEW y, <<x, y>> \in UndoCommands, x # "restore_service",
           Command(done, left, << >>, << <<x, y>> >>)
    PROVE  /\ \/ Goes /\ m' = done /\ Pushes(x, y)
              \/ Fails /\ m' \in left /\ stack' = stack
           /\ Stacked
<1> DEFINE none == << >>  one == << <<x, y>> >>
<1>1. Command(done, left, none, one)
  OBVIOUS
<1> HIDE DEF none, one
<1>2. \/ Goes /\ m' = done /\ stack' = stack \o none \o one
      \/ Fails /\ m' \in left /\ stack' = stack \o none
  BY <1>1, CommandRuns
<1>3. CASE Goes /\ m' = done /\ stack' = stack \o none \o one
  <2>1. stack' = stack \o << >> \o << <<x, y>> >>
    BY <1>3 DEF none, one
  <2> QED BY <1>3, <2>1, PushesOne, Zenon
<1>4. CASE Fails /\ m' \in left /\ stack' = stack \o none
  <2>1. stack' = stack
    BY <1>4, PushesNone DEF none
  <2> QED BY <1>4, <2>1, PushesNone
<1> QED BY <1>2, <1>3, <1>4

(* StopService: restore_service is on the stack before the service stops.  *)
LEMMA StopEffect ==
    ASSUME TypeOK, RunInv, StopService
    PROVE  /\ pc = 1 /\ (Goes \/ Fails)
           /\ m' \in Machines /\ Stacked /\ NotesKept
           /\ FilesKept /\ DirsKept /\ UserKept /\ RuleKept
           /\ m'.unit = m.unit /\ m'.enabled = m.enabled /\ (m'.active => m.active)
           /\ \/ before.unit /\ Pushes("restore_service", "service")
              \/ ~before.unit /\ stack' = stack /\ m' = m
<1>1. pc = 1 /\ stack = << >> /\ At("stop", "service")
  BY WhichCommand, ProgramIs DEF StopService, RunInv, TypeOK, At
<1>2. m \in Machines /\ before \in Machines /\ NotesKept
  BY DEF TypeOK, StopService, NotesKept
<1>3. CASE before.unit
  <2> DEFINE off == [m EXCEPT !.active = FALSE]
  <2>1. Command(off, {m, off}, << <<"restore_service", "service">> >>, << >>)
    BY <1>3 DEF StopService
  <2>2. /\ Goes \/ Fails
        /\ m' \in {m, off} /\ Pushes("restore_service", "service") /\ Stacked
    <3> HIDE DEF off
    <3> QED BY <1>1, <2>1, CommandBefore, Undos
  <2> QED BY <1>1, <1>2, <1>3, <2>2 DEF Machines, FilesKept, DirsKept, UserKept, RuleKept
<1>4. CASE ~before.unit
  <2>1. Command(m, {}, << >>, << >>)
    BY <1>4 DEF StopService
  <2>2. Goes /\ m' = m /\ stack' = stack /\ Stacked
    BY <1>1, <2>1, CommandPlain
  <2> QED BY <1>1, <1>2, <1>4, <2>2 DEF FilesKept, DirsKept, UserKept, RuleKept
<1> QED BY <1>3, <1>4

(* MakeBackup, TestAgent and AgentId leave the machine alone. *)
LEMMA IdleEffect ==
    ASSUME TypeOK, RunInv, MakeBackup \/ TestAgent \/ AgentId
    PROVE  /\ \/ MakeBackup /\ pc = 2 /\ ident' = ident
              \/ TestAgent /\ pc = 18 /\ ident' = ident
              \/ AgentId /\ pc = 6
           /\ Goes \/ Fails
           /\ m' = m /\ stack' = stack /\ Stacked /\ backup' = backup /\ quiet' = quiet
<1>1. Command(m, {m}, << >>, << >>) /\ backup' = backup /\ quiet' = quiet
  BY DEF MakeBackup, TestAgent, AgentId
<1>2. pc \in Nat /\ (phase = "running" => pc >= 1)
  BY DEF TypeOK, RunInv
<1>3. \/ MakeBackup /\ pc = 2 /\ ident' = ident /\ At("mktemp", "backup")
      \/ TestAgent /\ pc = 18 /\ ident' = ident /\ At("test", "bin")
      \/ AgentId /\ pc = 6 /\ At("agent_id", "conf")
  <2>1. CASE MakeBackup
    BY <1>2, <2>1, WhichCommand DEF MakeBackup, At
  <2>2. CASE TestAgent
    BY <1>2, <2>2, WhichCommand DEF TestAgent, At
  <2>3. CASE AgentId
    BY <1>2, <2>3, WhichCommand DEF AgentId, At
  <2> QED BY <2>1, <2>2, <2>3
<1>4. PICK c, a : At(c, a)
  BY <1>3
<1>5. /\ Goes \/ Fails
      /\ m' = m /\ stack' = stack /\ Stacked
  BY <1>1, <1>4, CommandPlain
<1> QED BY <1>1, <1>3, <1>5

(* AddUser: userdel is pushed only after the account has been made. *)
LEMMA UserEffect ==
    ASSUME TypeOK, RunInv, AddUser
    PROVE  /\ pc = 3 /\ (Goes \/ Fails)
           /\ m' \in Machines /\ Stacked /\ backup' = backup /\ ident' = ident
           /\ FilesKept /\ DirsKept /\ RuleKept /\ ServiceKept
           /\ \/ stack' = stack /\ UserKept /\ quiet' = quiet
              \/ ~m.user /\ Goes /\ Pushes("userdel", "user") /\ quiet' = quiet
              \/ ~m.user /\ Fails /\ stack' = stack /\ quiet' = quiet \cup {"user"}
<1>1. pc = 3 /\ At("useradd", "user") /\ backup' = backup /\ ident' = ident
  BY WhichCommand DEF AddUser, RunInv, TypeOK, At
<1>2. m \in Machines
  BY DEF TypeOK
<1>3. CASE m.user
  <2>1. Command(m, {}, << >>, << >>) /\ quiet' = quiet
    BY <1>3 DEF AddUser
  <2>2. Goes /\ m' = m /\ stack' = stack /\ Stacked
    BY <1>1, <2>1, CommandPlain
  <2> QED BY <1>1, <1>2, <2>1, <2>2 DEF FilesKept, DirsKept, UserKept, RuleKept, ServiceKept
<1>4. CASE ~m.user
  <2> DEFINE on == [m EXCEPT !.user = TRUE]
  <2>1. /\ Command(on, {m, on}, << >>, << <<"userdel", "user">> >>)
        /\ quiet' = IF phase' = "rolling" /\ m'.user THEN quiet \cup {"user"} ELSE quiet
    BY <1>4 DEF AddUser
  <2>2. /\ \/ Goes /\ m' = on /\ Pushes("userdel", "user")
           \/ Fails /\ m' \in {m, on} /\ stack' = stack
        /\ Stacked
    <3> HIDE DEF on
    <3> QED BY <1>1, <2>1, CommandAfter, Undos
  <2>3. Goes => quiet' = quiet
    BY <2>1 DEF Goes
  <2>4. Fails => quiet' = IF m'.user THEN quiet \cup {"user"} ELSE quiet
    BY <2>1 DEF Fails
  <2>5. m' = m \/ m' = on
    BY <2>2
  <2>6. m' \in Machines /\ FilesKept /\ DirsKept /\ RuleKept /\ ServiceKept
    BY <1>2, <2>5 DEF Machines, FilesKept, DirsKept, RuleKept, ServiceKept
  <2>7. m' = m => ~m'.user /\ UserKept
    BY <1>4 DEF UserKept
  <2>8. m' = on => m'.user = TRUE
    BY <1>2 DEF Machines
  <2> HIDE DEF on
  <2> QED BY <1>1, <1>4, <2>2, <2>3, <2>4, <2>5, <2>6, <2>7, <2>8
<1> QED BY <1>3, <1>4

(* Snapshot: the file is in the backup, or noted as absent, before a       *)
(* command of the rollback says so.                                        *)
LEMMA SnapshotEffect ==
    ASSUME TypeOK, RunInv, NEW f \in Files, Snapshot(f)
    PROVE  /\ pc = SnapAt(f) /\ (Goes \/ Fails)
           /\ m' = m /\ Stacked /\ quiet' = quiet /\ ident' = ident
           /\ backup' \in [Files -> Contents]
           /\ \A g \in Files \ {f} : backup'[g] = backup[g]
           /\ \/ m.file[f] = None /\ Goes /\ Pushes("remove", f)
              \/ m.file[f] # None /\ Goes /\ Pushes("restore", f) /\ backup'[f] = m.file[f]
              \/ m.file[f] # None /\ Fails /\ stack' = stack
<1>1. pc = SnapAt(f) /\ At("snapshot", f) /\ quiet' = quiet /\ ident' = ident
  <2>1. At("snapshot", f) /\ pc \in Nat /\ pc >= 1
    BY DEF Snapshot, RunInv, TypeOK, At
  <2> QED BY <2>1, WhichCommand DEF Snapshot, SnapAt
<1>2. /\ m.file[f] \in Contents
      /\ backup \in [Files -> Contents]
  BY DEF TypeOK, Machines
<1>3. CASE m.file[f] = None
  <2>1. Command(m, {}, << >>, << <<"remove", f>> >>) /\ backup' = backup
    BY <1>3 DEF Snapshot
  <2>2. Goes /\ m' = m /\ Pushes("remove", f) /\ Stacked
    <3> DEFINE left == {}
    <3>1. <<"remove", f>> \in UndoCommands /\ "remove" # "restore_service"
      BY Undos
    <3>2. Command(m, left, << >>, << <<"remove", f>> >>)
      BY <2>1
    <3> HIDE DEF left
    <3>3. /\ (Goes /\ m' = m /\ Pushes("remove", f)) \/ m' \in left
          /\ Stacked
      BY <1>1, <3>1, <3>2, CommandAfter, Zenon
    <3> QED BY <3>3 DEF left
  <2> QED BY <1>1, <1>2, <1>3, <2>1, <2>2
<1>4. CASE m.file[f] # None
  <2>1. /\ Command(m, {m}, << >>, << <<"restore", f>> >>)
        /\ backup' = [backup EXCEPT ![f] = IF phase' = "running" THEN m.file[f] ELSE Torn]
    BY <1>4 DEF Snapshot
  <2>2. /\ \/ Goes /\ Pushes("restore", f)
           \/ Fails /\ stack' = stack
        /\ m' = m /\ Stacked
    <3>1. <<"restore", f>> \in UndoCommands /\ "restore" # "restore_service"
      BY Undos
    <3> DEFINE left == {m}
    <3>2. Command(m, left, << >>, << <<"restore", f>> >>)
      BY <2>1
    <3>3. m' \in left => m' = m
      OBVIOUS
    <3> HIDE DEF left
    <3> QED BY <1>1, <3>1, <3>2, <3>3, CommandAfter, Zenon
  <2>3. Goes => backup'[f] = m.file[f]
    BY <1>2, <2>1 DEF Goes
  <2>4. /\ backup' \in [Files -> Contents]
        /\ \A g \in Files \ {f} : backup'[g] = backup[g]
    BY <1>2, <2>1, ContentsAre
  <2> QED BY <1>1, <1>4, <2>2, <2>3, <2>4
<1> QED BY <1>3, <1>4

(* InstallFile, NotePort and StartService write a file whose snapshot has  *)
(* been made.                                                              *)
Writes(f) ==
    /\ \A g \in Files \ {f} : m'.file[g] = m.file[g]
    /\ m'.file[f] \in {m.file[f], None, run} \cup Parts(f, run)

(* A command that writes a file. *)
LEMMA WriteEffect ==
    ASSUME TypeOK, RunInv, NEW c, NEW a, At(c, a), NEW f \in Files,
           Command(WithFile(f, run), {m} \cup Writing(f), << >>, << >>)
    PROVE  /\ Goes \/ Fails
           /\ m' \in Machines /\ stack' = stack /\ Stacked
           /\ Writes(f) /\ DirsKept /\ UserKept /\ RuleKept /\ ServiceKept
<1> DEFINE done == WithFile(f, run)
           left == {m} \cup Writing(f)
           new == {None, run} \cup Parts(f, run)
<1>1. Command(done, left, << >>, << >>)
  OBVIOUS
<1>2. m' = done \/ m' \in left => m' = m \/ \E v \in new : m' = WithFile(f, v)
  BY DEF Writing
<1> HIDE DEF done, left
<1>3. /\ (Goes /\ m' = done) \/ (Fails /\ m' \in left)
      /\ stack' = stack /\ Stacked
  BY <1>1, CommandPlain
<1>4. m' = m \/ \E v \in new : m' = WithFile(f, v)
  BY <1>2, <1>3
<1>5. m \in Machines /\ run \in Contents /\ new \subseteq Contents
  <2>1. m \in Machines /\ run \in Contents
    BY DEF TypeOK, Versions, Contents
  <2> QED BY <2>1, PartsIs DEF Contents
<1>6. m' \in Machines /\ Writes(f) /\ DirsKept /\ UserKept /\ RuleKept /\ ServiceKept
  <2>1. CASE m' = m
    BY <1>5, <2>1 DEF Writes, DirsKept, UserKept, RuleKept, ServiceKept
  <2>2. ASSUME NEW v \in new, m' = WithFile(f, v)
        PROVE  m' \in Machines /\ Writes(f) /\ DirsKept /\ UserKept /\ RuleKept /\ ServiceKept
    <3>1. v \in Contents
      BY <1>5
    <3>2. m.file \in [Files -> Contents]
      BY <1>5 DEF Machines
    <3>3. m'.file = [m.file EXCEPT ![f] = v]
      BY <1>5, <2>2, <3>1, FileChanged
    <3>4. Writes(f)
      BY <3>2, <3>3 DEF Writes
    <3> QED BY <1>5, <2>2, <3>1, <3>4, FileChanged DEF DirsKept, UserKept, RuleKept, ServiceKept
  <2> QED BY <1>4, <2>1, <2>2
<1> QED BY <1>3, <1>6

LEMMA InstallEffect ==
    ASSUME TypeOK, RunInv, NEW f \in Files, InstallFile(f)
    PROVE  /\ (f = "bin" /\ pc = 5) \/ (f = "conf" /\ pc = 11)
           /\ Goes \/ Fails
           /\ m' \in Machines /\ stack' = stack /\ Stacked /\ NotesKept
           /\ Writes(f) /\ DirsKept /\ UserKept /\ RuleKept /\ ServiceKept
<1>1. At("install", f) /\ pc \in Nat /\ pc >= 1 /\ NotesKept
  BY DEF InstallFile, RunInv, TypeOK, At, NotesKept
<1>2. (f = "bin" /\ pc = 5) \/ (f = "conf" /\ pc = 11)
  BY <1>1, WhichCommand
<1>3. Command(WithFile(f, run), {m} \cup Writing(f), << >>, << >>)
  BY DEF InstallFile
<1> QED BY <1>1, <1>2, <1>3, WriteEffect

LEMMA NoteEffect ==
    ASSUME TypeOK, RunInv, NotePort
    PROVE  /\ pc = 15 /\ (Goes \/ Fails)
           /\ m' \in Machines /\ stack' = stack /\ Stacked /\ NotesKept
           /\ Writes("ports") /\ DirsKept /\ UserKept /\ RuleKept /\ ServiceKept
<1>1. At("firewall", "ports") /\ pc \in Nat /\ pc >= 1 /\ NotesKept /\ m \in Machines
  BY DEF NotePort, RunInv, TypeOK, At, NotesKept
<1>2. pc = 15 /\ "ports" \in Files
  BY <1>1, WhichCommand DEF Files
<1>3. CASE firewall
  <2>1. Command(WithFile("ports", run), {m} \cup Writing("ports"), << >>, << >>)
    BY <1>3 DEF NotePort
  <2> QED BY <1>1, <1>2, <2>1, WriteEffect
<1>4. CASE ~firewall
  <2>1. Command(m, {}, << >>, << >>)
    BY <1>4 DEF NotePort
  <2>2. Goes /\ m' = m /\ stack' = stack /\ Stacked
    BY <1>1, <2>1, CommandPlain
  <2> QED BY <1>1, <1>2, <2>2 DEF Writes, DirsKept, UserKept, RuleKept, ServiceKept
<1> QED BY <1>3, <1>4

LEMMA StartEffect ==
    ASSUME TypeOK, RunInv, StartService
    PROVE  /\ pc = 19 /\ (Goes \/ Fails)
           /\ m' \in Machines /\ stack' = stack /\ Stacked /\ NotesKept
           /\ Writes("status") /\ DirsKept /\ UserKept /\ RuleKept
           /\ m'.unit = m.unit /\ m'.enabled = m.enabled
<1>1. At("start", "service") /\ pc \in Nat /\ pc >= 1 /\ NotesKept /\ m \in Machines
  BY DEF StartService, RunInv, TypeOK, At, NotesKept
<1>2. pc = 19 /\ "status" \in Files /\ run \in Versions
  BY <1>1, WhichCommand DEF Files, TypeOK, Versions
<1> DEFINE w == WithFile("status", run)  left == {m, Started, w}
<1>3. Command(Started, left, << >>, << >>)
  BY DEF StartService
<1>4. /\ Goes \/ Fails
      /\ m' = Started \/ m' \in left
      /\ stack' = stack /\ Stacked
  <2> HIDE DEF left
  <2> QED BY <1>1, <1>3, CommandPlain
<1>5. m' = m \/ m' = w \/ m' = [w EXCEPT !.active = TRUE]
  BY <1>4 DEF Started
<1>6. /\ w \in Machines /\ w.file = [m.file EXCEPT !["status"] = run]
      /\ w.dir = m.dir /\ w.user = m.user /\ w.rule = m.rule
      /\ w.unit = m.unit /\ w.enabled = m.enabled
  BY <1>1, <1>2, ContentsAre, FileChanged
<1> HIDE DEF w
<1>7. /\ m' \in Machines /\ DirsKept /\ UserKept /\ RuleKept
      /\ m'.unit = m.unit /\ m'.enabled = m.enabled
      /\ m'.file = m.file \/ m'.file = [m.file EXCEPT !["status"] = run]
  <2>1. CASE m' = m
    BY <1>1, <2>1 DEF DirsKept, UserKept, RuleKept
  <2>2. CASE m' = w
    BY <1>6, <2>2 DEF DirsKept, UserKept, RuleKept
  <2>3. CASE m' = [w EXCEPT !.active = TRUE]
    <3>1. /\ m' \in Machines /\ m'.file = w.file /\ m'.dir = w.dir /\ m'.user = w.user
          /\ m'.rule = w.rule /\ m'.unit = w.unit /\ m'.enabled = w.enabled
      BY <1>6, <2>3 DEF Machines
    <3> QED BY <1>6, <3>1 DEF DirsKept, UserKept, RuleKept
  <2> QED BY <1>5, <2>1, <2>2, <2>3
<1>8. Writes("status")
  <2>1. m.file \in [Files -> Contents]
    BY <1>1 DEF Machines
  <2> QED BY <1>2, <1>7, <2>1 DEF Writes
<1> QED BY <1>1, <1>2, <1>4, <1>7, <1>8

(* MakeDir: the rollback command, which depends on whether the directory   *)
(* was there, is pushed first.                                             *)
LEMMA DirEffect ==
    ASSUME TypeOK, RunInv, NEW d \in Dirs, MakeDir(d)
    PROVE  /\ pc = DirAt(d) /\ (Goes \/ Fails)
           /\ m' \in Machines /\ Stacked /\ NotesKept
           /\ \A e \in Dirs \ {d} : m'.dir[e] = m.dir[e]
           /\ m'.dir[d] = m.dir[d] \/ m'.dir[d] = "set"
           /\ Goes => m'.dir[d] = "set"
           /\ FilesKept /\ UserKept /\ RuleKept /\ ServiceKept
           /\ \/ m.dir[d] # "absent" /\ Pushes("perms", d)
              \/ m.dir[d] = "absent" /\ Pushes("rmdir", d)
              \/ m.dir[d] = "absent" /\ Pushes("rm-rf", d)
<1>1. At("dir", d) /\ pc \in Nat /\ pc >= 1 /\ NotesKept /\ m \in Machines
  BY DEF MakeDir, RunInv, TypeOK, At, NotesKept
<1>2. pc = DirAt(d)
  BY <1>1, WhichCommand DEF DirAt
<1> DEFINE w == WithDir(d, "set")  left == {m, w}
           undo == IF m.dir[d] # "absent" THEN "perms" ELSE IF d = "conf" THEN "rmdir" ELSE "rm-rf"
<1>3. Command(w, left, << <<undo, d>> >>, << >>)
  BY DEF MakeDir
<1>4. <<undo, d>> \in UndoCommands /\ undo # "restore_service"
  BY Undos
<1>5. m' \in left => m' = m \/ m' = w
  OBVIOUS
<1>6. /\ w \in Machines /\ w.dir = [m.dir EXCEPT ![d] = "set"]
      /\ w.file = m.file /\ w.user = m.user /\ w.rule = m.rule
      /\ w.unit = m.unit /\ w.enabled = m.enabled /\ w.active = m.active
  BY <1>1, DirChanged
<1>7. \/ m.dir[d] # "absent" /\ undo = "perms"
      \/ m.dir[d] = "absent" /\ undo = "rmdir"
      \/ m.dir[d] = "absent" /\ undo = "rm-rf"
  OBVIOUS
<1> HIDE DEF w, left, undo
<1>8. /\ (Goes /\ m' = w) \/ (Fails /\ m' \in left)
      /\ Pushes(undo, d) /\ Stacked
  BY <1>1, <1>3, <1>4, CommandBefore, Zenon
<1>9. m' = m \/ m' = w
  BY <1>5, <1>8
<1>10. m.dir \in [Dirs -> {"absent", "was", "set"}]
  BY <1>1 DEF Machines
<1>11. /\ m' \in Machines /\ FilesKept /\ UserKept /\ RuleKept /\ ServiceKept
       /\ m'.dir = m.dir \/ m'.dir = [m.dir EXCEPT ![d] = "set"]
  BY <1>1, <1>6, <1>9 DEF FilesKept, UserKept, RuleKept, ServiceKept
<1>12. /\ \A e \in Dirs \ {d} : m'.dir[e] = m.dir[e]
       /\ m'.dir[d] = m.dir[d] \/ m'.dir[d] = "set"
  BY <1>10, <1>11
<1>13. Goes => m'.dir[d] = "set"
  <2>1. Goes => m' = w
    BY <1>8 DEF Goes, Fails
  <2> QED BY <2>1, <1>6, <1>10
<1>14. \/ m.dir[d] # "absent" /\ Pushes("perms", d)
       \/ m.dir[d] = "absent" /\ Pushes("rmdir", d)
       \/ m.dir[d] = "absent" /\ Pushes("rm-rf", d)
  BY <1>7, <1>8
<1> QED BY <1>1, <1>2, <1>8, <1>11, <1>12, <1>13, <1>14

(* OpenPort *)
LEMMA RuleEffect ==
    ASSUME TypeOK, RunInv, OpenPort
    PROVE  /\ pc = 16 /\ (Goes \/ Fails)
           /\ m' \in Machines /\ Stacked /\ NotesKept
           /\ FilesKept /\ DirsKept /\ UserKept /\ ServiceKept
           /\ \/ ~m.rule /\ Pushes("close", "rule")
              \/ RuleKept /\ stack' = stack
<1>1. At("firewall", "rule") /\ pc \in Nat /\ pc >= 1 /\ NotesKept /\ m \in Machines
  BY DEF OpenPort, RunInv, TypeOK, At, NotesKept
<1>2. pc = 16
  BY <1>1, WhichCommand
<1>3. CASE firewall /\ ~m.rule
  <2> DEFINE w == [m EXCEPT !.rule = TRUE]  left == {m, w}
  <2>1. Command(w, left, << <<"close", "rule">> >>, << >>)
    BY <1>3 DEF OpenPort
  <2>2. m' \in left => m' = m \/ m' = w
    OBVIOUS
  <2>3. <<"close", "rule">> \in UndoCommands /\ "close" # "restore_service"
    BY Undos
  <2>4. /\ Goes \/ Fails
        /\ m' = w \/ m' \in left
        /\ Pushes("close", "rule") /\ Stacked
    <3> HIDE DEF w, left
    <3> QED BY <1>1, <2>1, <2>3, CommandBefore, Zenon
  <2> QED BY <1>1, <1>2, <1>3, <2>2, <2>4 DEF Machines, FilesKept, DirsKept, UserKept, ServiceKept
<1>4. CASE ~(firewall /\ ~m.rule)
  <2>1. Command(m, {}, << >>, << >>)
    BY <1>4 DEF OpenPort
  <2>2. Goes /\ m' = m /\ stack' = stack /\ Stacked
    BY <1>1, <2>1, CommandPlain
  <2> QED BY <1>1, <1>2, <2>2 DEF FilesKept, DirsKept, UserKept, RuleKept, ServiceKept
<1> QED BY <1>3, <1>4

(* Register: a service that was there is enabled; another is made, with    *)
(* its removal on the stack before.                                        *)
LEMMA RegisterEffect ==
    ASSUME TypeOK, RunInv, Register
    PROVE  /\ pc = 17 /\ (Goes \/ Fails)
           /\ m' \in Machines /\ Stacked /\ NotesKept
           /\ FilesKept /\ DirsKept /\ UserKept /\ RuleKept /\ m'.active = m.active
           /\ \/ before.unit /\ m'.unit = m.unit /\ Goes /\ Pushes("stop", "service")
              \/ before.unit /\ m'.unit = m.unit /\ Fails /\ stack' = stack
              \/ /\ ~before.unit /\ Goes /\ m'.unit = TRUE
                 /\ \A x, y : On(stack', x, y) <=>
                        (On(stack, x, y) \/ (x \in {"uninstall", "stop"} /\ y = "service"))
              \/ ~before.unit /\ Fails /\ (m' = m \/ m'.unit = TRUE)
                 /\ Pushes("uninstall", "service")
<1>1. At("register", "service") /\ pc \in Nat /\ pc >= 1 /\ NotesKept /\ m \in Machines
  BY DEF Register, RunInv, TypeOK, At, NotesKept
<1>2. pc = 17
  BY <1>1, WhichCommand
<1>3. /\ <<"stop", "service">> \in UndoCommands /\ "stop" # "restore_service"
      /\ <<"uninstall", "service">> \in UndoCommands /\ "uninstall" # "restore_service"
  BY Undos
<1>4. CASE before.unit
  <2> DEFINE w == [m EXCEPT !.enabled = TRUE]  left == {m, w}
  <2>1. Command(w, left, << >>, << <<"stop", "service">> >>)
    BY <1>4 DEF Register
  <2>2. m' \in left => m' = m \/ m' = w
    OBVIOUS
  <2>3. /\ \/ Goes /\ m' = w /\ Pushes("stop", "service")
           \/ Fails /\ m' \in left /\ stack' = stack
        /\ Stacked
    <3> HIDE DEF w, left
    <3> QED BY <1>1, <1>3, <2>1, CommandAfter, Zenon
  <2>4. m' = m \/ m' = w
    <3> HIDE DEF w, left
    <3> QED BY <2>2, <2>3
  <2>5. /\ m' \in Machines /\ FilesKept /\ DirsKept /\ UserKept /\ RuleKept
        /\ m'.active = m.active /\ m'.unit = m.unit
    BY <1>1, <2>4 DEF Machines, FilesKept, DirsKept, UserKept, RuleKept
  <2> HIDE DEF w, left
  <2> QED BY <1>1, <1>2, <1>4, <2>3, <2>5
<1>5. CASE ~before.unit
  <2> DEFINE u == [m EXCEPT !.unit = TRUE]  left == {m, u, Registered}
             one == << <<"uninstall", "service">> >>  two == << <<"stop", "service">> >>
  <2>1. Command(Registered, left, one, two)
    BY <1>5 DEF Register
  <2>2. m' \in left => m' = m \/ m' = u \/ m' = Registered
    OBVIOUS
  <2>3. \/ Goes /\ m' = Registered /\ stack' = stack \o one \o two
        \/ Fails /\ m' \in left /\ stack' = stack \o one
    <3> HIDE DEF left, one, two
    <3> QED BY <1>1, <2>1, CommandRuns
  <2>4. stack \in Seq(UndoCommands) /\ ServiceLast(stack)
    BY DEF TypeOK, RunInv
  <2>5. CASE Goes /\ m' = Registered /\ stack' = stack \o one \o two
    <3> DEFINE s == stack \o one
    <3>1. s = stack \o << <<"uninstall", "service">> >> /\ stack' = s \o << <<"stop", "service">> >>
      BY <2>5
    <3> HIDE DEF s, one, two
    <3>2. /\ Extends(s, stack, "uninstall", "service")
          /\ s \in Seq(UndoCommands) /\ ServiceLast(s)
      BY <1>3, <2>4, <3>1, OnAppended, Zenon
    <3>3. /\ Extends(stack', s, "stop", "service")
          /\ stack' \in Seq(UndoCommands) /\ ServiceLast(stack')
      BY <1>3, <3>1, <3>2, OnAppended, Zenon
    <3>4. \A x, y : On(stack', x, y) <=>
              (On(stack, x, y) \/ (x \in {"uninstall", "stop"} /\ y = "service"))
      BY <3>2, <3>3 DEF Extends
    <3>5. /\ m' \in Machines /\ FilesKept /\ DirsKept /\ UserKept /\ RuleKept
          /\ m'.active = m.active /\ m'.unit = TRUE
      BY <1>1, <2>5 DEF Registered, Machines, FilesKept, DirsKept, UserKept, RuleKept
    <3> QED BY <1>1, <1>2, <1>5, <2>5, <3>3, <3>4, <3>5 DEF Stacked
  <2>6. CASE Fails /\ m' \in left /\ stack' = stack \o one
    <3>1. Pushes("uninstall", "service") /\ Stacked
      BY <1>3, <2>4, <2>6, OnePushed, Zenon
    <3>2. m' = m \/ m' = u \/ m' = Registered
      BY <2>2, <2>6
    <3>3. /\ m' \in Machines /\ FilesKept /\ DirsKept /\ UserKept /\ RuleKept
          /\ m'.active = m.active /\ (m' = m \/ m'.unit = TRUE)
      BY <1>1, <3>2 DEF Registered, Machines, FilesKept, DirsKept, UserKept, RuleKept
    <3> HIDE DEF u, left, one
    <3> QED BY <1>1, <1>2, <1>5, <2>6, <3>1, <3>3
  <2> QED BY <2>3, <2>5, <2>6
<1> QED BY <1>4, <1>5

-----------------------------------------------------------------------------
(***************************************************************************)
(* What each command of the rollback does                                  *)
(***************************************************************************)

(* A rollback command goes well, or a failure is reported. *)
LEMMA UndoRuns ==
    ASSUME TypeOK, RunInv, NEW c, NEW a, Undoing(c, a), NEW p, NEW done, NEW left,
           Undo(p, done, left)
    PROVE  /\ Undoes(c, a) /\ Stacked
           /\ \/ p /\ m' = done /\ reported' = reported
              \/ (m' = m \/ m' \in left) /\ reported' = TRUE
           /\ c = "restore_service" /\ a = "service" => \A x, y : ~On(stack', x, y)
<1>1. stack \in Seq(UndoCommands) /\ ServiceLast(stack) /\ stack' = Popped
  BY DEF TypeOK, RunInv, Undo
<1>2. /\ On(stack, c, a) /\ Pops(c, a) /\ Stacked
      /\ c = "restore_service" /\ a = "service" => \A x, y : ~On(stack', x, y)
  BY <1>1, OnePopped
<1>3. \/ p /\ m' = done /\ reported' = reported /\ failures' = failures
      \/ m' = m /\ reported' = TRUE /\ failures' = failures
      \/ Failure /\ m' \in left /\ reported' = TRUE
  BY DEF Undo
<1>4. failures' \in 0..MaxFailures
  BY <1>3, InstallerAssumption DEF TypeOK, Failure
<1>5. phase = "rolling" /\ phase' = phase /\ pc' = pc /\ Kept /\ backup' = backup /\ ident' = ident
  BY DEF Undo, Undoing, runVars, Kept
<1>6. Undoes(c, a)
  BY <1>2, <1>3, <1>4, <1>5 DEF Undoes
<1> QED BY <1>2, <1>3, <1>6

(* UndoStop: the service does not run, or that is reported. *)
LEMMA UndoStopEffect ==
    ASSUME TypeOK, RunInv, UndoStop
    PROVE  /\ Undoes("stop", "service") /\ m' \in Machines /\ Stacked /\ quiet' = quiet
           /\ FilesKept /\ DirsKept /\ UserKept /\ RuleKept
           /\ m'.unit = m.unit /\ m'.enabled = m.enabled
           /\ m'.active = FALSE \/ (m'.active = m.active /\ reported' = TRUE)
<1> DEFINE w == [m EXCEPT !.active = FALSE]  left == {m}
<1>1. /\ Undoing("stop", "service") /\ Undo(TRUE, w, left) /\ quiet' = quiet
      /\ (m' \in left => m' = m) /\ m \in Machines
  BY DEF UndoStop, TypeOK
<1>2. /\ Undoes("stop", "service") /\ Stacked
      /\ m' = w \/ (m' = m /\ reported' = TRUE)
  <2> HIDE DEF w, left
  <2> QED BY <1>1, UndoRuns
<1> QED BY <1>1, <1>2 DEF Machines, FilesKept, DirsKept, UserKept, RuleKept

(* UndoRegister: the unit is gone, or that is reported. *)
LEMMA UndoRegisterEffect ==
    ASSUME TypeOK, RunInv, UndoRegister
    PROVE  /\ Undoes("uninstall", "service") /\ m' \in Machines /\ Stacked /\ quiet' = quiet
           /\ FilesKept /\ DirsKept /\ UserKept /\ RuleKept
           /\ \/ ~m'.unit /\ ~m'.enabled /\ ~m'.active
              \/ reported' = TRUE /\ (m' = m \/ (~m'.enabled /\ ~m'.active))
<1> DEFINE w == [m EXCEPT !.enabled = FALSE, !.active = FALSE]  left == {m, w, Unregistered}
           p == m.unit => m.file["bin"] = run
<1>1. /\ Undoing("uninstall", "service") /\ Undo(p, Unregistered, left) /\ quiet' = quiet
      /\ (m' \in left => m' = m \/ m' = w \/ m' = Unregistered) /\ m \in Machines
  BY DEF UndoRegister, TypeOK
<1>2. /\ Undoes("uninstall", "service") /\ Stacked
      /\ m' = Unregistered \/ (m' = m /\ reported' = TRUE) \/ (m' = w /\ reported' = TRUE)
  <2> HIDE DEF w, left, p
  <2> QED BY <1>1, UndoRuns
<1>3. CASE m' = Unregistered
  BY <1>1, <1>2, <1>3 DEF Unregistered, Machines, FilesKept, DirsKept, UserKept, RuleKept
<1>4. CASE m' = m /\ reported' = TRUE
  BY <1>1, <1>2, <1>4 DEF FilesKept, DirsKept, UserKept, RuleKept
<1>5. CASE m' = w /\ reported' = TRUE
  BY <1>1, <1>2, <1>5 DEF Machines, FilesKept, DirsKept, UserKept, RuleKept
<1> QED BY <1>2, <1>3, <1>4, <1>5

(* UndoRule: the rule is gone, or that is reported. *)
LEMMA UndoRuleEffect ==
    ASSUME TypeOK, RunInv, UndoRule
    PROVE  /\ Undoes("close", "rule") /\ m' \in Machines /\ Stacked /\ quiet' = quiet
           /\ FilesKept /\ DirsKept /\ UserKept /\ ServiceKept
           /\ m'.rule = FALSE \/ reported' = TRUE
<1> DEFINE w == [m EXCEPT !.rule = FALSE]  left == {m, w}
<1>1. /\ Undoing("close", "rule") /\ Undo(TRUE, w, left) /\ quiet' = quiet
      /\ (m' \in left => m' = m \/ m' = w) /\ m \in Machines
  BY DEF UndoRule, TypeOK
<1>2. /\ Undoes("close", "rule") /\ Stacked
      /\ m' = w \/ (m' = m /\ reported' = TRUE)
  <2> HIDE DEF w, left
  <2> QED BY <1>1, UndoRuns
<1> QED BY <1>1, <1>2 DEF Machines, FilesKept, DirsKept, UserKept, ServiceKept

(* UndoUser: the account is gone, or that is reported. *)
LEMMA UndoUserEffect ==
    ASSUME TypeOK, RunInv, UndoUser
    PROVE  /\ Undoes("userdel", "user") /\ m' \in Machines /\ Stacked /\ quiet' = quiet
           /\ FilesKept /\ DirsKept /\ RuleKept /\ ServiceKept
           /\ m'.user = FALSE \/ reported' = TRUE
<1> DEFINE w == [m EXCEPT !.user = FALSE]  left == {m}  p == ~m.active
<1>1. /\ Undoing("userdel", "user") /\ Undo(p, w, left) /\ quiet' = quiet
      /\ (m' \in left => m' = m) /\ m \in Machines
  BY DEF UndoUser, TypeOK
<1>2. /\ Undoes("userdel", "user") /\ Stacked
      /\ m' = w \/ (m' = m /\ reported' = TRUE)
  <2> HIDE DEF w, left, p
  <2> QED BY <1>1, UndoRuns
<1> QED BY <1>1, <1>2 DEF Machines, FilesKept, DirsKept, RuleKept, ServiceKept

(* UndoService: the service is as it was, unless a failure is reported or  *)
(* is one that the script does not see.  Nothing is left on the stack.     *)
LEMMA UndoServiceEffect ==
    ASSUME TypeOK, RunInv, UndoService
    PROVE  /\ Undoes("restore_service", "service") /\ m' \in Machines /\ Stacked
           /\ FilesKept /\ DirsKept /\ UserKept /\ RuleKept /\ m'.unit = m.unit
           /\ \A x, y : ~On(stack', x, y)
           /\ m'.active => m.active \/ before.active
           /\ m'.enabled => m.enabled \/ before.enabled
           /\ \/ /\ quiet' = quiet /\ m'.enabled = before.enabled
                 /\ m'.active = (before.active \/ m.active)
              \/ quiet' = quiet /\ reported' = TRUE
              \/ quiet' = quiet \cup {"enable"}
<1> DEFINE r(enabled) == [m EXCEPT !.enabled = enabled, !.active = before.active \/ @]
           w == r(before.enabled)  v == [m EXCEPT !.enabled = before.enabled]  left == {v, m}
           q == r(m.enabled)
<1>1. m \in Machines /\ before \in Machines /\ Undoing("restore_service", "service")
  BY DEF UndoService, TypeOK
<1>2. CASE Undo(TRUE, w, left) /\ quiet' = quiet
  <2>1. m' \in left => m' = m \/ m' = v
    OBVIOUS
  <2>2. /\ Undoes("restore_service", "service") /\ Stacked /\ \A x, y : ~On(stack', x, y)
        /\ m' = w \/ (m' = m /\ reported' = TRUE) \/ (m' = v /\ reported' = TRUE)
    <3> HIDE DEF r, w, v, left
    <3> QED BY <1>1, <1>2, <2>1, UndoRuns
  <2>3. CASE m' = w
    BY <1>1, <1>2, <2>2, <2>3 DEF Machines, FilesKept, DirsKept, UserKept, RuleKept
  <2>4. CASE m' = m /\ reported' = TRUE
    BY <1>1, <1>2, <2>2, <2>4 DEF FilesKept, DirsKept, UserKept, RuleKept
  <2>5. CASE m' = v /\ reported' = TRUE
    BY <1>1, <1>2, <2>2, <2>5 DEF Machines, FilesKept, DirsKept, UserKept, RuleKept
  <2> HIDE DEF r, w, v, left
  <2> QED BY <2>2, <2>3, <2>4, <2>5
<1>3. CASE /\ Failure
           /\ m' = q /\ stack' = Popped /\ quiet' = quiet \cup {"enable"}
           /\ UNCHANGED <<runVars, phase, pc, backup, reported, ident>>
  <2>1. stack \in Seq(UndoCommands) /\ ServiceLast(stack) /\ stack' = Popped
    BY <1>3 DEF TypeOK, RunInv
  <2>2. /\ On(stack, "restore_service", "service") /\ Pops("restore_service", "service")
        /\ Stacked /\ \A x, y : ~On(stack', x, y)
    BY <1>1, <2>1, OnePopped
  <2>3. failures' \in 0..MaxFailures
    BY <1>3, InstallerAssumption DEF TypeOK, Failure
  <2>4. Undoes("restore_service", "service")
    BY <1>1, <1>3, <2>2, <2>3 DEF Undoes, Undoing, Kept, runVars
  <2>5. /\ m' \in Machines /\ FilesKept /\ DirsKept /\ UserKept /\ RuleKept /\ m'.unit = m.unit
        /\ m'.active => m.active \/ before.active
        /\ m'.enabled = m.enabled
    BY <1>1, <1>3 DEF Machines, FilesKept, DirsKept, UserKept, RuleKept
  <2> HIDE DEF r, q
  <2> QED BY <1>3, <2>2, <2>4, <2>5
<1> QED BY <1>2, <1>3 DEF UndoService

(* UndoDir: a directory that was made is gone with what is in it, or that  *)
(* is reported.                                                            *)
LEMMA UndoDirEffect ==
    ASSUME TypeOK, RunInv, NEW d \in Dirs, UndoDir(d)
    PROVE  /\ Undoes("rm-rf", d) /\ m' \in Machines /\ Stacked /\ quiet' = quiet
           /\ FilesKept /\ UserKept /\ RuleKept /\ ServiceKept
           /\ \/ \A e \in Dirs : m'.dir[e] = IF e = d \/ (d = "data" /\ e = "spool")
                                             THEN "absent" ELSE m.dir[e]
              \/ DirsKept /\ reported' = TRUE
<1> DEFINE w == [m EXCEPT !.dir = [e \in Dirs |-> IF e = d \/ (d = "data" /\ e = "spool")
                                                  THEN "absent" ELSE @[e]]]
           left == {m}
<1>1. /\ Undoing("rm-rf", d) /\ Undo(TRUE, w, left) /\ quiet' = quiet
      /\ (m' \in left => m' = m) /\ m \in Machines
  BY DEF UndoDir, TypeOK
<1>2. /\ Undoes("rm-rf", d) /\ Stacked
      /\ m' = w \/ (m' = m /\ reported' = TRUE)
  <2> HIDE DEF w, left
  <2> QED BY <1>1, UndoRuns
<1>3. CASE m' = w
  <2>1. /\ m' \in Machines /\ FilesKept /\ UserKept /\ RuleKept /\ ServiceKept
        /\ m'.dir = [e \in Dirs |-> IF e = d \/ (d = "data" /\ e = "spool")
                                    THEN "absent" ELSE m.dir[e]]
    BY <1>1, <1>3 DEF Machines, FilesKept, UserKept, RuleKept, ServiceKept
  <2> HIDE DEF w
  <2> QED BY <1>1, <1>2, <2>1
<1>4. CASE m' = m /\ reported' = TRUE
  BY <1>1, <1>2, <1>4 DEF FilesKept, DirsKept, UserKept, RuleKept, ServiceKept
<1> QED BY <1>2, <1>3, <1>4

(* UndoConfDir *)
LEMMA UndoConfDirEffect ==
    ASSUME TypeOK, RunInv, UndoConfDir
    PROVE  /\ Undoes("rmdir", "conf") /\ m' \in Machines /\ Stacked /\ quiet' = quiet
           /\ FilesKept /\ UserKept /\ RuleKept /\ ServiceKept
           /\ \A e \in Dirs \ {"conf"} : m'.dir[e] = m.dir[e]
           /\ m'.dir["conf"] = "absent" \/ (DirsKept /\ reported' = TRUE)
<1> DEFINE w == WithDir("conf", "absent")  left == {m}
           p == \A f \in {"conf", "status", "ports"} : m.file[f] = None
<1>1. /\ Undoing("rmdir", "conf") /\ Undo(p, w, left) /\ quiet' = quiet
      /\ (m' \in left => m' = m) /\ m \in Machines
  BY DEF UndoConfDir, TypeOK
<1>2. /\ Undoes("rmdir", "conf") /\ Stacked
      /\ m' = w \/ (m' = m /\ reported' = TRUE)
  <2> HIDE DEF w, left, p
  <2> QED BY <1>1, UndoRuns
<1>3. "conf" \in Dirs /\ m.dir \in [Dirs -> {"absent", "was", "set"}]
  BY <1>1 DEF Dirs, Machines
<1>4. CASE m' = w
  <2>1. /\ m' \in Machines /\ FilesKept /\ UserKept /\ RuleKept /\ ServiceKept
        /\ m'.dir = [m.dir EXCEPT !["conf"] = "absent"]
    BY <1>1, <1>3, <1>4, DirChanged DEF FilesKept, UserKept, RuleKept, ServiceKept
  <2> HIDE DEF w
  <2> QED BY <1>1, <1>2, <1>3, <2>1
<1>5. CASE m' = m /\ reported' = TRUE
  BY <1>1, <1>2, <1>5 DEF FilesKept, DirsKept, UserKept, RuleKept, ServiceKept
<1> QED BY <1>2, <1>4, <1>5

(* UndoPerms: owner and mode are as they were, or a failure is reported,   *)
(* or it is one that the script does not see.                              *)
LEMMA UndoPermsEffect ==
    ASSUME TypeOK, RunInv, NEW d \in Dirs, UndoPerms(d)
    PROVE  /\ Undoes("perms", d) /\ m' \in Machines /\ Stacked
           /\ FilesKept /\ UserKept /\ RuleKept /\ ServiceKept
           /\ \A e \in Dirs \ {d} : m'.dir[e] = m.dir[e]
           /\ \/ m'.dir[d] = before.dir[d] /\ quiet' = quiet
              \/ DirsKept /\ reported' = TRUE /\ quiet' = quiet
              \/ DirsKept /\ quiet' = quiet \cup {"chmod"}
<1> DEFINE w == WithDir(d, before.dir[d])  left == {m}  p == m.dir[d] # "absent"
<1>1. m \in Machines /\ Undoing("perms", d) /\ before.dir[d] \in {"absent", "was", "set"}
  BY DEF UndoPerms, TypeOK, Machines
<1>2. CASE Undo(p, w, left) /\ quiet' = quiet
  <2>1. m' \in left => m' = m
    OBVIOUS
  <2>2. /\ Undoes("perms", d) /\ Stacked
        /\ m' = w \/ (m' = m /\ reported' = TRUE)
    <3> HIDE DEF w, left, p
    <3> QED BY <1>1, <1>2, <2>1, UndoRuns
  <2>3. CASE m' = w
    <3>1. /\ m' \in Machines /\ FilesKept /\ UserKept /\ RuleKept /\ ServiceKept
          /\ m'.dir = [m.dir EXCEPT ![d] = before.dir[d]]
      BY <1>1, <2>3, DirChanged DEF FilesKept, UserKept, RuleKept, ServiceKept
    <3>2. m.dir \in [Dirs -> {"absent", "was", "set"}]
      BY <1>1 DEF Machines
    <3> HIDE DEF w
    <3> QED BY <1>2, <2>2, <3>1, <3>2
  <2>4. CASE m' = m /\ reported' = TRUE
    BY <1>1, <1>2, <2>2, <2>4 DEF FilesKept, DirsKept, UserKept, RuleKept, ServiceKept
  <2> QED BY <2>2, <2>3, <2>4
<1>3. CASE /\ Failure
           /\ stack' = Popped /\ quiet' = quiet \cup {"chmod"}
           /\ UNCHANGED <<m, runVars, phase, pc, backup, reported, ident>>
  <2>1. stack \in Seq(UndoCommands) /\ ServiceLast(stack) /\ stack' = Popped
    BY <1>3 DEF TypeOK, RunInv
  <2>2. On(stack, "perms", d) /\ Pops("perms", d) /\ Stacked
    BY <1>1, <2>1, OnePopped
  <2>3. failures' \in 0..MaxFailures
    BY <1>3, InstallerAssumption DEF TypeOK, Failure
  <2>4. Undoes("perms", d)
    BY <1>1, <1>3, <2>2, <2>3 DEF Undoes, Undoing, Kept, runVars
  <2> QED BY <1>1, <1>3, <2>2, <2>4 DEF FilesKept, DirsKept, UserKept, RuleKept, ServiceKept
<1> QED BY <1>2, <1>3 DEF UndoPerms

(* UndoWrite: the file is as it was, or a failure is reported. *)
LEMMA UndoWriteEffect ==
    ASSUME TypeOK, RunInv, NEW f \in Files, UndoWrite(f)
    PROVE  /\ m' \in Machines /\ Stacked /\ quiet' = quiet
           /\ DirsKept /\ UserKept /\ RuleKept /\ ServiceKept
           /\ \A g \in Files \ {f} : m'.file[g] = m.file[g]
           /\ \/ /\ Undoes("restore", f)
                 /\ \/ m'.file[f] = backup[f]
                    \/ m'.file[f] \in {m.file[f]} \cup Parts(f, backup[f]) /\ reported' = TRUE
              \/ /\ Undoes("remove", f)
                 /\ \/ m'.file[f] = None
                    \/ m'.file[f] = m.file[f] /\ reported' = TRUE
<1> DEFINE R == WithFile(f, backup[f])  N == WithFile(f, None)
           part == Parts(f, backup[f])
           leftR == {m} \cup {WithFile(f, v) : v \in part}  leftN == {m}
<1>1. /\ m \in Machines /\ quiet' = quiet /\ backup[f] \in Contents
      /\ m.file \in [Files -> Contents]
  BY DEF UndoWrite, TypeOK, Machines
<1>a. None \in Contents /\ part \subseteq Contents
  BY <1>1, PartsIs DEF Contents
<1>2. /\ m' \in leftR => m' = m \/ \E v \in part : m' = WithFile(f, v)
      /\ m' \in leftN => m' = m
  OBVIOUS
<1>3. ASSUME NEW v \in Contents, m' = WithFile(f, v)
      PROVE  /\ m' \in Machines /\ DirsKept /\ UserKept /\ RuleKept /\ ServiceKept
             /\ \A g \in Files \ {f} : m'.file[g] = m.file[g]
             /\ m'.file[f] = v
  <2>1. /\ m' \in Machines /\ DirsKept /\ UserKept /\ RuleKept /\ ServiceKept
        /\ m'.file = [m.file EXCEPT ![f] = v]
    BY <1>1, <1>3, FileChanged DEF DirsKept, UserKept, RuleKept, ServiceKept
  <2> QED BY <1>1, <2>1
<1>4. m' = m => DirsKept /\ UserKept /\ RuleKept /\ ServiceKept
  BY DEF DirsKept, UserKept, RuleKept, ServiceKept
<1>5. CASE Undoing("restore", f) /\ Undo(TRUE, R, leftR)
  <2>1. /\ Undoes("restore", f) /\ Stacked
        /\ \/ m' = R
           \/ m' = m /\ reported' = TRUE
           \/ (\E v \in part : m' = WithFile(f, v)) /\ reported' = TRUE
    <3> HIDE DEF R, part, leftR
    <3> QED BY <1>2, <1>5, UndoRuns
  <2>2. CASE m' = R
    BY <1>1, <1>3, <2>1, <2>2
  <2>3. CASE (\E v \in part : m' = WithFile(f, v)) /\ reported' = TRUE
    <3>1. PICK v \in part : m' = WithFile(f, v)
      BY <2>3
    <3> HIDE DEF R, N, part, leftR, leftN
    <3>2. /\ m' \in Machines /\ DirsKept /\ UserKept /\ RuleKept /\ ServiceKept
          /\ \A g \in Files \ {f} : m'.file[g] = m.file[g]
          /\ m'.file[f] = v
      BY <1>a, <1>3, <3>1
    <3>3. m'.file[f] \in {m.file[f]} \cup part
      BY <3>2
    <3> QED BY <1>1, <2>1, <2>3, <3>2, <3>3 DEF part
  <2>4. CASE m' = m /\ reported' = TRUE
    BY <1>1, <1>4, <2>1, <2>4
  <2> QED BY <2>1, <2>2, <2>3, <2>4
<1>6. CASE Undoing("remove", f) /\ Undo(TRUE, N, leftN)
  <2>1. /\ Undoes("remove", f) /\ Stacked
        /\ m' = N \/ (m' = m /\ reported' = TRUE)
    <3> HIDE DEF N, leftN
    <3> QED BY <1>2, <1>6, UndoRuns
  <2>2. CASE m' = N
    <3>1. m' = WithFile(f, None)
      BY <2>2
    <3> HIDE DEF R, N, part, leftR, leftN
    <3>2. /\ m' \in Machines /\ DirsKept /\ UserKept /\ RuleKept /\ ServiceKept
          /\ \A g \in Files \ {f} : m'.file[g] = m.file[g]
          /\ m'.file[f] = None
      BY <1>a, <1>3, <3>1
    <3> QED BY <1>1, <2>1, <3>2
  <2>3. CASE m' = m /\ reported' = TRUE
    BY <1>1, <1>4, <2>1, <2>3
  <2> QED BY <2>1, <2>2, <2>3
<1> QED BY <1>5, <1>6 DEF UndoWrite

-----------------------------------------------------------------------------
(***************************************************************************)
(* What a step leaves alone                                                *)
(***************************************************************************)

(* A step of the program or of the rollback. *)
Rolls == /\ phase = "rolling" /\ phase' = "rolling" /\ pc' = pc
         /\ Kept /\ backup' = backup /\ ident' = ident /\ failures' \in 0..MaxFailures
         /\ reported' = reported \/ reported' = TRUE
Moves == (Goes \/ Fails \/ Rolls) /\ quiet \subseteq quiet'

(* It has nothing to do with the files, the directories, the account, the  *)
(* rule or the service, or with the commands that restore them.            *)
FilesFrame ==
    /\ FilesKept /\ backup' = backup /\ (Goes => pc \notin {4, 8, 9, 10})
    /\ \A f : /\ On(stack', "restore", f) <=> On(stack, "restore", f)
              /\ On(stack', "remove", f) <=> On(stack, "remove", f)
DirsFrame ==
    /\ DirsKept /\ (Goes => pc \notin {7, 12, 13, 14})
    /\ \A d : /\ On(stack', "perms", d) <=> On(stack, "perms", d)
              /\ On(stack', "rm-rf", d) <=> On(stack, "rm-rf", d)
              /\ On(stack', "rmdir", d) <=> On(stack, "rmdir", d)
UserFrame ==
    /\ UserKept /\ (Goes => pc # 3)
    /\ On(stack', "userdel", "user") <=> On(stack, "userdel", "user")
RuleFrame ==
    /\ RuleKept /\ (Goes => pc # 16)
    /\ On(stack', "close", "rule") <=> On(stack, "close", "rule")
ServiceFrame ==
    /\ ServiceKept /\ (Goes => pc \notin {1, 17})
    /\ On(stack', "stop", "service") <=> On(stack, "stop", "service")
    /\ On(stack', "uninstall", "service") <=> On(stack, "uninstall", "service")
    /\ On(stack', "restore_service", "service") <=> On(stack, "restore_service", "service")

(* The commands that are about files. *)
LEMMA FileCommands ==
    ASSUME TypeOK, RunInv, NEW f \in Files,
           Snapshot(f) \/ InstallFile(f) \/ NotePort \/ UndoWrite(f)
    PROVE  /\ Moves /\ DirsFrame /\ UserFrame /\ RuleFrame /\ ServiceFrame
           /\ m' \in Machines /\ Stacked /\ quiet' = quiet
<1> USE DEF Moves, DirsFrame, UserFrame, RuleFrame, ServiceFrame
<1>1. CASE Snapshot(f)
  <2>1. m \in Machines /\ m' = m /\ pc \in {4, 8, 9, 10}
    BY <1>1, SnapshotEffect DEF TypeOK, SnapAt
  <2> QED BY <1>1, <2>1, SnapshotEffect
          DEF Pushes, Extends, DirsKept, UserKept, RuleKept, ServiceKept
<1>2. CASE InstallFile(f)
  BY <1>2, InstallEffect DEF NotesKept
<1>3. CASE NotePort
  BY <1>3, NoteEffect DEF NotesKept
<1>4. CASE UndoWrite(f)
  <2>1. PICK c \in {"restore", "remove"} : Undoes(c, f)
    BY <1>4, UndoWriteEffect
  <2>2. Rolls /\ Pops(c, f)
    BY <2>1 DEF Undoes, Rolls
  <2>3. ~Goes
    BY <2>2 DEF Rolls, Goes
  <2>4. \A x, y : x # c => (On(stack', x, y) <=> On(stack, x, y))
    BY <2>2 DEF Pops
  <2>5. m' \in Machines /\ Stacked /\ quiet' = quiet /\ DirsKept /\ UserKept /\ RuleKept /\ ServiceKept
    BY <1>4, UndoWriteEffect
  <2> QED BY <2>1, <2>2, <2>3, <2>4, <2>5
<1> QED BY <1>1, <1>2, <1>3, <1>4

(* The commands that are about directories. *)
LEMMA DirCommands ==
    ASSUME TypeOK, RunInv, NEW d \in Dirs,
           MakeDir(d) \/ UndoDir(d) \/ UndoConfDir \/ UndoPerms(d)
    PROVE  /\ Moves /\ FilesFrame /\ UserFrame /\ RuleFrame /\ ServiceFrame
           /\ m' \in Machines /\ Stacked /\ ident' = ident
<1> USE DEF Moves, FilesFrame, UserFrame, RuleFrame, ServiceFrame
<1>1. CASE MakeDir(d)
  <2>1. pc \in {7, 12, 13, 14}
    BY <1>1, DirEffect DEF DirAt
  <2> QED BY <1>1, <2>1, DirEffect DEF Pushes, Extends, NotesKept
<1>2. CASE UndoDir(d)
  <2>1. Rolls /\ Pops("rm-rf", d) /\ ~Goes
    BY <1>2, UndoDirEffect DEF Undoes, Rolls, Goes
  <2>2. \A x, y : x # "rm-rf" => (On(stack', x, y) <=> On(stack, x, y))
    BY <2>1 DEF Pops
  <2>3. /\ m' \in Machines /\ Stacked /\ quiet \subseteq quiet'
        /\ FilesKept /\ UserKept /\ RuleKept /\ ServiceKept
    BY <1>2, UndoDirEffect
  <2>4. ident' = ident /\ backup' = backup
    BY <2>1 DEF Rolls
  <2> QED BY <2>1, <2>2, <2>3, <2>4
<1>3. CASE UndoConfDir
  <2>1. Rolls /\ Pops("rmdir", "conf") /\ ~Goes
    BY <1>3, UndoConfDirEffect DEF Undoes, Rolls, Goes
  <2> QED BY <1>3, <2>1, UndoConfDirEffect DEF Pops, Rolls
<1>4. CASE UndoPerms(d)
  <2>1. Rolls /\ Pops("perms", d) /\ ~Goes
    BY <1>4, UndoPermsEffect DEF Undoes, Rolls, Goes
  <2>2. \A x, y : x # "perms" => (On(stack', x, y) <=> On(stack, x, y))
    BY <2>1 DEF Pops
  <2>3. /\ m' \in Machines /\ Stacked /\ quiet \subseteq quiet'
        /\ FilesKept /\ UserKept /\ RuleKept /\ ServiceKept
    BY <1>4, UndoPermsEffect
  <2>4. ident' = ident /\ backup' = backup
    BY <2>1 DEF Rolls
  <2> QED BY <2>1, <2>2, <2>3, <2>4
<1> QED BY <1>1, <1>2, <1>3, <1>4

(* The commands that are about the account. *)
LEMMA UserCommands ==
    ASSUME TypeOK, RunInv, AddUser \/ UndoUser
    PROVE  /\ Moves /\ FilesFrame /\ DirsFrame /\ RuleFrame /\ ServiceFrame
           /\ m' \in Machines /\ Stacked /\ ident' = ident
<1> USE DEF Moves, FilesFrame, DirsFrame, RuleFrame, ServiceFrame
<1>1. CASE AddUser
  BY <1>1, UserEffect DEF Pushes, Extends
<1>2. CASE UndoUser
  <2>1. Rolls /\ Pops("userdel", "user") /\ ~Goes
    BY <1>2, UndoUserEffect DEF Undoes, Rolls, Goes
  <2> QED BY <1>2, <2>1, UndoUserEffect DEF Pops, Rolls
<1> QED BY <1>1, <1>2

(* The commands that are about the rule. *)
LEMMA RuleCommands ==
    ASSUME TypeOK, RunInv, OpenPort \/ UndoRule
    PROVE  /\ Moves /\ FilesFrame /\ DirsFrame /\ UserFrame /\ ServiceFrame
           /\ m' \in Machines /\ Stacked /\ ident' = ident
<1> USE DEF Moves, FilesFrame, DirsFrame, UserFrame, ServiceFrame
<1>1. CASE OpenPort
  BY <1>1, RuleEffect DEF Pushes, Extends, NotesKept
<1>2. CASE UndoRule
  <2>1. Rolls /\ Pops("close", "rule") /\ ~Goes
    BY <1>2, UndoRuleEffect DEF Undoes, Rolls, Goes
  <2> QED BY <1>2, <2>1, UndoRuleEffect DEF Pops, Rolls
<1> QED BY <1>1, <1>2

(* The commands that are about the service. *)
LEMMA ServiceCommands ==
    ASSUME TypeOK, RunInv,
           StopService \/ Register \/ UndoStop \/ UndoRegister \/ UndoService
    PROVE  /\ Moves /\ FilesFrame /\ DirsFrame /\ UserFrame /\ RuleFrame
           /\ m' \in Machines /\ Stacked /\ ident' = ident
<1> USE DEF Moves, FilesFrame, DirsFrame, UserFrame, RuleFrame
<1>1. CASE StopService
  BY <1>1, StopEffect DEF Pushes, Extends, NotesKept
<1>2. CASE Register
  <2>1. \A x, y : x \notin {"stop", "uninstall"} => (On(stack', x, y) <=> On(stack, x, y))
    BY <1>2, RegisterEffect DEF Pushes, Extends
  <2>2. /\ pc = 17 /\ (Goes \/ Fails) /\ m' \in Machines /\ Stacked
        /\ FilesKept /\ DirsKept /\ UserKept /\ RuleKept
        /\ backup' = backup /\ ident' = ident /\ quiet' = quiet
    BY <1>2, RegisterEffect DEF NotesKept
  <2> QED BY <2>1, <2>2
<1>3. CASE UndoStop
  <2>1. Rolls /\ Pops("stop", "service") /\ ~Goes
    BY <1>3, UndoStopEffect DEF Undoes, Rolls, Goes
  <2> QED BY <1>3, <2>1, UndoStopEffect DEF Pops, Rolls
<1>4. CASE UndoRegister
  <2>1. Rolls /\ Pops("uninstall", "service") /\ ~Goes
    BY <1>4, UndoRegisterEffect DEF Undoes, Rolls, Goes
  <2> QED BY <1>4, <2>1, UndoRegisterEffect DEF Pops, Rolls
<1>5. CASE UndoService
  <2>1. Rolls /\ Pops("restore_service", "service") /\ ~Goes
    BY <1>5, UndoServiceEffect DEF Undoes, Rolls, Goes
  <2> QED BY <1>5, <2>1, UndoServiceEffect DEF Pops, Rolls
<1> QED BY <1>1, <1>2, <1>3, <1>4, <1>5

(* The commands that change nothing of the machine, and the start of the   *)
(* service, which also writes a file.                                      *)
LEMMA OtherCommands ==
    ASSUME TypeOK, RunInv, MakeBackup \/ TestAgent \/ AgentId \/ StartService
    PROVE  /\ Moves /\ DirsFrame /\ UserFrame /\ RuleFrame
           /\ MakeBackup \/ TestAgent \/ AgentId => FilesFrame /\ ServiceFrame
           /\ m' \in Machines /\ Stacked /\ quiet' = quiet /\ backup' = backup
<1> USE DEF Moves, FilesFrame, DirsFrame, UserFrame, RuleFrame, ServiceFrame
<1>1. CASE MakeBackup \/ TestAgent \/ AgentId
  <2>1. m \in Machines /\ m' = m /\ stack' = stack
    BY <1>1, IdleEffect DEF TypeOK
  <2>2. pc \notin {1, 3, 4, 7, 8, 9, 10, 12, 13, 14, 16, 17}
    BY <1>1, IdleEffect
  <2> QED BY <1>1, <2>1, <2>2, IdleEffect
          DEF FilesKept, DirsKept, UserKept, RuleKept, ServiceKept
<1>2. CASE StartService
  <2>1. ~(MakeBackup \/ TestAgent \/ AgentId)
    BY <1>2, StartEffect, IdleEffect
  <2> QED BY <1>2, <2>1, StartEffect DEF NotesKept
<1> QED BY <1>1, <1>2

-----------------------------------------------------------------------------
(***************************************************************************)
(* The invariant is inductive                                              *)
(***************************************************************************)

(* The steps of a run, and its beginning and end. *)
LEMMA StepCases ==
    ASSUME Next
    PROVE  \/ \E f \in Files : Snapshot(f) \/ InstallFile(f) \/ UndoWrite(f)
           \/ NotePort
           \/ \E d \in Dirs : MakeDir(d) \/ UndoDir(d) \/ UndoPerms(d)
           \/ UndoConfDir
           \/ AddUser \/ UndoUser
           \/ OpenPort \/ UndoRule
           \/ StopService \/ Register \/ UndoStop \/ UndoRegister \/ UndoService
           \/ MakeBackup \/ TestAgent \/ AgentId \/ StartService
           \/ Begin \/ Finish \/ RolledBack \/ Kill
BY Zenon DEF Next

(* Kill and Finish forget the stack and leave the rest as it is. *)
LEMMA StopEnd ==
    ASSUME Kill \/ Finish
    PROVE  /\ phase' \in {"killed", "done"} /\ (phase' = "killed" => Active)
           /\ m' = m /\ Kept /\ pc' = pc /\ reported' = reported /\ quiet' = quiet
           /\ ident' = ident /\ stack' = << >> /\ Stacked
           /\ phase' = "killed" => backup' = backup
           /\ \A x, y : ~On(stack', x, y)
<1>1. stack' = << >> /\ Stacked /\ \A x, y : ~On(stack', x, y)
  BY OnEmpty DEF Kill, Finish, Stacked
<1>2. CASE Kill
  BY <1>1, <1>2 DEF Kill, Active, Kept, runVars
<1>3. CASE Finish
  BY <1>1, <1>3 DEF Finish, Kept, runVars
<1> QED BY <1>2, <1>3

(* The end of the rollback leaves everything but the backup as it is. *)
LEMMA RollEnd ==
    ASSUME RolledBack
    PROVE  /\ phase = "rolling" /\ phase' = "failed" /\ stack = << >> /\ stack' = << >>
           /\ m' = m /\ Kept /\ pc' = pc /\ reported' = reported /\ quiet' = quiet
           /\ ident' = ident /\ Stacked /\ (reported => backup' = backup)
           /\ (~reported => backup' = NoBackup)
           /\ \A x, y : ~On(stack', x, y) /\ ~On(stack, x, y)
<1>1. stack = << >> /\ stack' = << >>
  BY DEF RolledBack
<1>2. Stacked /\ \A x, y : ~On(stack', x, y) /\ ~On(stack, x, y)
  BY <1>1, OnEmpty DEF Stacked
<1> QED BY <1>1, <1>2 DEF RolledBack, Kept, runVars

(* A run begins with an empty stack. *)
LEMMA RunBegins ==
    ASSUME Begin
    PROVE  /\ phase' = "running" /\ pc' = 1 /\ stack' = << >> /\ Stacked
           /\ m' = m /\ before' = m /\ reported' = FALSE /\ quiet' = {} /\ backup' = NoBackup
           /\ \A x, y : ~On(stack', x, y)
BY OnEmpty DEF Begin, Stacked

(* Types. *)
LEMMA TypeStep ==
    ASSUME TypeOK, RunInv, Next
    PROVE  TypeOK' /\ RunInv'
<1>1. CASE Begin
  <2>1. TypeOK'
    <3>1. regen' \in BOOLEAN /\ fresh' \in BOOLEAN
      BY <1>1, Zenon DEF Begin
    <3>2. run' \in 0..MaxRuns
      BY <1>1, InstallerAssumption DEF Begin, TypeOK
    <3>3. backup' \in [Files -> Contents]
      BY <1>1, ContentsAre DEF Begin
    <3>4. firewall' = firewall /\ ident' = ident /\ failures' = failures
      BY <1>1 DEF Begin
    <3>5. pc' \in 0..Len(Program) + 1
      BY <1>1, RunBegins, ProgramIs
    <3> QED BY <1>1, <3>1, <3>2, <3>3, <3>4, <3>5, RunBegins DEF TypeOK, Stacked
  <2>2. RunInv'
    BY <1>1, RunBegins DEF RunInv, Stacked
  <2> QED BY <2>1, <2>2
<1>2. CASE Kill \/ Finish
  <2>1. backup' \in [Files -> Contents] /\ failures' \in 0..MaxFailures
    BY <1>2, InstallerAssumption, ContentsAre DEF TypeOK, Kill, Finish, Failure
  <2>2. TypeOK'
    BY <1>2, <2>1, StopEnd DEF TypeOK, Stacked, Kept
  <2>3. RunInv'
    BY <1>2, StopEnd DEF RunInv, Stacked
  <2> QED BY <2>2, <2>3
<1>3. CASE RolledBack
  <2>1. backup' \in [Files -> Contents] /\ failures' = failures
    BY <1>3, ContentsAre DEF TypeOK, RolledBack
  <2>2. TypeOK'
    BY <1>3, <2>1, RollEnd DEF TypeOK, Stacked, Kept
  <2>3. RunInv'
    BY <1>3, RollEnd DEF RunInv, Stacked
  <2> QED BY <2>2, <2>3
<1>4. ASSUME Moves, m' \in Machines, Stacked, phase' = "running" => pc <= 19 /\ quiet' = quiet,
             backup' \in [Files -> Contents], ident' \in [Versions -> Versions],
             quiet' \subseteq {"user", "chmod", "enable"}
      PROVE  TypeOK' /\ RunInv'
  <2>1. TypeOK'
    <3>1. pc' \in 0..Len(Program) + 1 /\ phase' \in {"running", "rolling"}
      <4>1. pc \in 0..20
        BY ProgramIs DEF TypeOK
      <4>2. \/ phase' = "running" /\ pc' = pc + 1 /\ pc <= 19
            \/ phase' = "rolling" /\ pc' = pc
        BY <1>4 DEF Moves, Goes, Fails, Rolls
      <4>3. pc' \in 0..20 /\ phase' \in {"running", "rolling"}
        BY <4>1, <4>2
      <4> QED BY <4>3, ProgramIs
    <3>2. Kept /\ reported' \in BOOLEAN /\ failures' \in 0..MaxFailures
      BY <1>4 DEF TypeOK, Moves, Goes, Fails, Rolls
    <3> QED BY <1>4, <3>1, <3>2 DEF TypeOK, Stacked, Kept
  <2>2. RunInv'
    BY <1>4 DEF RunInv, Stacked, Moves, Goes, Fails, Rolls, TypeOK
  <2> QED BY <2>1, <2>2
<1> DEFINE Typed == /\ phase' = "running" => pc <= 19 /\ quiet' = quiet
                    /\ backup' \in [Files -> Contents]
                    /\ ident' \in [Versions -> Versions]
                    /\ quiet' \subseteq {"user", "chmod", "enable"}
<1>5. /\ backup \in [Files -> Contents] /\ ident \in [Versions -> Versions]
      /\ quiet \subseteq {"user", "chmod", "enable"} /\ pc \in Nat
  BY DEF TypeOK
<1>6. ASSUME NEW f \in Files, Snapshot(f) \/ InstallFile(f) \/ UndoWrite(f) \/ NotePort
      PROVE  TypeOK' /\ RunInv'
  <2>1. Typed
    <3>1. CASE Snapshot(f)
      BY <1>5, <3>1, SnapshotEffect DEF SnapAt
    <3>2. CASE InstallFile(f)
      <4>1. (pc = 5 \/ pc = 11) /\ NotesKept
        BY <3>2, InstallEffect
      <4> QED BY <1>5, <4>1 DEF NotesKept
    <3>3. CASE UndoWrite(f)
      BY <1>5, <3>3, UndoWriteEffect DEF Undoes
    <3>4. CASE NotePort
      <4>1. pc = 15 /\ NotesKept
        BY <3>4, NoteEffect
      <4> QED BY <1>5, <4>1 DEF NotesKept
    <3> QED BY <1>6, <3>1, <3>2, <3>3, <3>4
  <2>2. Moves /\ m' \in Machines /\ Stacked
    BY <1>6, FileCommands
  <2> QED BY <1>4, <2>1, <2>2
<1>7. ASSUME NEW d \in Dirs, MakeDir(d) \/ UndoDir(d) \/ UndoPerms(d) \/ UndoConfDir
      PROVE  TypeOK' /\ RunInv'
  <2>1. Typed
    <3>1. CASE MakeDir(d)
      BY <1>5, <3>1, DirEffect DEF NotesKept, DirAt
    <3>2. CASE UndoDir(d)
      BY <1>5, <3>2, UndoDirEffect DEF Undoes
    <3>3. CASE UndoPerms(d)
      BY <1>5, <3>3, UndoPermsEffect DEF Undoes
    <3>4. CASE UndoConfDir
      BY <1>5, <3>4, UndoConfDirEffect DEF Undoes
    <3> QED BY <1>7, <3>1, <3>2, <3>3, <3>4
  <2>2. Moves /\ m' \in Machines /\ Stacked
    BY <1>7, DirCommands
  <2> QED BY <1>4, <2>1, <2>2
<1>8. CASE AddUser \/ UndoUser
  <2>1. Typed
    <3>1. CASE AddUser
      <4>1. /\ pc = 3 /\ backup' = backup /\ ident' = ident
            /\ quiet' = quiet \/ (Fails /\ quiet' = quiet \cup {"user"})
        BY <3>1, UserEffect
      <4>2. Fails => phase' # "running"
        BY DEF Fails
      <4>3. quiet' \subseteq {"user", "chmod", "enable"}
        BY <1>5, <4>1
      <4>4. phase' = "running" => quiet' = quiet
        BY <4>1, <4>2
      <4> QED BY <1>5, <4>1, <4>3, <4>4
    <3>2. CASE UndoUser
      BY <1>5, <3>2, UndoUserEffect DEF Undoes
    <3> QED BY <1>8, <3>1, <3>2
  <2>2. Moves /\ m' \in Machines /\ Stacked
    BY <1>8, UserCommands
  <2> QED BY <1>4, <2>1, <2>2
<1>9. CASE OpenPort \/ UndoRule
  <2>1. Typed
    <3>1. CASE OpenPort
      <4>1. pc = 16 /\ NotesKept
        BY <3>1, RuleEffect
      <4> QED BY <1>5, <4>1 DEF NotesKept
    <3>2. CASE UndoRule
      BY <1>5, <3>2, UndoRuleEffect DEF Undoes
    <3> QED BY <1>9, <3>1, <3>2
  <2>2. Moves /\ m' \in Machines /\ Stacked
    BY <1>9, RuleCommands
  <2> QED BY <1>4, <2>1, <2>2
<1>10. CASE StopService \/ Register \/ UndoStop \/ UndoRegister \/ UndoService
  <2>1. Typed
    <3>1. CASE StopService
      <4>1. pc = 1 /\ NotesKept
        BY <3>1, StopEffect
      <4> QED BY <1>5, <4>1 DEF NotesKept
    <3>2. CASE Register
      <4>1. pc = 17 /\ NotesKept
        BY <3>2, RegisterEffect
      <4> QED BY <1>5, <4>1 DEF NotesKept
    <3>3. CASE UndoStop
      BY <1>5, <3>3, UndoStopEffect DEF Undoes
    <3>4. CASE UndoRegister
      BY <1>5, <3>4, UndoRegisterEffect DEF Undoes
    <3>5. CASE UndoService
      BY <1>5, <3>5, UndoServiceEffect DEF Undoes
    <3> QED BY <1>10, <3>1, <3>2, <3>3, <3>4, <3>5
  <2>2. Moves /\ m' \in Machines /\ Stacked
    BY <1>10, ServiceCommands
  <2> QED BY <1>4, <2>1, <2>2
<1>11. CASE MakeBackup \/ TestAgent \/ AgentId \/ StartService
  <2>1. Typed
    <3>1. CASE MakeBackup \/ TestAgent
      <4>1. (pc = 2 \/ pc = 18 \/ pc = 6) /\ backup' = backup /\ quiet' = quiet
        BY <3>1, IdleEffect
      <4>2. ident' = ident
        BY <3>1 DEF MakeBackup, TestAgent
      <4> QED BY <1>5, <4>1, <4>2
    <3>2. CASE AgentId
      <4>1. ident' \in [Versions -> Versions]
        <5>1. HasId(m.file["conf"]) => ident[Source(m.file["conf"])] \in Versions
          <6>1. m.file["conf"] \in Contents
            BY DEF TypeOK, Machines, Files
          <6> QED BY <1>5, <6>1, PartsIs
        <5>2. run \in Versions
          BY DEF TypeOK, Versions
        <5> QED BY <1>5, <3>2, <5>1, <5>2 DEF AgentId
      <4>2. (pc = 2 \/ pc = 18 \/ pc = 6) /\ backup' = backup /\ quiet' = quiet
        BY <3>2, IdleEffect
      <4> QED BY <1>5, <4>1, <4>2
    <3>3. CASE StartService
      <4>1. pc = 19 /\ NotesKept
        BY <3>3, StartEffect
      <4> QED BY <1>5, <4>1 DEF NotesKept
    <3> QED BY <1>11, <3>1, <3>2, <3>3
  <2>2. Moves /\ m' \in Machines /\ Stacked
    BY <1>11, OtherCommands
  <2> QED BY <1>4, <2>1, <2>2
<1>12. Files # {} /\ Dirs # {}
  BY DEF Files, Dirs
<1> QED BY <1>1, <1>2, <1>3, <1>6, <1>7, <1>8, <1>9, <1>10, <1>11, <1>12, StepCases

(* The files: every step but those of FileCommands and StartService leaves *)
(* them alone; a write comes after the snapshot.                           *)
LEMMA FileStep ==
    ASSUME InstallerIInv, TypeOK', Next, NEW f \in Files
    PROVE  FileInv(f)'
<1>1. /\ TypeOK /\ RunInv /\ FileInv(f)
      /\ SnapAt(f) \in {4, 8, 9, 10} /\ pc \in Nat
      /\ m.file[f] \in Contents
  BY DEF InstallerIInv, SnapAt, TypeOK, Machines
<1>2. None \notin Versions /\ Torn \notin Versions /\ None # Torn
  BY DEF None, Torn, Versions
<1>3. CASE Moves /\ FilesFrame
  <2>1. /\ m'.file[f] = m.file[f] /\ before' = before /\ backup' = backup
        /\ On(stack', "restore", f) <=> On(stack, "restore", f)
        /\ On(stack', "remove", f) <=> On(stack, "remove", f)
    BY <1>3 DEF FilesFrame, FilesKept, Moves, Goes, Fails, Rolls, Kept
  <2>2. CASE Goes
    <3>1. /\ pc # SnapAt(f) /\ pc' = pc + 1 /\ phase = "running" /\ phase' = "running"
          /\ reported' = reported
      BY <1>1, <1>3, <2>2 DEF FilesFrame, Goes
    <3>2. (pc' <= SnapAt(f) => pc <= SnapAt(f)) /\ (pc' > SnapAt(f) => pc > SnapAt(f))
      BY <1>1, <3>1
    <3> QED BY <1>1, <2>1, <3>1, <3>2 DEF FileInv, Active
  <2>3. CASE Fails
    BY <1>1, <2>1, <2>3 DEF FileInv, Active, Fails
  <2>4. CASE Rolls
    BY <1>1, <2>1, <2>4 DEF FileInv, Active, Rolls
  <2> QED BY <1>3, <2>2, <2>3, <2>4 DEF Moves
<1>4. ASSUME NEW g \in Files, Snapshot(g)
      PROVE  FileInv(f)'
  <2>1. /\ m' = m /\ before' = before /\ reported' = reported /\ phase = "running" /\ pc = SnapAt(g)
        /\ (phase' = "running" /\ pc' = pc + 1) \/ (phase' = "rolling" /\ pc' = pc)
        /\ \A h \in Files \ {g} : backup'[h] = backup[h]
    BY <1>4, <1>1, SnapshotEffect DEF Goes, Fails, Kept
  <2>2. CASE g = f
    <3>1. m.file[f] = before.file[f] /\ ~On(stack, "restore", f) /\ ~reported
      BY <1>1, <2>1, <2>2 DEF FileInv, RunInv
    <3>2. CASE m.file[f] = None /\ Goes /\ Pushes("remove", f)
      <4>1. /\ On(stack', "remove", f) /\ phase' = "running" /\ pc' = pc + 1
            /\ On(stack', "restore", f) <=> On(stack, "restore", f)
        BY <3>2 DEF Pushes, Extends, Goes
      <4>2. ~On(stack, "restore", f)
        BY <1>1, <3>1, <3>2 DEF FileInv
      <4>3. ~(pc' <= SnapAt(f))
        BY <1>1, <2>1, <2>2, <4>1
      <4> QED BY <1>2, <2>1, <3>1, <3>2, <4>1, <4>2, <4>3 DEF FileInv, Active
    <3>3. CASE m.file[f] # None /\ Goes /\ Pushes("restore", f) /\ backup'[f] = m.file[f]
      <4>1. /\ On(stack', "restore", f) /\ phase' = "running" /\ pc' = pc + 1
            /\ On(stack', "remove", f) <=> On(stack, "remove", f)
        BY <3>3 DEF Pushes, Extends, Goes
      <4>2. ~On(stack, "remove", f)
        BY <1>1, <3>1, <3>3 DEF FileInv
      <4>3. ~(pc' <= SnapAt(f))
        BY <1>1, <2>1, <2>2, <4>1
      <4> QED BY <1>2, <2>1, <3>1, <3>3, <4>1, <4>2, <4>3 DEF FileInv, Active
    <3>4. CASE m.file[f] # None /\ Fails /\ stack' = stack
      <4>1. phase' = "rolling"
        BY <3>4 DEF Fails
      <4> QED BY <1>1, <2>1, <3>1, <3>4, <4>1 DEF FileInv, Active
    <3> QED BY <1>4, <1>1, <2>2, <3>2, <3>3, <3>4, SnapshotEffect
  <2>3. CASE g # f
    <3>1. SnapAt(f) # SnapAt(g) /\ SnapAt(g) \in Nat
      BY <2>3 DEF SnapAt, Files
    <3>2. /\ On(stack', "restore", f) <=> On(stack, "restore", f)
          /\ On(stack', "remove", f) <=> On(stack, "remove", f)
      BY <1>4, <1>1, <2>3, SnapshotEffect DEF Pushes, Extends
    <3>3. backup'[f] = backup[f]
      BY <2>1, <2>3
    <3>4. CASE phase' = "running" /\ pc' = pc + 1
      <4>1. (pc' <= SnapAt(f) => pc <= SnapAt(f)) /\ (pc' > SnapAt(f) => pc > SnapAt(f))
        BY <1>1, <2>1, <3>1, <3>4
      <4> QED BY <1>1, <2>1, <3>2, <3>3, <3>4, <4>1 DEF FileInv, Active
    <3>5. CASE phase' = "rolling" /\ pc' = pc
      BY <1>1, <2>1, <3>2, <3>3, <3>5 DEF FileInv, Active
    <3> QED BY <2>1, <3>4, <3>5
  <2> QED BY <2>2, <2>3
<1>5. ASSUME NEW g \in Files, Writes(g), Goes \/ Fails, pc > SnapAt(g), pc \notin {4, 8, 9, 10},
             stack' = stack, backup' = backup
      PROVE  FileInv(f)'
  <2>1. /\ before' = before /\ reported' = reported /\ phase = "running"
        /\ (phase' = "running" /\ pc' = pc + 1) \/ (phase' = "rolling" /\ pc' = pc)
    BY <1>5 DEF Goes, Fails, Kept
  <2>2. g # f => m'.file[f] = m.file[f]
    BY <1>5 DEF Writes
  <2>3. g = f => On(stack, "restore", f) \/ On(stack, "remove", f)
    BY <1>1, <1>5, <2>1 DEF FileInv
  <2>4. phase' = "running" =>
          (pc' <= SnapAt(f) => pc <= SnapAt(f)) /\ (pc' > SnapAt(f) => pc > SnapAt(f))
    BY <1>1, <1>5, <2>1
  <2>5. g = f /\ phase' = "running" => ~(pc' <= SnapAt(f))
    BY <1>1, <1>5, <2>1
  <2>6. CASE g # f
    BY <1>1, <1>5, <2>1, <2>2, <2>4, <2>6 DEF FileInv, Active
  <2>7. CASE g = f
    BY <1>1, <1>2, <1>5, <2>1, <2>3, <2>4, <2>5, <2>7 DEF FileInv, Active
  <2> QED BY <2>6, <2>7
<1>6. ASSUME NEW g \in Files, UndoWrite(g)
      PROVE  FileInv(f)'
  <2>1. /\ before' = before /\ backup' = backup /\ phase = "rolling" /\ phase' = "rolling"
        /\ reported' = reported \/ reported' = TRUE
    BY <1>6, <1>1, UndoWriteEffect DEF Undoes, Kept
  <2>2. CASE g # f
    <3>1. /\ On(stack', "restore", f) <=> On(stack, "restore", f)
          /\ On(stack', "remove", f) <=> On(stack, "remove", f)
      BY <1>6, <1>1, <2>2, UndoWriteEffect DEF Undoes, Pops
    <3>2. m'.file[f] = m.file[f]
      BY <1>6, <1>1, <2>2, UndoWriteEffect
    <3> QED BY <1>1, <2>1, <3>1, <3>2 DEF FileInv, Active
  <2>3. CASE g = f
    <3>1. /\ On(stack', "restore", f) => On(stack, "restore", f)
          /\ On(stack', "remove", f) => On(stack, "remove", f)
      BY <1>6, <1>1, <2>3, UndoWriteEffect DEF Undoes, Pops
    <3>2. CASE On(stack, "restore", f)
               /\ \/ m'.file[f] = backup[f]
                  \/ m'.file[f] \in {m.file[f]} \cup Parts(f, backup[f]) /\ reported' = TRUE
      BY <1>1, <2>1, <3>1, <3>2 DEF FileInv, Active
    <3>3. CASE On(stack, "remove", f)
               /\ (m'.file[f] = None \/ (m'.file[f] = m.file[f] /\ reported' = TRUE))
      BY <1>1, <1>2, <2>1, <3>1, <3>3 DEF FileInv, Active
    <3> QED BY <1>6, <1>1, <2>3, <3>2, <3>3, UndoWriteEffect DEF Undoes
  <2> QED BY <2>2, <2>3
<1>7. CASE Begin
  BY <1>7, <1>1, RunBegins DEF FileInv, Active
<1>8. CASE Kill \/ Finish
  BY <1>8, <1>1, StopEnd DEF FileInv, Active, Kept
<1>9. CASE RolledBack
  BY <1>9, <1>1, RollEnd DEF FileInv, Active, Kept
<1>10. ASSUME NEW g \in Files, InstallFile(g)
       PROVE  FileInv(f)'
  <2>1. pc > SnapAt(g) /\ pc \notin {4, 8, 9, 10}
    BY <1>1, <1>10, InstallEffect DEF SnapAt
  <2> QED BY <1>1, <1>5, <1>10, <2>1, InstallEffect DEF NotesKept
<1>11. CASE NotePort
  <2>1. "ports" \in Files /\ pc > SnapAt("ports") /\ pc \notin {4, 8, 9, 10}
    BY <1>1, <1>11, NoteEffect DEF SnapAt, Files
  <2> QED BY <1>1, <1>5, <1>11, <2>1, NoteEffect DEF NotesKept
<1>12. CASE StartService
  <2>1. "status" \in Files /\ pc > SnapAt("status") /\ pc \notin {4, 8, 9, 10}
    BY <1>1, <1>12, StartEffect DEF SnapAt, Files
  <2> QED BY <1>1, <1>5, <1>12, <2>1, StartEffect DEF NotesKept
<1>13. ASSUME NEW d \in Dirs, MakeDir(d) \/ UndoDir(d) \/ UndoConfDir \/ UndoPerms(d)
       PROVE  FileInv(f)'
  BY <1>1, <1>3, <1>13, DirCommands
<1>14. CASE AddUser \/ UndoUser
  BY <1>1, <1>3, <1>14, UserCommands
<1>15. CASE OpenPort \/ UndoRule
  BY <1>1, <1>3, <1>15, RuleCommands
<1>16. CASE StopService \/ Register \/ UndoStop \/ UndoRegister \/ UndoService
  BY <1>1, <1>3, <1>16, ServiceCommands
<1>17. CASE MakeBackup \/ TestAgent \/ AgentId
  BY <1>1, <1>3, <1>17, OtherCommands
<1>18. Dirs # {}
  BY DEF Dirs
<1> QED
  BY <1>4, <1>6, <1>7, <1>8, <1>9, <1>10, <1>11, <1>12, <1>13, <1>14, <1>15, <1>16, <1>17, <1>18,
     StepCases

(* The directories. *)
LEMMA DirStep ==
    ASSUME InstallerIInv, TypeOK', Next, NEW d \in Dirs
    PROVE  DirInv(d)'
<1>1. /\ TypeOK /\ RunInv /\ DirInv(d) /\ Nested
      /\ DirAt(d) \in {7, 12, 13, 14} /\ pc \in Nat
      /\ m.dir[d] \in {"absent", "was", "set"}
  BY DEF InstallerIInv, DirAt, TypeOK, Machines
<1>2. CASE Moves /\ DirsFrame
  <2>1. /\ m'.dir[d] = m.dir[d] /\ before' = before /\ (quiet' = {} => quiet = {})
        /\ On(stack', "perms", d) <=> On(stack, "perms", d)
        /\ On(stack', "rm-rf", d) <=> On(stack, "rm-rf", d)
        /\ On(stack', "rmdir", d) <=> On(stack, "rmdir", d)
    BY <1>2 DEF DirsFrame, DirsKept, Moves, Goes, Fails, Rolls, Kept
  <2>2. CASE Goes
    <3>1. /\ pc # DirAt(d) /\ pc' = pc + 1 /\ phase = "running" /\ phase' = "running"
          /\ reported' = reported
      BY <1>1, <1>2, <2>2 DEF DirsFrame, Goes
    <3>2. pc' <= DirAt(d) => pc <= DirAt(d)
      BY <1>1, <3>1
    <3> QED BY <1>1, <2>1, <3>1, <3>2 DEF DirInv, Active
  <2>3. CASE Fails
    BY <1>1, <2>1, <2>3 DEF DirInv, Active, Fails
  <2>4. CASE Rolls
    BY <1>1, <2>1, <2>4 DEF DirInv, Active, Rolls
  <2> QED BY <1>2, <2>2, <2>3, <2>4 DEF Moves
<1>3. ASSUME NEW e \in Dirs, MakeDir(e)
      PROVE  DirInv(d)'
  <2>1. /\ before' = before /\ reported' = reported /\ phase = "running" /\ pc = DirAt(e)
        /\ (phase' = "running" /\ pc' = pc + 1) \/ (phase' = "rolling" /\ pc' = pc)
        /\ quiet' = quiet
    BY <1>3, <1>1, DirEffect DEF Goes, Fails, Kept, NotesKept
  <2>2. CASE e = d
    <3>1. m.dir[d] = before.dir[d]
      BY <1>1, <2>1, <2>2 DEF DirInv
    <3>2. m'.dir[d] = m.dir[d] \/ m'.dir[d] = "set"
      BY <1>3, <1>1, <2>2, DirEffect
    <3>3. phase' = "running" => ~(pc' <= DirAt(d))
      BY <1>1, <2>1, <2>2
    <3>4. \/ /\ before.dir[d] # "absent" /\ On(stack', "perms", d)
             /\ On(stack', "rm-rf", d) <=> On(stack, "rm-rf", d)
             /\ On(stack', "rmdir", d) <=> On(stack, "rmdir", d)
          \/ /\ before.dir[d] = "absent" /\ (On(stack', "rm-rf", d) \/ On(stack', "rmdir", d))
             /\ On(stack', "perms", d) <=> On(stack, "perms", d)
      BY <1>3, <1>1, <2>2, <3>1, DirEffect DEF Pushes, Extends
    <3> QED BY <1>1, <2>1, <3>1, <3>2, <3>3, <3>4 DEF DirInv, Active
  <2>3. CASE e # d
    <3>1. DirAt(d) # DirAt(e) /\ DirAt(e) \in Nat
      BY <2>3 DEF DirAt, Dirs
    <3>2. /\ On(stack', "perms", d) <=> On(stack, "perms", d)
          /\ On(stack', "rm-rf", d) <=> On(stack, "rm-rf", d)
          /\ On(stack', "rmdir", d) <=> On(stack, "rmdir", d)
      BY <1>3, <1>1, <2>3, DirEffect DEF Pushes, Extends
    <3>3. m'.dir[d] = m.dir[d]
      BY <1>3, <1>1, <2>3, DirEffect
    <3>4. phase' = "running" /\ pc' <= DirAt(d) => pc <= DirAt(d)
      BY <1>1, <2>1, <3>1
    <3> QED BY <1>1, <2>1, <3>2, <3>3, <3>4 DEF DirInv, Active
  <2> QED BY <2>2, <2>3
<1>4. ASSUME NEW e \in Dirs, UndoDir(e)
      PROVE  DirInv(d)'
  <2>1. /\ before' = before /\ phase = "rolling" /\ phase' = "rolling" /\ quiet' = quiet
        /\ reported' = reported \/ reported' = TRUE
        /\ On(stack, "rm-rf", e) /\ Pops("rm-rf", e)
    BY <1>4, <1>1, UndoDirEffect DEF Undoes, Kept
  <2>2. before.dir[e] = "absent"
    BY <2>1 DEF InstallerIInv, DirInv
  <2>3. e = "data" /\ d = "spool" => before.dir[d] = "absent"
    BY <1>1, <2>2 DEF Nested
  <2>4. /\ On(stack', "perms", d) <=> On(stack, "perms", d)
        /\ On(stack', "rmdir", d) <=> On(stack, "rmdir", d)
        /\ On(stack', "rm-rf", d) => On(stack, "rm-rf", d)
        /\ d # e => (On(stack', "rm-rf", d) <=> On(stack, "rm-rf", d))
    BY <2>1 DEF Pops
  <2>5. \/ m'.dir[d] = IF d = e \/ (e = "data" /\ d = "spool") THEN "absent" ELSE m.dir[d]
        \/ m'.dir[d] = m.dir[d] /\ reported' = TRUE
    BY <1>4, <1>1, UndoDirEffect DEF DirsKept
  <2>6. CASE d = e \/ (e = "data" /\ d = "spool")
    BY <1>1, <2>1, <2>2, <2>3, <2>4, <2>5, <2>6 DEF DirInv, Active
  <2>7. CASE ~(d = e \/ (e = "data" /\ d = "spool"))
    BY <1>1, <2>1, <2>4, <2>5, <2>7 DEF DirInv, Active
  <2> QED BY <2>6, <2>7
<1>5. CASE UndoConfDir
  <2>1. /\ before' = before /\ phase = "rolling" /\ phase' = "rolling" /\ quiet' = quiet
        /\ reported' = reported \/ reported' = TRUE
        /\ On(stack, "rmdir", "conf") /\ Pops("rmdir", "conf")
    BY <1>5, <1>1, UndoConfDirEffect DEF Undoes, Kept
  <2>2. d = "conf" => before.dir[d] = "absent"
    BY <1>1, <2>1 DEF DirInv
  <2>3. /\ On(stack', "perms", d) <=> On(stack, "perms", d)
        /\ On(stack', "rm-rf", d) <=> On(stack, "rm-rf", d)
        /\ On(stack', "rmdir", d) => On(stack, "rmdir", d)
        /\ d # "conf" => (On(stack', "rmdir", d) <=> On(stack, "rmdir", d))
    BY <2>1 DEF Pops
  <2>4. /\ d # "conf" => m'.dir[d] = m.dir[d]
        /\ d = "conf" => m'.dir[d] = "absent" \/ (m'.dir[d] = m.dir[d] /\ reported' = TRUE)
    BY <1>5, <1>1, UndoConfDirEffect DEF DirsKept
  <2> QED BY <1>1, <2>1, <2>2, <2>3, <2>4 DEF DirInv, Active
<1>6. ASSUME NEW e \in Dirs, UndoPerms(e)
      PROVE  DirInv(d)'
  <2>1. /\ before' = before /\ phase = "rolling" /\ phase' = "rolling"
        /\ reported' = reported \/ reported' = TRUE
        /\ On(stack, "perms", e) /\ Pops("perms", e)
    BY <1>6, <1>1, UndoPermsEffect DEF Undoes, Kept
  <2>2. /\ On(stack', "rm-rf", d) <=> On(stack, "rm-rf", d)
        /\ On(stack', "rmdir", d) <=> On(stack, "rmdir", d)
        /\ On(stack', "perms", d) => On(stack, "perms", d)
        /\ d # e => (On(stack', "perms", d) <=> On(stack, "perms", d))
    BY <2>1 DEF Pops
  <2>3. d # e => m'.dir[d] = m.dir[d]
    BY <1>6, <1>1, UndoPermsEffect
  <2>4. quiet' = {} => quiet = {}
    BY <1>6, <1>1, UndoPermsEffect
  <2>5. d = e => \/ m'.dir[d] = before.dir[d]
                 \/ m'.dir[d] = m.dir[d] /\ (reported' = TRUE \/ quiet' # {})
    BY <1>6, <1>1, UndoPermsEffect DEF DirsKept
  <2> QED BY <1>1, <2>1, <2>2, <2>3, <2>4, <2>5 DEF DirInv, Active
<1>7. CASE Begin
  BY <1>7, <1>1, RunBegins DEF DirInv, Active
<1>8. CASE Kill \/ Finish
  BY <1>8, <1>1, StopEnd DEF DirInv, Active, Kept
<1>9. CASE RolledBack
  BY <1>9, <1>1, RollEnd DEF DirInv, Active, Kept
<1>10. ASSUME NEW f \in Files, Snapshot(f) \/ InstallFile(f) \/ NotePort \/ UndoWrite(f)
       PROVE  DirInv(d)'
  BY <1>1, <1>2, <1>10, FileCommands
<1>11. CASE AddUser \/ UndoUser
  BY <1>1, <1>2, <1>11, UserCommands
<1>12. CASE OpenPort \/ UndoRule
  BY <1>1, <1>2, <1>12, RuleCommands
<1>13. CASE StopService \/ Register \/ UndoStop \/ UndoRegister \/ UndoService
  BY <1>1, <1>2, <1>13, ServiceCommands
<1>14. CASE MakeBackup \/ TestAgent \/ AgentId \/ StartService
  BY <1>1, <1>2, <1>14, OtherCommands
<1>15. Files # {}
  BY DEF Files
<1> QED
  BY <1>3, <1>4, <1>5, <1>6, <1>7, <1>8, <1>9, <1>10, <1>11, <1>12, <1>13, <1>14, <1>15, StepCases

(* The spool directory stays in the data directory: the rollback does not  *)
(* take the one away that was there and keep the other.                    *)
LEMMA NestedStep ==
    ASSUME InstallerIInv, TypeOK', Next
    PROVE  Nested'
<1>1. /\ TypeOK /\ RunInv /\ Nested /\ pc \in Nat /\ "data" \in Dirs /\ "spool" \in Dirs
      /\ m.dir["data"] \in {"absent", "was", "set"} /\ DirInv("data") /\ DirInv("spool")
  BY DEF InstallerIInv, TypeOK, Machines, Dirs
<1>2. CASE Moves /\ DirsFrame
  <2>1. m'.dir = m.dir /\ before' = before
    BY <1>2 DEF DirsFrame, DirsKept, Moves, Goes, Fails, Rolls, Kept
  <2>2. phase' = "running" => phase = "running" /\ pc' = pc + 1 /\ pc # 12
    BY <1>2 DEF DirsFrame, Moves, Goes, Fails, Rolls
  <2>3. phase' = "running" /\ pc' > 12 => phase = "running" /\ pc > 12
    BY <1>1, <2>2
  <2> QED BY <1>1, <2>1, <2>3 DEF Nested
<1>3. ASSUME NEW d \in Dirs, MakeDir(d)
      PROVE  Nested'
  <2>1. /\ before' = before /\ phase = "running" /\ pc = DirAt(d)
        /\ phase' = "running" => pc' = pc + 1 /\ m'.dir[d] = "set"
    BY <1>3, <1>1, DirEffect DEF Goes, Fails, Kept
  <2>2. /\ \A e \in Dirs \ {d} : m'.dir[e] = m.dir[e]
        /\ m'.dir[d] = m.dir[d] \/ m'.dir[d] = "set"
    BY <1>3, <1>1, DirEffect
  <2>3. CASE d = "data"
    BY <1>1, <2>1, <2>2, <2>3 DEF Nested
  <2>4. CASE d = "spool"
    <3>1. pc = 13 /\ m.dir["data"] # "absent" /\ m'.dir["data"] = m.dir["data"]
      BY <1>1, <2>1, <2>2, <2>4 DEF Nested, DirAt
    <3> QED BY <1>1, <2>1, <2>2, <3>1 DEF Nested
  <2>5. CASE d \notin {"data", "spool"}
    <3>1. m'.dir["data"] = m.dir["data"] /\ m'.dir["spool"] = m.dir["spool"]
      BY <1>1, <2>2, <2>5
    <3>2. pc \in {7, 14}
      BY <2>1, <2>5 DEF DirAt, Dirs
    <3>3. phase' = "running" /\ pc' > 12 => pc > 12
      BY <2>1, <3>2
    <3> QED BY <1>1, <2>1, <3>1, <3>3 DEF Nested
  <2> QED BY <2>3, <2>4, <2>5
<1>4. ASSUME NEW d \in Dirs, UndoDir(d)
      PROVE  Nested'
  <2>1. before' = before /\ phase' = "rolling"
    BY <1>4, <1>1, UndoDirEffect DEF Undoes, Kept
  <2>2. \/ \A e \in Dirs : m'.dir[e] = IF e = d \/ (d = "data" /\ e = "spool")
                                       THEN "absent" ELSE m.dir[e]
        \/ m'.dir = m.dir
    BY <1>4, <1>1, UndoDirEffect DEF DirsKept
  <2> QED BY <1>1, <2>1, <2>2 DEF Nested
<1>5. CASE UndoConfDir
  <2>1. before' = before /\ phase' = "rolling"
    BY <1>5, <1>1, UndoConfDirEffect DEF Undoes, Kept
  <2>2. m'.dir["data"] = m.dir["data"] /\ m'.dir["spool"] = m.dir["spool"]
    BY <1>5, <1>1, UndoConfDirEffect
  <2> QED BY <1>1, <2>1, <2>2 DEF Nested
<1>6. ASSUME NEW d \in Dirs, UndoPerms(d)
      PROVE  Nested'
  <2>1. before' = before /\ phase = "rolling" /\ phase' = "rolling" /\ On(stack, "perms", d)
    BY <1>6, <1>1, UndoPermsEffect DEF Undoes, Kept
  <2>2. before.dir[d] # "absent"
    BY <2>1 DEF InstallerIInv, DirInv
  <2>3. \A e \in Dirs \ {d} : m'.dir[e] = m.dir[e]
    BY <1>6, <1>1, UndoPermsEffect
  <2>4. m'.dir[d] = before.dir[d] \/ m'.dir[d] = m.dir[d]
    BY <1>6, <1>1, UndoPermsEffect DEF DirsKept
  <2>5. before.dir["data"] # "absent" => m.dir["data"] # "absent"
    BY <1>1, <2>1 DEF DirInv, Active
  <2>6. CASE d = "spool"
    <3>1. m'.dir["data"] = m.dir["data"] /\ m.dir["data"] # "absent"
      BY <1>1, <2>2, <2>3, <2>5, <2>6 DEF Nested
    <3> QED BY <1>1, <2>1, <3>1 DEF Nested
  <2>7. CASE d # "spool"
    BY <1>1, <2>1, <2>2, <2>3, <2>4, <2>7 DEF Nested
  <2> QED BY <2>6, <2>7
<1>7. CASE Begin
  BY <1>7, <1>1, RunBegins DEF Nested
<1>8. CASE Kill \/ Finish
  BY <1>8, <1>1, StopEnd DEF Nested, Kept
<1>9. CASE RolledBack
  BY <1>9, <1>1, RollEnd DEF Nested, Kept
<1>10. ASSUME NEW f \in Files, Snapshot(f) \/ InstallFile(f) \/ NotePort \/ UndoWrite(f)
       PROVE  Nested'
  BY <1>1, <1>2, <1>10, FileCommands
<1>11. CASE AddUser \/ UndoUser
  BY <1>1, <1>2, <1>11, UserCommands
<1>12. CASE OpenPort \/ UndoRule
  BY <1>1, <1>2, <1>12, RuleCommands
<1>13. CASE StopService \/ Register \/ UndoStop \/ UndoRegister \/ UndoService
  BY <1>1, <1>2, <1>13, ServiceCommands
<1>14. CASE MakeBackup \/ TestAgent \/ AgentId \/ StartService
  BY <1>1, <1>2, <1>14, OtherCommands
<1>15. Files # {}
  BY DEF Files
<1> QED
  BY <1>3, <1>4, <1>5, <1>6, <1>7, <1>8, <1>9, <1>10, <1>11, <1>12, <1>13, <1>14, <1>15, StepCases

(* The account. *)
LEMMA UserStep ==
    ASSUME InstallerIInv, TypeOK', Next
    PROVE  UserInv'
<1>1. TypeOK /\ RunInv /\ UserInv /\ pc \in Nat /\ m.user \in BOOLEAN /\ before.user \in BOOLEAN
  BY DEF InstallerIInv, TypeOK, Machines
<1>2. CASE Moves /\ UserFrame
  <2>1. /\ m'.user = m.user /\ before' = before /\ (quiet' = {} => quiet = {})
        /\ On(stack', "userdel", "user") <=> On(stack, "userdel", "user")
    BY <1>2 DEF UserFrame, UserKept, Moves, Goes, Fails, Rolls, Kept
  <2>2. /\ phase' \in {"running", "rolling"} => phase \in {"running", "rolling"}
        /\ phase' = "running" => phase = "running" /\ pc' = pc + 1
        /\ ~reported' => ~reported
    BY <1>2, <1>1 DEF UserFrame, Moves, Goes, Fails, Rolls, RunInv
  <2>3. phase' = "running" /\ pc' <= 3 => phase = "running" /\ pc <= 3
    BY <1>1, <2>2
  <2> QED BY <1>1, <2>1, <2>2, <2>3 DEF UserInv, Active
<1>3. CASE AddUser
  <2>1. /\ before' = before /\ reported' = reported /\ phase = "running" /\ pc = 3
        /\ (phase' = "running" /\ pc' = 4) \/ phase' = "rolling"
    BY <1>3, <1>1, UserEffect DEF Goes, Fails, Kept
  <2>2. m.user = before.user /\ ~reported /\ quiet = {}
    BY <1>1, <2>1 DEF UserInv, RunInv
  <2>3. \/ stack' = stack /\ m'.user = m.user
        \/ ~m.user /\ Pushes("userdel", "user")
        \/ stack' = stack /\ quiet' # {}
    BY <1>3, <1>1, UserEffect DEF UserKept
  <2>4. phase' = "running" => ~(pc' <= 3)
    BY <2>1
  <2>5. CASE stack' = stack /\ m'.user = m.user
    BY <1>1, <2>1, <2>2, <2>4, <2>5 DEF UserInv, Active
  <2>6. CASE ~m.user /\ Pushes("userdel", "user")
    <3>1. On(stack', "userdel", "user")
      BY <2>6 DEF Pushes, Extends
    <3> QED BY <1>1, <2>1, <2>2, <2>4, <2>6, <3>1 DEF UserInv, Active
  <2>7. CASE stack' = stack /\ quiet' # {}
    <3>1. On(stack', "userdel", "user") => ~before'.user
      BY <1>1, <2>1, <2>7 DEF UserInv
    <3> QED BY <2>1, <2>4, <2>7, <3>1 DEF UserInv, Active
  <2> QED BY <2>3, <2>5, <2>6, <2>7
<1>4. CASE UndoUser
  <2>1. /\ before' = before /\ phase' = "rolling" /\ quiet' = quiet
        /\ On(stack, "userdel", "user") /\ (m'.user = FALSE \/ reported' = TRUE)
        /\ On(stack', "userdel", "user") => On(stack, "userdel", "user")
    BY <1>4, <1>1, UndoUserEffect DEF Undoes, Kept, Pops
  <2>2. before.user = FALSE
    BY <1>1, <2>1 DEF UserInv
  <2> QED BY <2>1, <2>2 DEF UserInv, Active
<1>5. CASE Begin
  BY <1>5, <1>1, RunBegins DEF UserInv, Active
<1>6. CASE Kill \/ Finish
  BY <1>6, <1>1, StopEnd DEF UserInv, Active, Kept
<1>7. CASE RolledBack
  BY <1>7, <1>1, RollEnd DEF UserInv, Active, Kept
<1>8. ASSUME NEW f \in Files, Snapshot(f) \/ InstallFile(f) \/ NotePort \/ UndoWrite(f)
      PROVE  UserInv'
  BY <1>1, <1>2, <1>8, FileCommands
<1>9. ASSUME NEW d \in Dirs, MakeDir(d) \/ UndoDir(d) \/ UndoConfDir \/ UndoPerms(d)
      PROVE  UserInv'
  BY <1>1, <1>2, <1>9, DirCommands
<1>10. CASE OpenPort \/ UndoRule
  BY <1>1, <1>2, <1>10, RuleCommands
<1>11. CASE StopService \/ Register \/ UndoStop \/ UndoRegister \/ UndoService
  BY <1>1, <1>2, <1>11, ServiceCommands
<1>12. CASE MakeBackup \/ TestAgent \/ AgentId \/ StartService
  BY <1>1, <1>2, <1>12, OtherCommands
<1>13. Files # {} /\ Dirs # {}
  BY DEF Files, Dirs
<1> QED
  BY <1>3, <1>4, <1>5, <1>6, <1>7, <1>8, <1>9, <1>10, <1>11, <1>12, <1>13, StepCases

(* The rule for the port. *)
LEMMA RuleStep ==
    ASSUME InstallerIInv, TypeOK', Next
    PROVE  RuleInv'
<1>1. TypeOK /\ RunInv /\ RuleInv /\ pc \in Nat /\ m.rule \in BOOLEAN /\ before.rule \in BOOLEAN
  BY DEF InstallerIInv, TypeOK, Machines
<1>2. CASE Moves /\ RuleFrame
  <2>1. /\ m'.rule = m.rule /\ before' = before
        /\ On(stack', "close", "rule") <=> On(stack, "close", "rule")
    BY <1>2 DEF RuleFrame, RuleKept, Moves, Goes, Fails, Rolls, Kept
  <2>2. /\ phase' \in {"running", "rolling"} => phase \in {"running", "rolling"}
        /\ phase' = "running" => phase = "running" /\ pc' = pc + 1
        /\ ~reported' => ~reported
    BY <1>2, <1>1 DEF Moves, Goes, Fails, Rolls, RunInv
  <2>3. phase' = "running" /\ pc' <= 16 => phase = "running" /\ pc <= 16
    BY <1>1, <2>2
  <2> QED BY <1>1, <2>1, <2>2, <2>3 DEF RuleInv, Active
<1>3. CASE OpenPort
  <2>1. /\ before' = before /\ reported' = reported /\ phase = "running" /\ pc = 16
        /\ (phase' = "running" /\ pc' = 17) \/ phase' = "rolling"
    BY <1>3, <1>1, RuleEffect DEF Goes, Fails, Kept
  <2>2. m.rule = before.rule /\ ~reported
    BY <1>1, <2>1 DEF RuleInv, RunInv
  <2>3. \/ stack' = stack /\ m'.rule = m.rule
        \/ ~m.rule /\ Pushes("close", "rule")
    BY <1>3, <1>1, RuleEffect DEF RuleKept
  <2>4. phase' = "running" => ~(pc' <= 16)
    BY <2>1
  <2>5. CASE stack' = stack /\ m'.rule = m.rule
    BY <1>1, <2>1, <2>2, <2>4, <2>5 DEF RuleInv, Active
  <2>6. CASE ~m.rule /\ Pushes("close", "rule")
    <3>1. On(stack', "close", "rule")
      BY <2>6 DEF Pushes, Extends
    <3> QED BY <1>1, <2>1, <2>2, <2>4, <2>6, <3>1 DEF RuleInv, Active
  <2> QED BY <2>3, <2>5, <2>6
<1>4. CASE UndoRule
  <2>1. /\ before' = before /\ phase' = "rolling"
        /\ On(stack, "close", "rule") /\ (m'.rule = FALSE \/ reported' = TRUE)
        /\ On(stack', "close", "rule") => On(stack, "close", "rule")
    BY <1>4, <1>1, UndoRuleEffect DEF Undoes, Kept, Pops
  <2>2. before.rule = FALSE
    BY <1>1, <2>1 DEF RuleInv
  <2> QED BY <2>1, <2>2 DEF RuleInv, Active
<1>5. CASE Begin
  BY <1>5, <1>1, RunBegins DEF RuleInv, Active
<1>6. CASE Kill \/ Finish
  BY <1>6, <1>1, StopEnd DEF RuleInv, Active, Kept
<1>7. CASE RolledBack
  BY <1>7, <1>1, RollEnd DEF RuleInv, Active, Kept
<1>8. ASSUME NEW f \in Files, Snapshot(f) \/ InstallFile(f) \/ NotePort \/ UndoWrite(f)
      PROVE  RuleInv'
  BY <1>1, <1>2, <1>8, FileCommands
<1>9. ASSUME NEW d \in Dirs, MakeDir(d) \/ UndoDir(d) \/ UndoConfDir \/ UndoPerms(d)
      PROVE  RuleInv'
  BY <1>1, <1>2, <1>9, DirCommands
<1>10. CASE AddUser \/ UndoUser
  BY <1>1, <1>2, <1>10, UserCommands
<1>11. CASE StopService \/ Register \/ UndoStop \/ UndoRegister \/ UndoService
  BY <1>1, <1>2, <1>11, ServiceCommands
<1>12. CASE MakeBackup \/ TestAgent \/ AgentId \/ StartService
  BY <1>1, <1>2, <1>12, OtherCommands
<1>13. Files # {} /\ Dirs # {}
  BY DEF Files, Dirs
<1> QED
  BY <1>3, <1>4, <1>5, <1>6, <1>7, <1>8, <1>9, <1>10, <1>11, <1>12, <1>13, StepCases

(* The service. *)
LEMMA ServiceStep ==
    ASSUME InstallerIInv, TypeOK', Next
    PROVE  ServiceInv'
<1>1. /\ TypeOK /\ RunInv /\ ServiceInv /\ pc \in Nat
      /\ m.unit \in BOOLEAN /\ m.enabled \in BOOLEAN /\ m.active \in BOOLEAN
      /\ before.unit \in BOOLEAN /\ before.enabled \in BOOLEAN /\ before.active \in BOOLEAN
      /\ m'.unit \in BOOLEAN /\ m'.enabled \in BOOLEAN /\ m'.active \in BOOLEAN
      /\ reported \in BOOLEAN
  BY DEF InstallerIInv, TypeOK, Machines
<1> DEFINE RS == On(stack, "restore_service", "service")
           UN == On(stack, "uninstall", "service")
           ST == On(stack, "stop", "service")
<1>2. CASE Moves /\ ServiceFrame
  <2>1. /\ m'.unit = m.unit /\ m'.enabled = m.enabled /\ m'.active = m.active
        /\ before' = before /\ (quiet' = {} => quiet = {})
        /\ (RS' <=> RS) /\ (UN' <=> UN) /\ (ST' <=> ST)
    BY <1>2 DEF ServiceFrame, ServiceKept, Moves, Goes, Fails, Rolls, Kept
  <2>2. /\ phase' \in {"running", "rolling"} => phase \in {"running", "rolling"}
        /\ phase' = "running" => phase = "running" /\ pc' = pc + 1 /\ pc # 1 /\ pc # 17
        /\ ~reported' => ~reported
    BY <1>2, <1>1 DEF ServiceFrame, Moves, Goes, Fails, Rolls, RunInv
  <2>3. /\ phase' = "running" => phase = "running" /\ pc > 1
        /\ phase' = "running" /\ pc' > 17 => phase = "running" /\ pc > 17
    BY <1>1, <2>2 DEF RunInv
  <2> QED BY <1>1, <2>1, <2>2, <2>3 DEF ServiceInv, Active
<1>3. CASE StopService
  <2>1. /\ before' = before /\ reported' = reported /\ phase = "running" /\ pc = 1
        /\ (phase' = "running" /\ pc' = 2) \/ phase' = "rolling"
        /\ quiet' = quiet
    BY <1>3, <1>1, StopEffect DEF Goes, Fails, Kept, NotesKept
  <2>2. m'.unit = m.unit /\ m'.enabled = m.enabled /\ (m'.active => m.active)
    BY <1>3, <1>1, StopEffect
  <2>3. phase' = "running" => ~(pc' > 17)
    BY <2>1
  <2>4. ~RS /\ ~UN /\ ~ST
    <3>1. stack = << >>
      BY <1>1, <2>1 DEF RunInv
    <3> QED BY <3>1, OnEmpty
  <2>5. CASE before.unit /\ Pushes("restore_service", "service")
    <3>1. RS' /\ ~UN' /\ ~ST'
      BY <2>4, <2>5 DEF Pushes, Extends
    <3> QED BY <1>1, <2>1, <2>2, <2>3, <2>4, <2>5, <3>1 DEF ServiceInv, Active
  <2>6. CASE ~before.unit /\ stack' = stack /\ m' = m
    BY <1>1, <2>1, <2>3, <2>4, <2>6 DEF ServiceInv, Active
  <2> QED BY <1>3, <1>1, <2>5, <2>6, StopEffect
<1>4. CASE Register
  <2>1. /\ before' = before /\ reported' = reported /\ phase = "running" /\ pc = 17
        /\ (Goes /\ phase' = "running" /\ pc' = 18) \/ (Fails /\ phase' = "rolling")
        /\ quiet' = quiet /\ m'.active = m.active
    BY <1>4, <1>1, RegisterEffect DEF Goes, Fails, Kept, NotesKept
  <2>2. before.unit => RS /\ m.unit
    BY <1>1, <2>1 DEF ServiceInv, Active
  <2>3. CASE before.unit /\ m'.unit = m.unit /\ Goes /\ Pushes("stop", "service")
    <3>1. ST' /\ (RS' <=> RS) /\ (UN' <=> UN)
      BY <2>3 DEF Pushes, Extends
    <3> QED BY <1>1, <2>1, <2>2, <2>3, <3>1 DEF ServiceInv, Active
  <2>4. CASE before.unit /\ m'.unit = m.unit /\ Fails /\ stack' = stack
    <3>1. phase' = "rolling"
      BY <2>4 DEF Fails
    <3> QED BY <1>1, <2>1, <2>2, <2>4, <3>1 DEF ServiceInv, Active
  <2>5. CASE /\ ~before.unit /\ Goes /\ m'.unit = TRUE
             /\ \A x, y : On(stack', x, y) <=>
                    (On(stack, x, y) \/ (x \in {"uninstall", "stop"} /\ y = "service"))
    <3>1. ST' /\ UN' /\ (RS' <=> RS)
      BY <2>5
    <3> QED BY <1>1, <2>1, <2>5, <3>1 DEF ServiceInv, Active
  <2>6. CASE /\ ~before.unit /\ Fails /\ (m' = m \/ m'.unit = TRUE)
             /\ Pushes("uninstall", "service")
    <3>1. UN' /\ (RS' <=> RS) /\ (ST' <=> ST) /\ phase' = "rolling"
      BY <2>6 DEF Pushes, Extends, Fails
    <3> QED BY <1>1, <2>1, <2>6, <3>1 DEF ServiceInv, Active
  <2> QED BY <1>4, <1>1, <2>3, <2>4, <2>5, <2>6, RegisterEffect
<1>5. CASE StartService
  <2>1. /\ before' = before /\ reported' = reported /\ phase = "running" /\ pc = 19
        /\ phase' \in {"running", "rolling"}
        /\ quiet' = quiet /\ m'.unit = m.unit /\ m'.enabled = m.enabled /\ stack' = stack
    BY <1>5, <1>1, StartEffect DEF Goes, Fails, Kept, NotesKept
  <2>2. ST /\ m.unit /\ (before.unit => RS)
    BY <1>1, <2>1 DEF ServiceInv
  <2> QED BY <1>1, <2>1, <2>2 DEF ServiceInv, Active
<1>6. CASE UndoStop
  <2>1. /\ Undoes("stop", "service") /\ quiet' = quiet
        /\ m'.unit = m.unit /\ m'.enabled = m.enabled
        /\ m'.active = FALSE \/ (m'.active = m.active /\ reported' = TRUE)
    BY <1>6, <1>1, UndoStopEffect
  <2>2. /\ before' = before /\ phase = "rolling" /\ phase' = "rolling"
        /\ ST /\ (~reported' => ~reported) /\ Pops("stop", "service")
    BY <2>1 DEF Undoes, Kept
  <2>3. (RS' <=> RS) /\ (UN' <=> UN) /\ (ST' => ST)
    BY <2>2 DEF Pops
  <2> QED BY <1>1, <2>1, <2>2, <2>3 DEF ServiceInv, Active
<1>7. CASE UndoRegister
  <2>1. Undoes("uninstall", "service") /\ quiet' = quiet
    BY <1>7, <1>1, UndoRegisterEffect
  <2>4. /\ before' = before /\ phase = "rolling" /\ phase' = "rolling"
        /\ UN /\ (~reported' => ~reported) /\ Pops("uninstall", "service")
    BY <2>1 DEF Undoes, Kept
  <2>5. (RS' <=> RS) /\ (ST' <=> ST) /\ (UN' => UN)
    BY <2>4 DEF Pops
  <2>2. \/ ~m'.unit /\ ~m'.enabled /\ ~m'.active
        \/ reported' = TRUE /\ (m' = m \/ (~m'.enabled /\ ~m'.active))
    BY <1>7, <1>1, UndoRegisterEffect
  <2>3. ~before.unit
    BY <1>1, <2>4 DEF ServiceInv
  <2> QED BY <1>1, <2>1, <2>2, <2>3, <2>4, <2>5 DEF ServiceInv, Active
<1>8. CASE UndoService
  <2>1. /\ before' = before /\ phase = "rolling" /\ phase' = "rolling"
        /\ RS /\ (~reported' => ~reported) /\ Pops("restore_service", "service")
    BY <1>8, <1>1, UndoServiceEffect DEF Undoes, Kept
  <2>2. /\ m'.unit = m.unit /\ (m'.active => m.active \/ before.active)
        /\ ~RS' /\ ~UN' /\ ~ST'
    BY <1>8, <1>1, UndoServiceEffect
  <2>3. ~ST
    BY <2>1, <2>2 DEF Pops
  <2>4. before.unit /\ m.unit
    BY <1>1, <2>1 DEF ServiceInv, Active
  <2>5. quiet' = {} /\ ~reported' => /\ quiet = {} /\ m'.enabled = before.enabled
                                     /\ m'.active = (before.active \/ m.active)
    BY <1>8, <1>1, UndoServiceEffect
  <2>6. ~reported /\ m.active => before.active
    BY <1>1, <2>1, <2>3 DEF ServiceInv, Active
  <2>7. quiet' = {} /\ ~reported' => m'.enabled = before.enabled /\ m'.active = before.active
    BY <1>1, <2>1, <2>5, <2>6
  <2> QED BY <1>1, <2>1, <2>2, <2>4, <2>6, <2>7 DEF ServiceInv, Active
<1>9. CASE Begin
  BY <1>9, <1>1, RunBegins DEF ServiceInv, Active
<1>10. CASE Kill \/ Finish
  BY <1>10, <1>1, StopEnd DEF ServiceInv, Active, Kept
<1>11. CASE RolledBack
  BY <1>11, <1>1, RollEnd DEF ServiceInv, Active, Kept
<1>12. ASSUME NEW f \in Files, Snapshot(f) \/ InstallFile(f) \/ NotePort \/ UndoWrite(f)
       PROVE  ServiceInv'
  BY <1>1, <1>2, <1>12, FileCommands
<1>13. ASSUME NEW d \in Dirs, MakeDir(d) \/ UndoDir(d) \/ UndoConfDir \/ UndoPerms(d)
       PROVE  ServiceInv'
  BY <1>1, <1>2, <1>13, DirCommands
<1>14. CASE AddUser \/ UndoUser
  BY <1>1, <1>2, <1>14, UserCommands
<1>15. CASE OpenPort \/ UndoRule
  BY <1>1, <1>2, <1>15, RuleCommands
<1>16. CASE MakeBackup \/ TestAgent \/ AgentId
  BY <1>1, <1>2, <1>16, OtherCommands
<1>17. Files # {} /\ Dirs # {}
  BY DEF Files, Dirs
<1> QED
  BY <1>3, <1>4, <1>5, <1>6, <1>7, <1>8, <1>9, <1>10, <1>11, <1>12, <1>13, <1>14, <1>15, <1>16,
     <1>17, StepCases

(* The agent_id: a run that has to keep it copies it from the config that  *)
(* it found, before it writes a new one.                                   *)
LEMMA IdStep ==
    ASSUME InstallerIInv, TypeOK', Next
    PROVE  IdInv'
<1>1. /\ TypeOK /\ RunInv /\ IdInv /\ FileInv("conf") /\ pc \in Nat /\ "conf" \in Files
      /\ SnapAt("conf") = 8 /\ run \in Versions /\ ident \in [Versions -> Versions]
      /\ m.file["conf"] \in Contents
  <2>1. "conf" \in Files /\ SnapAt("conf") = 8
    BY DEF Files, SnapAt
  <2>2. TypeOK /\ RunInv /\ IdInv /\ FileInv("conf")
    BY <2>1 DEF InstallerIInv
  <2>3. /\ pc \in Nat /\ run \in Versions /\ ident \in [Versions -> Versions]
        /\ m.file["conf"] \in Contents
    BY <2>1, <2>2 DEF TypeOK, Machines, Versions
  <2> QED BY <2>1, <2>2, <2>3
<1>2. /\ ~HasId(None) /\ ~HasId(Torn) /\ HasId(run) /\ Source(run) = run
      /\ run \in Contents /\ backup["conf"] \in Contents /\ None \in Contents /\ Torn \in Contents
  <2>1. run \in Contents /\ backup["conf"] \in Contents /\ None \in Contents /\ Torn \in Contents
    BY <1>1 DEF TypeOK, Contents
  <2> QED BY <1>1, <2>1, PartsIs
<1>3. ASSUME Moves, ident' = ident, Goes => pc # 6,
             \/ m'.file["conf"] = m.file["conf"] \/ ~HasId(m'.file["conf"])
             \/ Source(m'.file["conf"]) = Source(before.file["conf"])
             \/ Source(m'.file["conf"]) = run /\ phase = "running" /\ pc > 6
      PROVE  IdInv'
  <2>1. before' = before /\ run' = run /\ fresh' = fresh /\ regen' = regen
    BY <1>3 DEF Moves, Goes, Fails, Rolls, Kept
  <2>2. /\ phase \in {"running", "rolling"}
        /\ phase' = "running" => phase = "running" /\ pc' = pc + 1 /\ pc # 6
    BY <1>3 DEF Moves, Goes, Fails, Rolls
  <2>3. phase' = "running" /\ pc' > 6 => phase = "running" /\ pc > 6
    BY <1>1, <2>2
  <2>4. ~fresh => /\ HasId(before.file["conf"]) /\ ~regen
                  /\ ident[Source(before.file["conf"])] = 0
    BY <1>1, <2>2 DEF IdInv, Active
  <2>5. ~fresh /\ HasId(m'.file["conf"]) => ident[Source(m'.file["conf"])] = 0
    BY <1>1, <1>3, <2>4 DEF IdInv
  <2>6. ~fresh /\ phase' = "running" /\ pc' > 6 => ident[run] = 0
    BY <1>1, <2>3 DEF IdInv
  <2> QED BY <1>3, <2>1, <2>4, <2>5, <2>6 DEF IdInv
<1>4. CASE AgentId
  <2>0. m' = m /\ (Goes \/ Fails)
    BY <1>4, <1>1, IdleEffect
  <2>1. /\ m' = m /\ pc = 6 /\ phase = "running" /\ before' = before /\ run' = run
        /\ fresh' = fresh /\ regen' = regen
    <3>1. At("agent_id", "conf") /\ pc >= 1
      BY <1>1, <1>4 DEF AgentId, At, RunInv
    <3>2. pc = 6
      BY <1>1, <3>1, WhichCommand
    <3> QED BY <2>0, <3>2 DEF Goes, Fails, Kept
  <2>2. m.file["conf"] = before.file["conf"]
    BY <1>1, <2>1 DEF FileInv
  <2>3. ident' = [ident EXCEPT ![run] = IF HasId(m.file["conf"]) /\ ~regen
                                        THEN ident[Source(m.file["conf"])] ELSE run]
    BY <1>4 DEF AgentId
  <2>4. ~fresh => /\ HasId(before.file["conf"]) /\ ident[Source(before.file["conf"])] = 0
                  /\ ~regen
    BY <1>1, <2>1 DEF IdInv, Active
  <2>a. HasId(m.file["conf"]) => Source(m.file["conf"]) \in Versions
    BY <1>1, PartsIs
  <2>5. ~fresh => ident'[run] = 0 /\ ident'[Source(before.file["conf"])] = 0
    BY <1>1, <2>2, <2>3, <2>4, <2>a
  <2>6. ~fresh /\ HasId(m'.file["conf"]) => ident'[Source(m'.file["conf"])] = 0
    BY <2>1, <2>2, <2>5
  <2> QED BY <2>1, <2>4, <2>5, <2>6 DEF IdInv
<1>5. CASE Begin
  <2>1. /\ m' = m /\ before' = m /\ ident' = ident /\ phase' = "running" /\ pc' = 1
        /\ ~fresh' => ~fresh /\ ~regen' /\ HasId(m.file["conf"])
    <3>1. PICK force, renew \in BOOLEAN :
             /\ MayBegin(force, renew) /\ regen' = renew
             /\ fresh' = (fresh \/ renew \/ m.file["conf"] = None)
      BY <1>5 DEF Begin
    <3>2. ~fresh' => ~fresh /\ ~regen' /\ m.file["conf"] # None /\ m.file["conf"] # Torn
      BY <3>1 DEF MayBegin
    <3>3. m' = m /\ before' = m /\ ident' = ident /\ phase' = "running" /\ pc' = 1
      BY <1>5 DEF Begin
    <3> QED BY <1>1, <3>2, <3>3, PartsIs
  <2>2. ~(pc' > 6)
    BY <2>1
  <2> QED BY <1>1, <2>1, <2>2 DEF IdInv
<1>6. CASE Kill \/ Finish
  BY <1>6, <1>1, StopEnd DEF IdInv, Active, Kept
<1>7. CASE RolledBack
  BY <1>7, <1>1, RollEnd DEF IdInv, Active, Kept
<1>8. ASSUME NEW f \in Files, Snapshot(f)
      PROVE  IdInv'
  <2>1. m' = m /\ ident' = ident /\ pc # 6
    BY <1>8, <1>1, SnapshotEffect DEF SnapAt
  <2> QED BY <1>1, <1>3, <1>8, <2>1, FileCommands
<1>9. ASSUME NEW f \in Files, InstallFile(f)
      PROVE  IdInv'
  <2>1. /\ (f = "bin" /\ pc = 5) \/ (f = "conf" /\ pc = 11)
        /\ Writes(f) /\ ident' = ident /\ (Goes \/ Fails)
    BY <1>9, <1>1, InstallEffect DEF NotesKept
  <2>2. phase = "running"
    BY <2>1 DEF Goes, Fails
  <2>3. Moves
    BY <1>9, <1>1, FileCommands
  <2>4. CASE f = "bin"
    BY <1>1, <1>3, <2>1, <2>3, <2>4 DEF Writes
  <2>5. CASE f = "conf"
    <3>1. m'.file["conf"] \in {m.file["conf"], None, run} \cup Parts("conf", run) /\ pc = 11
      BY <2>1, <2>5 DEF Writes
    <3>2. m'.file["conf"] = m.file["conf"] \/ ~HasId(m'.file["conf"])
            \/ Source(m'.file["conf"]) = run
      BY <1>2, <3>1, PartsIs
    <3> QED BY <1>3, <2>1, <2>2, <2>3, <3>1, <3>2
  <2> QED BY <2>1, <2>4, <2>5
<1>10. CASE NotePort
  <2>1. m'.file["conf"] = m.file["conf"] /\ ident' = ident /\ pc # 6
    BY <1>10, <1>1, NoteEffect DEF NotesKept, Writes
  <2> QED BY <1>1, <1>3, <1>10, <2>1, FileCommands
<1>11. CASE StartService
  <2>1. m'.file["conf"] = m.file["conf"] /\ ident' = ident /\ pc # 6
    BY <1>11, <1>1, StartEffect DEF NotesKept, Writes
  <2> QED BY <1>1, <1>3, <1>11, <2>1, OtherCommands
<1>12. ASSUME NEW f \in Files, UndoWrite(f)
       PROVE  IdInv'
  <2>1. Moves
    BY <1>12, <1>1, FileCommands
  <2>2. ident' = ident /\ phase = "rolling"
    BY <1>12, <1>1, UndoWriteEffect DEF Undoes
  <2>3. CASE f # "conf"
    BY <1>1, <1>3, <1>12, <2>1, <2>2, <2>3, UndoWriteEffect DEF Goes
  <2>4. CASE f = "conf"
    <3>1. \/ On(stack, "restore", "conf") /\ m'.file["conf"] = backup["conf"]
          \/ m'.file["conf"] \in {m.file["conf"], None}
          \/ On(stack, "restore", "conf") /\ m'.file["conf"] \in Parts("conf", backup["conf"])
      BY <1>12, <1>1, <2>4, UndoWriteEffect DEF Undoes
    <3>2. On(stack, "restore", "conf") => backup["conf"] = before.file["conf"]
      BY <1>1 DEF FileInv
    <3>3. ~Goes
      BY <2>2 DEF Goes
    <3>4. \/ m'.file["conf"] = m.file["conf"] \/ ~HasId(m'.file["conf"])
          \/ Source(m'.file["conf"]) = Source(before.file["conf"])
      BY <1>2, <3>1, <3>2, PartsIs
    <3> QED BY <1>3, <2>1, <2>2, <3>3, <3>4
  <2> QED BY <2>3, <2>4
<1>13. ASSUME Moves, FilesFrame, ident' = ident, Goes => pc # 6
       PROVE  IdInv'
  <2>1. m'.file["conf"] = m.file["conf"]
    BY <1>13 DEF FilesFrame, FilesKept
  <2> QED BY <1>3, <1>13, <2>1
<1>14. ASSUME NEW d \in Dirs, MakeDir(d) \/ UndoDir(d) \/ UndoConfDir \/ UndoPerms(d)
       PROVE  IdInv'
  <2>1. Goes => pc # 6
    <3>1. CASE MakeDir(d)
      BY <1>1, <3>1, DirEffect DEF DirAt
    <3>2. CASE UndoDir(d) \/ UndoConfDir \/ UndoPerms(d)
      BY <3>2 DEF UndoDir, UndoConfDir, UndoPerms, Undoing, Goes
    <3> QED BY <1>14, <3>1, <3>2
  <2> QED BY <1>1, <1>13, <1>14, <2>1, DirCommands
<1>15. CASE AddUser \/ UndoUser
  <2>1. Goes => pc # 6
    BY <1>1, <1>15, UserEffect DEF UndoUser, Undoing, Goes
  <2> QED BY <1>1, <1>13, <1>15, <2>1, UserCommands
<1>16. CASE OpenPort \/ UndoRule
  <2>1. Goes => pc # 6
    BY <1>1, <1>16, RuleEffect DEF UndoRule, Undoing, Goes
  <2> QED BY <1>1, <1>13, <1>16, <2>1, RuleCommands
<1>17. CASE StopService \/ Register \/ UndoStop \/ UndoRegister \/ UndoService
  <2>1. Goes => pc # 6
    <3>1. CASE StopService \/ Register
      <4>1. CASE StopService
        BY <1>1, <4>1, StopEffect
      <4>2. CASE Register
        BY <1>1, <4>2, RegisterEffect
      <4> QED BY <3>1, <4>1, <4>2
    <3>2. CASE UndoStop \/ UndoRegister \/ UndoService
      BY <3>2 DEF UndoStop, UndoRegister, UndoService, Undoing, Goes
    <3> QED BY <1>17, <3>1, <3>2
  <2> QED BY <1>1, <1>13, <1>17, <2>1, ServiceCommands
<1>18. CASE MakeBackup \/ TestAgent
  <2>1. m' = m /\ ident' = ident
    BY <1>1, <1>18, IdleEffect DEF MakeBackup, TestAgent
  <2>2. pc # 6
    BY <1>1, <1>18, WhichCommand DEF MakeBackup, TestAgent, At, RunInv
  <2> QED BY <1>1, <1>3, <1>18, <2>1, <2>2, OtherCommands
<1>19. Dirs # {}
  BY DEF Dirs
<1> QED
  BY <1>4, <1>5, <1>6, <1>7, <1>8, <1>9, <1>10, <1>11, <1>12, <1>14, <1>15, <1>16, <1>17, <1>18,
     <1>19, StepCases

(* A machine is what its parts are. *)
LEMMA SameMachine ==
    ASSUME NEW x \in Machines, NEW y \in Machines,
           x.user = y.user, x.unit = y.unit, x.enabled = y.enabled, x.active = y.active,
           x.rule = y.rule, \A f \in Files : x.file[f] = y.file[f],
           \A d \in Dirs : x.dir[d] = y.dir[d]
    PROVE  x = y
<1>1. x.file = y.file
  <2>1. /\ x.file \in [Files -> Contents]
        /\ y.file \in [Files -> Contents]
    BY DEF Machines
  <2> QED BY <2>1
<1>2. x.dir = y.dir
  <2>1. x.dir \in [Dirs -> {"absent", "was", "set"}] /\ y.dir \in [Dirs -> {"absent", "was", "set"}]
    BY DEF Machines
  <2> QED BY <2>1
<1> QED BY <1>1, <1>2 DEF Machines

(* When the rollback ends, no command is left, so that every part of the   *)
(* machine is as it was.                                                   *)
LEMMA RestoredStep ==
    ASSUME InstallerIInv, Next
    PROVE  Restored'
<1>1. CASE RolledBack
  <2>1. /\ m' = m /\ before' = before /\ reported' = reported /\ quiet' = quiet /\ Active
        /\ \A x, y : ~On(stack, x, y)
    BY <1>1, RollEnd DEF Kept, Active
  <2> SUFFICES ASSUME ~reported, quiet = {}
               PROVE  m = before
    BY <2>1 DEF Restored
  <2>2. m \in Machines /\ before \in Machines
    BY DEF InstallerIInv, TypeOK
  <2>3. \A f \in Files : m.file[f] = before.file[f]
    BY <2>1 DEF InstallerIInv, FileInv
  <2>4. \A d \in Dirs : m.dir[d] = before.dir[d]
    BY <2>1 DEF InstallerIInv, DirInv
  <2>5. m.user = before.user /\ m.rule = before.rule
    BY <2>1 DEF InstallerIInv, UserInv, RuleInv
  <2>6. m.unit = before.unit /\ m.enabled = before.enabled /\ m.active = before.active
    <3>1. /\ m.unit \in BOOLEAN /\ m.enabled \in BOOLEAN /\ m.active \in BOOLEAN
          /\ before.unit \in BOOLEAN /\ before.enabled \in BOOLEAN /\ before.active \in BOOLEAN
      BY <2>2 DEF Machines
    <3>2. ServiceInv
      BY DEF InstallerIInv
    <3>3. CASE before.unit
      BY <2>1, <3>1, <3>2, <3>3 DEF ServiceInv
    <3>4. CASE ~before.unit
      BY <2>1, <3>1, <3>2, <3>4 DEF ServiceInv
    <3> QED BY <3>3, <3>4
  <2> QED BY <2>2, <2>3, <2>4, <2>5, <2>6, SameMachine
<1>2. CASE Begin \/ Kill \/ Finish
  BY <1>2 DEF Begin, Kill, Finish, Restored
<1>3. CASE Moves
  BY <1>3 DEF Moves, Goes, Fails, Rolls, Restored
<1>4. TypeOK /\ RunInv
  BY DEF InstallerIInv
<1>5. ASSUME NEW f \in Files, Snapshot(f) \/ InstallFile(f) \/ NotePort \/ UndoWrite(f)
      PROVE  Restored'
  BY <1>3, <1>4, <1>5, FileCommands
<1>6. ASSUME NEW d \in Dirs, MakeDir(d) \/ UndoDir(d) \/ UndoConfDir \/ UndoPerms(d)
      PROVE  Restored'
  BY <1>3, <1>4, <1>6, DirCommands
<1>7. CASE AddUser \/ UndoUser
  BY <1>3, <1>4, <1>7, UserCommands
<1>8. CASE OpenPort \/ UndoRule
  BY <1>3, <1>4, <1>8, RuleCommands
<1>9. CASE StopService \/ Register \/ UndoStop \/ UndoRegister \/ UndoService
  BY <1>3, <1>4, <1>9, ServiceCommands
<1>10. CASE MakeBackup \/ TestAgent \/ AgentId \/ StartService
  BY <1>3, <1>4, <1>10, OtherCommands
<1>11. Files # {} /\ Dirs # {}
  BY DEF Files, Dirs
<1> QED
  BY <1>1, <1>2, <1>5, <1>6, <1>7, <1>8, <1>9, <1>10, <1>11, StepCases

(* The invariant holds before the first run. *)
LEMMA InstallerBegins ==
    ASSUME Init
    PROVE  InstallerIInv
<1>1. /\ m \in Machines /\ before = m /\ phase = "idle" /\ stack = << >> /\ ~Active
      /\ \A x, y : ~On(stack, x, y)
  BY OnEmpty DEF Init, InitialMachines, Active
<1>2. TypeOK
  <2>1. NoBackup \in [Files -> Contents]
    BY ContentsAre
  <2>2. ident \in [Versions -> Versions]
    BY DEF Init
  <2>3. stack \in Seq(UndoCommands)
    BY <1>1, OnEmpty
  <2>4. /\ run \in 0..MaxRuns /\ failures \in 0..MaxFailures
        /\ pc \in 0..Len(Program) + 1
    BY InstallerAssumption, ProgramIs DEF Init
  <2> QED BY <1>1, <2>1, <2>2, <2>3, <2>4 DEF Init, TypeOK
<1>3. RunInv
  BY <1>1, OnEmpty DEF RunInv
<1>4. \A f \in Files : FileInv(f)
  BY <1>1 DEF FileInv
<1>5. \A d \in Dirs : DirInv(d)
  BY <1>1 DEF DirInv
<1>6. UserInv /\ RuleInv /\ Restored
  BY <1>1 DEF UserInv, RuleInv, Restored
<1>7. Nested
  BY <1>1 DEF Nested, Init, InitialMachines
<1>8. ServiceInv
  BY <1>1 DEF ServiceInv, Init, InitialMachines
<1>9. IdInv
  <2>1. "conf" \in Files /\ 0 \in Versions /\ ~HasId(None) /\ Source(0) = 0
    <3>1. "conf" \in Files /\ 0 \in Versions
      BY InstallerAssumption DEF Files, Versions
    <3>2. 0 \in Contents /\ None \in Contents
      BY <3>1 DEF Contents
    <3> QED BY <3>1, <3>2, PartsIs
  <2>2. m.file["conf"] \in {None, 0}
    BY <2>1 DEF Init, InitialMachines
  <2>3. ident[0] = 0
    BY <2>1 DEF Init
  <2> QED BY <1>1, <2>1, <2>2, <2>3 DEF IdInv
<1> QED BY <1>2, <1>3, <1>4, <1>5, <1>6, <1>7, <1>8, <1>9 DEF InstallerIInv

(* Every step keeps the invariant. *)
LEMMA InstallerStep ==
    ASSUME InstallerIInv, [Next]_vars
    PROVE  InstallerIInv'
<1>1. CASE Next
  <2>0. TypeOK /\ RunInv
    BY DEF InstallerIInv
  <2>1. TypeOK' /\ RunInv'
    BY <1>1, <2>0, TypeStep
  <2>2. \A f \in Files : FileInv(f)'
    BY <1>1, <2>1, FileStep
  <2>3. \A d \in Dirs : DirInv(d)'
    BY <1>1, <2>1, DirStep
  <2>4. Nested' /\ UserInv' /\ RuleInv' /\ ServiceInv' /\ IdInv' /\ Restored'
    BY <1>1, <2>1, NestedStep, UserStep, RuleStep, ServiceStep, IdStep, RestoredStep
  <2> QED BY <2>1, <2>2, <2>3, <2>4 DEF InstallerIInv
<1>2. CASE UNCHANGED vars
  <2> USE <1>2 DEF vars, runVars
  <2>1. TypeOK' /\ Restored'
    BY DEF InstallerIInv, TypeOK, Restored
  <2>2. RunInv' /\ Nested' /\ IdInv'
    BY DEF InstallerIInv, RunInv, Nested, IdInv, Active
  <2>6. UserInv' /\ RuleInv'
    BY DEF InstallerIInv, UserInv, RuleInv, Active
  <2>3. ServiceInv'
    BY SMT DEF InstallerIInv, ServiceInv, Active
  <2>4. \A f \in Files : FileInv(f)'
    BY DEF InstallerIInv, FileInv, Active
  <2>5. \A d \in Dirs : DirInv(d)'
    BY DEF InstallerIInv, DirInv, Active
  <2> QED BY <2>1, <2>2, <2>3, <2>4, <2>5, <2>6 DEF InstallerIInv
<1> QED BY <1>1, <1>2

-----------------------------------------------------------------------------
(***************************************************************************)
(* The theorems                                                            *)
(***************************************************************************)

(* The inductive invariant holds for every number of runs and failures.    *)
THEOREM InstallerIInvAlways == Spec => []InstallerIInv
BY InstallerBegins, InstallerStep, PTL DEF Spec

(* Whichever command of install.sh or of its rollback fails, is            *)
(* interrupted or killed, and however often: every variable has its type   *)
(* and every original file is in its place or in the backup.               *)
THEOREM OriginalsSafe == Spec => []InstallerInv
<1>1. InstallerIInv => InstallerInv
  <2> SUFFICES ASSUME InstallerIInv, Active \/ phase \in {"failed", "killed"},
                      NEW f \in {"bin", "conf", "ports"}, before.file[f] \in Versions
               PROVE  before.file[f] \in {m.file[f], backup[f]}
    BY DEF InstallerInv, OriginalSafe, InstallerIInv, Active
  <2>1. f \in Files
    BY DEF Files
  <2> QED BY <2>1 DEF InstallerIInv, FileInv
<1> QED BY <1>1, InstallerIInvAlways, PTL

(* A failed installation whose rollback reports nothing leaves the machine *)
(* as it found it, up to what on_error cannot know of.                     *)
THEOREM RollbackRestores == Spec => []Restored
<1>1. InstallerIInv => Restored
  BY DEF InstallerIInv
<1> QED BY <1>1, InstallerIInvAlways, PTL

(* The agent_id outlives every sequence of failed, killed and repeated     *)
(* installations that were not told to make a new one.                     *)
THEOREM AgentIdKept == Spec => []IdentityKept
<1>1. InstallerIInv => IdentityKept
  BY DEF InstallerIInv, IdInv, IdentityKept
<1> QED BY <1>1, InstallerIInvAlways, PTL
=============================================================================
