----------------------------- MODULE Installer -----------------------------
(***************************************************************************)
(* The installer of the agent (scripts/install.sh, with the systemd side   *)
(* of cmd/agent/service_unix.go): a sequence of commands, each of which    *)
(* may fail or be interrupted, and a stack of rollback commands that       *)
(* on_error runs from its top.  The installer may be killed as well, in    *)
(* the rollback too, and be run again.                                     *)
(*                                                                         *)
(* Abstractions.  A file has the number of the run that wrote it, 0 if it  *)
(* was there from the beginning; a directory is absent, as it was, or has  *)
(* the owner and mode of the installer.  What running agents write, other  *)
(* than the first status.json, is left out.                                *)
(***************************************************************************)
EXTENDS Integers, Sequences

CONSTANTS
    MaxRuns,    \* bound: runs of the installer
    MaxFailures \* bound: commands that fail, and kills

ASSUME InstallerAssumption == MaxRuns \in Nat /\ MaxFailures \in Nat

Files    == {"bin", "conf", "status", "ports"}
Dirs     == {"conf", "data", "spool", "log"}
None     == -1      \* the file does not exist
Torn     == -2      \* a part of it was written
Versions == 0..MaxRuns
Cut(v)   == -3 - v  \* a part of version v of the config, with its agent_id
Cuts     == {Cut(v) : v \in Versions}
Contents == Versions \cup Cuts \cup {None, Torn}

(* The agent_id of a config can be read, and the version it comes from.    *)
HasId(c)  == c \in Versions \cup Cuts
Source(c) == IF c \in Versions THEN c ELSE Cut(c)

(* What there may be of a file f of which a part was written.              *)
Parts(f, c) == {Torn} \cup IF f = "conf" /\ HasId(c) THEN {Cut(Source(c))} ELSE {}

Machines == [user : BOOLEAN, unit : BOOLEAN, enabled : BOOLEAN, active : BOOLEAN,
             rule : BOOLEAN, file : [Files -> Contents],
             dir : [Dirs -> {"absent", "was", "set"}]]

(* The rollback commands. *)
UndoCommands ==
    ({"restore_service", "uninstall", "stop"} \X {"service"})
        \cup ({"restore", "remove"} \X Files) \cup ({"perms", "rmdir", "rm-rf"} \X Dirs)
        \cup {<<"userdel", "user">>, <<"close", "rule">>}

VARIABLES
    m,          \* the machine
    firewall,   \* ufw or firewalld is active
    run,        \* runs so far
    phase,      \* "idle", "running", "rolling", "failed", "killed", "done"
    pc,         \* the next command of Program
    regen,      \* --regenerate-id
    stack,      \* RB_CMD
    backup,     \* backup[f]: the copy of f in BACKUP
    reported,   \* rollback_failed
    quiet,      \* what the rollback does not undo and does not know of
    before,     \* history: the machine when this run began
    ident,      \* ident[v]: the run that made the agent_id of version v of conf
    fresh,      \* history: a run was told, or had, to make a new agent_id
    failures

runVars == <<run, regen, before, fresh, firewall>>
vars == <<m, runVars, phase, pc, stack, backup, reported, quiet, ident, failures>>

NoBackup == [f \in Files |-> None]

(* A machine without the agent, with what uninstall.sh leaves, or with an  *)
(* installation, stopped or running; with or without a rule for the port.  *)
InitialMachines ==
    {i \in Machines :
        /\ \A f \in Files : i.file[f] \in {None, 0}
        /\ \A d \in Dirs : i.dir[d] \in {"absent", "was"}
        /\ (i.enabled \/ i.active) => i.unit
        /\ i.unit => i.user /\ i.file["bin"] = 0 /\ i.file["conf"] = 0
        /\ (\E f \in {"conf", "ports"} : i.file[f] = 0) => i.dir["conf"] = "was"
        /\ i.file["status"] = i.file["conf"]
        /\ i.dir["data"] = i.dir["spool"] /\ i.dir["spool"] = i.dir["log"]}

Init ==
    /\ m \in InitialMachines /\ firewall \in BOOLEAN
    /\ run = 0 /\ phase = "idle" /\ pc = 0 /\ regen = FALSE /\ stack = << >>
    /\ backup = NoBackup /\ reported = FALSE /\ quiet = {}
    /\ before = m /\ ident = [v \in Versions |-> v] /\ fresh = (m.file["conf"] = None)
    /\ failures = 0

Failure == failures < MaxFailures /\ failures' = failures + 1

-----------------------------------------------------------------------------
(***************************************************************************)
(* The commands                                                            *)
(***************************************************************************)
Program == << <<"stop", "service">>, <<"mktemp", "backup">>, <<"useradd", "user">>,
              <<"snapshot", "bin">>, <<"install", "bin">>, <<"agent_id", "conf">>,
              <<"dir", "conf">>,
              <<"snapshot", "conf">>, <<"snapshot", "status">>, <<"snapshot", "ports">>,
              <<"install", "conf">>,
              <<"dir", "data">>, <<"dir", "spool">>, <<"dir", "log">>,
              <<"firewall", "ports">>, <<"firewall", "rule">>,
              <<"register", "service">>, <<"test", "bin">>, <<"start", "service">> >>

At(cmd, arg) == phase = "running" /\ pc <= Len(Program) /\ Program[pc] = <<cmd, arg>>

(* A command goes well, or fails and leaves one of the machines left; the  *)
(* rollback commands are pushed before it or after it.                     *)
Command(done, left, pushBefore, pushAfter) ==
    /\ \/ /\ m' = done
          /\ stack' = stack \o pushBefore \o pushAfter
          /\ pc' = pc + 1
          /\ UNCHANGED <<phase, failures>>
       \/ /\ Failure
          /\ m' \in left
          /\ stack' = stack \o pushBefore
          /\ phase' = "rolling"
          /\ UNCHANGED pc
    /\ UNCHANGED <<runVars, reported>>

WithFile(f, v) == [m EXCEPT !.file[f] = v]
WithDir(d, v)  == [m EXCEPT !.dir[d] = v]

(* What install, which removes the old file first, may leave of a file.    *)
Writing(f) == {WithFile(f, v) : v \in {None, run} \cup Parts(f, run)}

(* Mutant of MayBegin: the agent_id of an existing config is not looked at.*)
MayBeginAnyId(force, renew) == (m.unit \/ m.file["bin"] # None) => force

(* The checks before the first change: an installation is replaced only    *)
(* with --force, and an agent_id that cannot be read only on demand; a     *)
(* config that is cut off below it is accepted.                            *)
MayBegin(force, renew) ==
    /\ (m.unit \/ m.file["bin"] # None) => force
    /\ m.file["conf"] = Torn => renew

Begin ==
    /\ phase \in {"idle", "failed", "killed", "done"} /\ run < MaxRuns
    /\ \E force, renew \in BOOLEAN :
         /\ MayBegin(force, renew)
         /\ regen' = renew
         /\ fresh' = (fresh \/ renew \/ m.file["conf"] = None)
    /\ run' = run + 1 /\ phase' = "running" /\ pc' = 1
    /\ stack' = << >> /\ backup' = NoBackup /\ reported' = FALSE /\ quiet' = {}
    /\ before' = m
    /\ UNCHANGED <<m, firewall, ident, failures>>

(* restore_service is pushed, and an existing service stopped. *)
StopService ==
    /\ At("stop", "service")
    /\ IF before.unit
       THEN Command([m EXCEPT !.active = FALSE], {m, [m EXCEPT !.active = FALSE]},
                    << <<"restore_service", "service">> >>, << >>)
       ELSE Command(m, {}, << >>, << >>)
    /\ UNCHANGED <<backup, quiet, ident>>

(* mktemp, chmod *)
MakeBackup ==
    /\ At("mktemp", "backup")
    /\ Command(m, {m}, << >>, << >>)
    /\ UNCHANGED <<backup, quiet, ident>>

(* An account that useradd has made before it fails or is interrupted is   *)
(* not removed: its rollback is pushed only afterwards.                    *)
AddUser ==
    /\ At("useradd", "user")
    /\ IF m.user
       THEN Command(m, {}, << >>, << >>) /\ UNCHANGED quiet
       ELSE /\ Command([m EXCEPT !.user = TRUE], {m, [m EXCEPT !.user = TRUE]},
                       << >>, << <<"userdel", "user">> >>)
            /\ quiet' = IF phase' = "rolling" /\ m'.user THEN quiet \cup {"user"} ELSE quiet
    /\ UNCHANGED <<backup, ident>>

(* snapshot *)
Snapshot(f) ==
    /\ At("snapshot", f)
    /\ IF m.file[f] = None
       THEN Command(m, {}, << >>, << <<"remove", f>> >>) /\ UNCHANGED backup
       ELSE /\ Command(m, {m}, << >>, << <<"restore", f>> >>)
            /\ backup' = [backup EXCEPT ![f] = IF phase' = "running" THEN m.file[f] ELSE Torn]
    /\ UNCHANGED <<quiet, ident>>

(* The program and the config. *)
InstallFile(f) ==
    /\ At("install", f)
    /\ Command(WithFile(f, run), {m} \cup Writing(f), << >>, << >>)
    /\ UNCHANGED <<backup, quiet, ident>>

(* The agent_id of an existing config is kept, unless there is to be a new *)
(* one.                                                                    *)
AgentId ==
    /\ At("agent_id", "conf")
    /\ Command(m, {m}, << >>, << >>)
    /\ ident' = [ident EXCEPT ![run] = IF HasId(m.file["conf"]) /\ ~regen
                                       THEN ident[Source(m.file["conf"])] ELSE run]
    /\ UNCHANGED <<backup, quiet>>

(* The directories: CONF_DIR is removed again only if empty.               *)
MakeDir(d) ==
    /\ At("dir", d)
    /\ LET undo == IF m.dir[d] # "absent" THEN "perms" ELSE IF d = "conf" THEN "rmdir" ELSE "rm-rf"
       IN  Command(WithDir(d, "set"), {m, WithDir(d, "set")}, << <<undo, d>> >>, << >>)
    /\ UNCHANGED <<backup, quiet, ident>>

(* firewall-ports (its snapshot has been made), and the rule. *)
NotePort ==
    /\ At("firewall", "ports")
    /\ IF firewall
       THEN Command(WithFile("ports", run), {m} \cup Writing("ports"), << >>, << >>)
       ELSE Command(m, {}, << >>, << >>)
    /\ UNCHANGED <<backup, quiet, ident>>

OpenPort ==
    /\ At("firewall", "rule")
    /\ IF firewall /\ ~m.rule
       THEN Command([m EXCEPT !.rule = TRUE], {m, [m EXCEPT !.rule = TRUE]},
                    << <<"close", "rule">> >>, << >>)
       ELSE Command(m, {}, << >>, << >>)
    /\ UNCHANGED <<backup, quiet, ident>>

(* "agent install" (installService), which takes its own changes back when *)
(* it fails but not when it is interrupted; or systemctl enable.           *)
Registered == [m EXCEPT !.unit = TRUE, !.enabled = TRUE]

Register ==
    /\ At("register", "service")
    /\ LET stop == << <<"stop", "service">> >>
       IN  IF before.unit
           THEN Command([m EXCEPT !.enabled = TRUE], {m, [m EXCEPT !.enabled = TRUE]}, << >>, stop)
           ELSE Command(Registered, {m, [m EXCEPT !.unit = TRUE], Registered},
                        << <<"uninstall", "service">> >>, stop)
    /\ UNCHANGED <<backup, quiet, ident>>

TestAgent ==
    /\ At("test", "bin")
    /\ Command(m, {m}, << >>, << >>)
    /\ UNCHANGED <<backup, quiet, ident>>

(* The agent is started, writes its status file, and may not stay alive.   *)
Started == [WithFile("status", run) EXCEPT !.active = TRUE]

StartService ==
    /\ At("start", "service")
    /\ Command(Started, {m, Started, WithFile("status", run)}, << >>, << >>)
    /\ UNCHANGED <<backup, quiet, ident>>

(* The traps are taken off and the backup is removed. *)
Finish ==
    /\ phase = "running" /\ pc > Len(Program)
    /\ phase' = "done" /\ backup' = NoBackup /\ stack' = << >>
    /\ UNCHANGED <<m, runVars, pc, reported, quiet, ident, failures>>

-----------------------------------------------------------------------------
(***************************************************************************)
(* on_error                                                                *)
(***************************************************************************)

(* Mutant of Top: the rollback goes the way of the installation. *)
TopFirst == 1

(* The rollback starts with the command pushed last. *)
Top == Len(stack)

Undoing(cmd, arg) == phase = "rolling" /\ stack # << >> /\ stack[Top] = <<cmd, arg>>

Popped == [i \in 1..Len(stack) - 1 |-> IF i < Top THEN stack[i] ELSE stack[i + 1]]

(* A rollback command goes well, or its failure is noted.                  *)
Undo(possible, done, left) ==
    /\ stack' = Popped
    /\ \/ possible /\ m' = done /\ UNCHANGED <<reported, failures>>
       \/ ~possible /\ m' = m /\ reported' = TRUE /\ UNCHANGED failures
       \/ Failure /\ m' \in left /\ reported' = TRUE
    /\ UNCHANGED <<runVars, phase, pc, backup, ident>>

UndoStop ==
    /\ Undoing("stop", "service")
    /\ Undo(TRUE, [m EXCEPT !.active = FALSE], {m})
    /\ UNCHANGED quiet

(* "agent uninstall" (uninstallService), if there is a unit. *)
Unregistered == [m EXCEPT !.unit = FALSE, !.enabled = FALSE, !.active = FALSE]

UndoRegister ==
    /\ Undoing("uninstall", "service")
    /\ Undo(m.unit => m.file["bin"] = run, Unregistered,
            {m, [m EXCEPT !.enabled = FALSE, !.active = FALSE], Unregistered})
    /\ UNCHANGED quiet

UndoRule ==
    /\ Undoing("close", "rule")
    /\ Undo(TRUE, [m EXCEPT !.rule = FALSE], {m, [m EXCEPT !.rule = FALSE]})
    /\ UNCHANGED quiet

(* rm -rf of a directory, which takes the ones in it with it. *)
UndoDir(d) ==
    /\ Undoing("rm-rf", d)
    /\ Undo(TRUE, [m EXCEPT !.dir = [e \in Dirs |-> IF e = d \/ (d = "data" /\ e = "spool")
                                                    THEN "absent" ELSE @[e]]], {m})
    /\ UNCHANGED quiet

UndoConfDir ==
    /\ Undoing("rmdir", "conf")
    /\ Undo(\A f \in {"conf", "status", "ports"} : m.file[f] = None, WithDir("conf", "absent"), {m})
    /\ UNCHANGED quiet

(* "chmod ...; chown ...": only the failure of the second is noted. *)
UndoPerms(d) ==
    /\ Undoing("perms", d)
    /\ \/ /\ Undo(m.dir[d] # "absent", WithDir(d, before.dir[d]), {m})
          /\ UNCHANGED quiet
       \/ /\ Failure
          /\ stack' = Popped /\ quiet' = quiet \cup {"chmod"}
          /\ UNCHANGED <<m, runVars, phase, pc, backup, reported, ident>>

UndoWrite(f) ==
    /\ \/ /\ Undoing("restore", f)
          /\ Undo(TRUE, WithFile(f, backup[f]),
                  {m} \cup {WithFile(f, v) : v \in Parts(f, backup[f])})
       \/ /\ Undoing("remove", f)
          /\ Undo(TRUE, WithFile(f, None), {m})
    /\ UNCHANGED quiet

(* userdel refuses an account that has processes. *)
UndoUser ==
    /\ Undoing("userdel", "user")
    /\ Undo(~m.active, [m EXCEPT !.user = FALSE], {m})
    /\ UNCHANGED quiet

(* restore_service: its result is that of the last start, if any, and the  *)
(* failure of enable or disable is not noted.                              *)
UndoService ==
    /\ Undoing("restore_service", "service")
    /\ LET restored(enabled) == [m EXCEPT !.enabled = enabled, !.active = before.active \/ @]
       IN  \/ /\ Undo(TRUE, restored(before.enabled), {[m EXCEPT !.enabled = before.enabled], m})
              /\ UNCHANGED quiet
           \/ /\ Failure
              /\ m' = restored(m.enabled) /\ stack' = Popped /\ quiet' = quiet \cup {"enable"}
              /\ UNCHANGED <<runVars, phase, pc, backup, reported, ident>>

(* Mutant of RolledBack: the backup is removed in any case. *)
RolledBackNoBackup ==
    /\ phase = "rolling" /\ stack = << >>
    /\ phase' = "failed"
    /\ backup' = NoBackup
    /\ UNCHANGED <<m, runVars, pc, stack, reported, quiet, ident, failures>>

(* The backup is kept if a rollback command has failed. *)
RolledBack ==
    /\ phase = "rolling" /\ stack = << >>
    /\ phase' = "failed"
    /\ backup' = IF reported THEN backup ELSE NoBackup
    /\ UNCHANGED <<m, runVars, pc, stack, reported, quiet, ident, failures>>

(* The installer is killed; a second signal suffices during the rollback.  *)
Kill ==
    /\ Failure
    /\ phase \in {"running", "rolling"}
    /\ phase' = "killed" /\ stack' = << >>
    /\ UNCHANGED <<m, runVars, pc, backup, reported, quiet, ident>>

Next ==
    \/ Begin \/ StopService \/ MakeBackup \/ AddUser \/ AgentId \/ NotePort \/ OpenPort
    \/ Register \/ TestAgent \/ StartService \/ Finish
    \/ \E f \in Files : Snapshot(f) \/ InstallFile(f) \/ UndoWrite(f)
    \/ \E d \in Dirs : MakeDir(d) \/ UndoDir(d) \/ UndoPerms(d)
    \/ UndoStop \/ UndoRegister \/ UndoRule \/ UndoConfDir \/ UndoUser \/ UndoService
    \/ RolledBack \/ Kill

Spec == Init /\ [][Next]_vars

-----------------------------------------------------------------------------
(***************************************************************************)
(* Properties                                                              *)
(***************************************************************************)

(* Every variable has its type. *)
TypeOK ==
    /\ m \in Machines /\ before \in Machines /\ firewall \in BOOLEAN
    /\ run \in 0..MaxRuns /\ pc \in 0..Len(Program) + 1
    /\ phase \in {"idle", "running", "rolling", "failed", "killed", "done"}
    /\ regen \in BOOLEAN /\ reported \in BOOLEAN /\ fresh \in BOOLEAN
    /\ stack \in Seq(UndoCommands)
    /\ backup \in [Files -> Contents]
    /\ quiet \subseteq {"user", "chmod", "enable"}
    /\ ident \in [Versions -> Versions] /\ failures \in 0..MaxFailures

(* An installation that has failed, at any command, and been rolled back   *)
(* without a report of failure has left the machine as it was: services,   *)
(* account, files, directories and rule.  Excepted is what on_error cannot *)
(* know of: an interrupted useradd, a chmod before a chown that works, and *)
(* systemctl enable or disable.                                            *)
Restored == phase = "failed" /\ ~reported /\ quiet = {} => m = before

(* At any moment up to the end of the installation, killed or not, every   *)
(* original file is where it was or in the backup, which is not removed    *)
(* before it is back.                                                      *)
OriginalSafe ==
    phase \in {"running", "rolling", "failed", "killed"} =>
        \A f \in {"bin", "conf", "ports"} : before.file[f] \in Versions =>
            before.file[f] \in {m.file[f], backup[f]}

(* Every variable has its type, and no original file is lost, whichever    *)
(* command of install.sh or of its rollback fails or is killed.            *)
InstallerInv == TypeOK /\ OriginalSafe

(* The agent keeps its agent_id, on which the collector's deduplication    *)
(* and its heartbeat row hang, over failed and repeated installations and  *)
(* configs that were cut off, until a run is asked for a new one or finds  *)
(* no config.                                                              *)
IdentityKept == ~fresh /\ HasId(m.file["conf"]) => ident[Source(m.file["conf"])] = 0
=============================================================================
