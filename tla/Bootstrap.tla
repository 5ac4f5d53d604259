------------------------------ MODULE Bootstrap ------------------------------
(***************************************************************************)
(* The installer of the release host (deploy/github-release/bootstrap.py,  *)
(* host_script) beside the commands it installs (agent.py).  A package is  *)
(* an executor with the helper it pins; the configuration names the        *)
(* protected files of the host, of which only the number of migrations is  *)
(* kept.  Scripts and commands share the deployment lock, but each reads   *)
(* something it counts on before it takes it.                              *)
(***************************************************************************)
EXTENDS Integers

CONSTANTS Packages, Scripts, Commands, None, MaxMigrations

BootstrapAssumption ==
    /\ MaxMigrations \in Nat
    /\ None \notin Packages \cup Nat \cup Scripts \cup Commands
    /\ Scripts \cap Commands = {}

VARIABLES
    disk,       \* the installed helper, executor and configuration
    left,       \* the files that have a .install-new beside them
    protected,  \* the migrations among the protected files of the runtime
    lock,       \* the script or command that holds cloud-billing-release.lock, or None
    script,     \* script[s]: a run of the installer on the host
    command     \* command[c]: a run of the executor that needs its helper

vars == <<disk, left, protected, lock, script, command>>

Order == <<"helper", "agent", "config">>
Disk == [helper : Packages \cup {None}, agent : Packages \cup {None}, config : 0..MaxMigrations \cup {None}]
Nothing == [helper |-> None, agent |-> None, config |-> None]

NoScript == [pc |-> "idle", target |-> Nothing, previous |-> Nothing, at |-> 1, temporary |-> FALSE]
NoCommand == [pc |-> "idle", code |-> None, config |-> None, helper |-> None]

Replacing == {"replacing", "restoring"}
ScriptHolds == {"locked"} \cup Replacing
CommandHolds == {"locked", "checked", "loaded", "copied"}

Run == [pc : {"idle", "ready"} \cup ScriptHolds, target : Disk, previous : Disk, at : 1..4, temporary : BOOLEAN]
Execution == [pc : {"idle", "started", "read"} \cup CommandHolds, code : Packages \cup {None},
              config : 0..MaxMigrations \cup {None}, helper : Packages \cup {None}]

TypeOK ==
    /\ disk \in Disk /\ left \subseteq {"helper", "agent", "config"} /\ protected \in 0..MaxMigrations
    /\ lock \in Scripts \cup Commands \cup {None}
    /\ script \in [Scripts -> Run] /\ command \in [Commands -> Execution]

Init ==
    /\ disk = Nothing /\ left = {} /\ protected = 0 /\ lock = None
    /\ script = [s \in Scripts |-> NoScript]
    /\ command = [c \in Commands |-> NoCommand]

-----------------------------------------------------------------------------
(* The installer.  An operator who stopped waiting for a script may send     *)
(* another one.                                                              *)

\* The read-only preflight: the operator's checkout has the migrations of the host.
Start(s) ==
    /\ script[s].pc = "idle"
    /\ \E p \in Packages :
        script' = [script EXCEPT ![s].pc = "ready",
                                 ![s].target = [helper |-> p, agent |-> p, config |-> protected]]
    /\ UNCHANGED <<disk, left, protected, lock, command>>

EndScript(s) ==
    /\ script' = [script EXCEPT ![s] = NoScript]
    /\ lock' = IF lock = s THEN None ELSE lock

TakeScriptLock(s) ==
    /\ script[s].pc = "ready"
    /\ IF lock = None THEN script' = [script EXCEPT ![s].pc = "locked"] /\ lock' = s ELSE EndScript(s)
    /\ UNCHANGED <<disk, left, protected, command>>

\* What the preflight saw is looked at again, and what will be replaced is kept.
Recheck(s) ==
    /\ script[s].pc = "locked"
    /\ IF script[s].target.config = protected /\ left = {}
       THEN script' = [script EXCEPT ![s].pc = "replacing", ![s].previous = disk] /\ UNCHANGED lock
       ELSE EndScript(s)
    /\ UNCHANGED <<disk, left, protected, command>>

Wanted(s) == IF script[s].pc = "replacing" THEN script[s].target ELSE script[s].previous
Busy(s) == script[s].pc \in Replacing /\ script[s].at \in 1..3
File(s) == Order[script[s].at]

\* replace_file: a temporary file that must not exist, then the rename.
WriteTemporary(s) ==
    /\ Busy(s) /\ ~script[s].temporary /\ Wanted(s)[File(s)] # None
    /\ left' = left \cup {File(s)}
    /\ script' = [script EXCEPT ![s].temporary = TRUE]
    /\ UNCHANGED <<disk, protected, lock, command>>

\* What was not there is removed again.
PutFile(s) ==
    /\ Busy(s) /\ (script[s].temporary \/ Wanted(s)[File(s)] = None)
    /\ disk' = [disk EXCEPT ![File(s)] = Wanted(s)[File(s)]]
    /\ left' = left \ {File(s)}
    /\ script' = [script EXCEPT ![s].at = @ + 1, ![s].temporary = FALSE]
    /\ UNCHANGED <<protected, lock, command>>

\* An exception puts everything back; one while putting back ends the script.
Raises(s) ==
    /\ script[s].pc \in Replacing
    /\ left' = IF script[s].temporary THEN left \ {File(s)} ELSE left
    /\ IF script[s].pc = "replacing"
       THEN /\ script' = [script EXCEPT ![s].pc = "restoring", ![s].at = 1, ![s].temporary = FALSE]
            /\ UNCHANGED lock
       ELSE EndScript(s)
    /\ UNCHANGED <<disk, protected, command>>

\* The end of a script, or its death, which leaves the temporary file.
ScriptEnds(s) ==
    /\ script[s].pc # "idle" /\ EndScript(s)
    /\ UNCHANGED <<disk, left, protected, command>>

\* An administrator looks into the interrupted installation and removes what it left.
Inspect ==
    /\ lock = None /\ left' = {}
    /\ UNCHANGED <<disk, protected, lock, script, command>>

-----------------------------------------------------------------------------
(* The executor, as far as it depends on what is installed.                  *)

Launch(c) ==
    /\ command[c].pc = "idle" /\ disk.agent # None
    /\ command' = [command EXCEPT ![c].pc = "started", ![c].code = disk.agent]
    /\ UNCHANGED <<disk, left, protected, lock, script>>

ReadConfig(c) ==
    /\ command[c].pc = "started" /\ disk.config # None
    /\ command' = [command EXCEPT ![c].pc = "read", ![c].config = disk.config]
    /\ UNCHANGED <<disk, left, protected, lock, script>>

EndCommand(c) ==
    /\ command' = [command EXCEPT ![c] = NoCommand]
    /\ lock' = IF lock = c THEN None ELSE lock

TakeCommandLock(c) ==
    /\ command[c].pc = "read"
    /\ IF lock = None THEN command' = [command EXCEPT ![c].pc = "locked"] /\ lock' = c ELSE EndCommand(c)
    /\ UNCHANGED <<disk, left, protected, script>>

\* The checksum of the helper is that which the executor pins.
CheckHelper(c) ==
    /\ command[c].pc = "locked"
    /\ IF disk.helper = command[c].code
       THEN command' = [command EXCEPT ![c].pc = "checked"] /\ UNCHANGED lock
       ELSE EndCommand(c)
    /\ UNCHANGED <<disk, left, protected, script>>

\* The file is read a second time to be executed.
LoadHelper(c) ==
    /\ command[c].pc = "checked"
    /\ command' = [command EXCEPT ![c].pc = "loaded", ![c].helper = disk.helper]
    /\ UNCHANGED <<disk, left, protected, lock, script>>

\* The additive migration (AdditiveMigration has its other stores): the baseline is the one
\* the command read, the other protected files are those it names, the file may be there.
InstallMigration(c) ==
    /\ command[c].pc = "loaded" /\ command[c].config < MaxMigrations
    /\ IF disk.config = command[c].config /\ protected \in {command[c].config, command[c].config + 1}
       THEN /\ protected' = command[c].config + 1
            /\ command' = [command EXCEPT ![c].pc = "copied"] /\ UNCHANGED lock
       ELSE EndCommand(c) /\ UNCHANGED protected
    /\ UNCHANGED <<disk, left, script>>

ListMigration(c) ==
    /\ command[c].pc = "copied"
    /\ disk' = [disk EXCEPT !.config = command[c].config + 1]
    /\ EndCommand(c)
    /\ UNCHANGED <<left, protected, script>>

\* A command ends without a migration, is refused, or dies.
CommandEnds(c) ==
    /\ command[c].pc # "idle" /\ EndCommand(c)
    /\ UNCHANGED <<disk, left, protected, script>>

Next ==
    \/ \E s \in Scripts : Start(s) \/ TakeScriptLock(s) \/ Recheck(s) \/ WriteTemporary(s) \/ PutFile(s)
                          \/ Raises(s) \/ ScriptEnds(s)
    \/ Inspect
    \/ \E c \in Commands : Launch(c) \/ ReadConfig(c) \/ TakeCommandLock(c) \/ CheckHelper(c)
                           \/ LoadHelper(c) \/ InstallMigration(c) \/ ListMigration(c) \/ CommandEnds(c)

Spec == Init /\ [][Next]_vars

-----------------------------------------------------------------------------
\* The helper that interprets a release is the one its executor pins, though the file is
\* read once to be checked and once to be executed (agent.py:58-69).
HelperIsPinned ==
    \A c \in Commands : command[c].pc \in {"loaded", "copied"} => command[c].helper = command[c].code

\* An installer that comes to its end left the three files of one package, and one that
\* failed and could put everything back left those it found (bootstrap.py:158-175).
InstallationsAreWhole ==
    \A s \in Scripts : script[s].pc \in Replacing /\ script[s].at = 4 => disk = Wanted(s)

\* The configuration names the protected files the host has, but for a migration whose
\* command died before it listed it: a package prepared before a release that migrated
\* does not put the older baseline back (bootstrap.py:136-139, additive_migrations.py:267-277).
BaselineIsCurrent == disk.config # None => disk.config \in {protected - 1, protected}
=============================================================================
