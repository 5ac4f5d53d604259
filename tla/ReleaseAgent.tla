---------------------------- MODULE ReleaseAgent ----------------------------
(***************************************************************************)
(* The release agent of the combined host                                  *)
(* (deploy/github-release/agent.py) and the coordinator that drives it     *)
(* over SSM (release.py).  Every command of the agent holds one host lock   *)
(* from start to end, and may be killed between any two of its writes; the  *)
(* lock is then free and only the files tell the next command what was     *)
(* done.  The runtime is three parts, replaced one after the other: the    *)
(* code, the image named in .env and the collector's virtualenv.           *)
(***************************************************************************)
EXTENDS Naturals

CONSTANTS
    Releases,        \* releases the coordinator may deploy, each at most once
    Base,            \* what the host runs before the first of them
    None,            \* no release, no link, no backup
    OldVolume, NewVolume \* the database volumes .env can name

ReleaseAgentAssumption ==
    /\ Base \notin Releases /\ None \notin Releases \cup {Base, OldVolume, NewVolume}
    /\ OldVolume # NewVolume

VARIABLES
    run,      \* the command that holds the host lock: where it is, and for which release
    journal,  \* journal[r]: phase in state.json of r
    built,    \* built[r]: the stage directory of r holds a (possibly unfinished) venv
    backup,   \* backup[r]: the copy activation took of the runtime, or None
    kept,     \* kept[r]: backup/venv of r holds the host's real virtualenv directory
    current,  \* .deployment/github-release-current.json, or None
    root,     \* the runtime: code, image, venv, and the database volume .env names
    writers,  \* the services that run: "app" and "collector"
    marker,   \* phase of the PostgreSQL maintenance marker, which the agent reads
    ci        \* the coordinator: its release, the command it waits for, its receipt

agentVars == <<run, journal, built, backup, kept, current, root, writers, ci>>

Free == [at |-> "free", of |-> None, asked |-> "nothing"]
Versions == Releases \cup {Base}
Volumes == {OldVolume, NewVolume}
Phases == {"new", "staged", "activating", "active", "rolled_back"}
MaintenancePhases ==
    {"none", "rehearsed", "frozen", "switching", "awaiting-verification",
     "rolled-back", "writers-reopened"}
Claim == [release : Releases, phase : {"activating", "active"}]
Backup == [code : Versions, image : Versions, db : Volumes, previous : Claim \cup {None},
           link : Releases \cup {None}]
Root == [code : Versions, image : Versions, venv : Versions \cup {None}, db : Volumes]
Coordinator == [of : Releases \cup {None}, waits : {"nothing", "stage", "activate", "rollback"},
                reply : {"none", "ok", "failed"},
                receipt : {"none", "stage_failed", "active", "rolled_back", "rollback_failed"}]

\* No record is the value that stands for "there is none".
NoneAssumption == None \notin Claim \cup Backup

AgentTypeOK ==
    /\ journal \in [Releases -> Phases]
    /\ built \in [Releases -> BOOLEAN] /\ kept \in [Releases -> BOOLEAN]
    /\ backup \in [Releases -> Backup \cup {None}]
    /\ current \in Claim \cup {None} /\ root \in Root
    /\ writers \subseteq {"app", "collector"} /\ marker \in MaintenancePhases
    /\ ci \in Coordinator

AgentInit ==
    /\ run = Free
    /\ journal = [r \in Releases |-> "new"]
    /\ built = [r \in Releases |-> FALSE]
    /\ backup = [r \in Releases |-> None]
    /\ kept = [r \in Releases |-> FALSE]
    /\ current = None
    /\ root = [code |-> Base, image |-> Base, venv |-> Base, db |-> OldVolume]
    /\ writers = {"app", "collector"}
    /\ marker = "none"
    /\ ci = [of |-> None, waits |-> "nothing", reply |-> "none", receipt |-> "none"]

-----------------------------------------------------------------------------
(* The coordinator.  A command it sends is answered by the agent's exit     *)
(* code; it stops waiting after its deadline while the command runs on.     *)

Deploying == ci.waits # "nothing"

\* A workflow run starts: the concurrency group lets one run deploy at a time.
StartDeploy(r) ==
    /\ ~Deploying /\ run = Free /\ journal[r] = "new" /\ ~built[r]
    /\ ci' = [of |-> r, waits |-> "stage", reply |-> "none", receipt |-> "none"]
    /\ UNCHANGED <<run, journal, built, backup, kept, current, root, writers, marker>>

\* The answer of a command reaches the coordinator while that is what it waits for.
Answer(action, outcome) ==
    IF ci.waits = action /\ ci.reply = "none" THEN [ci EXCEPT !.reply = outcome] ELSE ci

\* The commands that may begin: the one the coordinator sent, or, while it deploys
\* nothing, one an operator sends.
Requested(action, r) ==
    IF Deploying THEN ci.of = r /\ ci.waits = action /\ ci.reply = "none" ELSE TRUE

\* The deadline passes, or the lock is held by a command sent earlier.
CommandFails ==
    /\ Deploying /\ ci.reply = "none"
    /\ ci' = [ci EXCEPT !.reply = "failed"]
    /\ UNCHANGED <<run, journal, built, backup, kept, current, root, writers, marker>>

Receipt(value) == [ci EXCEPT !.waits = "nothing", !.receipt = value, !.reply = "none"]

\* (Mutant: a rollback that fails is reported like one that succeeded.)
Coordinate_Hopeful ==
    /\ Deploying /\ ci.reply # "none"
    /\ ci' = CASE ci.waits = "stage" /\ ci.reply = "ok" -> [ci EXCEPT !.waits = "activate", !.reply = "none"]
               [] ci.waits = "stage" /\ ci.reply = "failed" -> Receipt("stage_failed")
               [] ci.waits = "activate" /\ ci.reply = "ok" -> Receipt("active")
               [] ci.waits = "activate" /\ ci.reply = "failed" -> [ci EXCEPT !.waits = "rollback", !.reply = "none"]
               [] ci.waits = "rollback" -> Receipt("rolled_back")
    /\ UNCHANGED <<run, journal, built, backup, kept, current, root, writers, marker>>

Coordinate ==
    /\ Deploying /\ ci.reply # "none"
    /\ ci' = CASE ci.waits = "stage" /\ ci.reply = "ok" -> [ci EXCEPT !.waits = "activate", !.reply = "none"]
               [] ci.waits = "stage" /\ ci.reply = "failed" -> Receipt("stage_failed")
               [] ci.waits = "activate" /\ ci.reply = "ok" -> Receipt("active")
               [] ci.waits = "activate" /\ ci.reply = "failed" -> [ci EXCEPT !.waits = "rollback", !.reply = "none"]
               [] ci.waits = "rollback" /\ ci.reply = "ok" -> Receipt("rolled_back")
               [] ci.waits = "rollback" /\ ci.reply = "failed" -> Receipt("rollback_failed")
    /\ UNCHANGED <<run, journal, built, backup, kept, current, root, writers, marker>>

-----------------------------------------------------------------------------
(* Staging.                                                                 *)

\* Download, verify, extract, build and freeze the virtualenv.  A build that was
\* interrupted leaves its directory, and staging then refuses to go on.
Stage(r, completes) ==
    /\ run = Free /\ Requested("stage", r)
    /\ journal[r] \in {"new", "staged", "active"}
    /\ LET done == journal[r] # "new"
           builds == ~done /\ ~built[r]
           staged == builds /\ completes
       IN /\ built' = [built EXCEPT ![r] = @ \/ builds]
          /\ journal' = [journal EXCEPT ![r] = IF staged THEN "staged" ELSE @]
          /\ ci' = Answer("stage", IF staged \/ done THEN "ok" ELSE "failed")
    /\ UNCHANGED <<run, backup, kept, current, root, writers, marker>>

-----------------------------------------------------------------------------
(* Activation.                                                              *)

\* (Mutant: only a running maintenance command blocks a release.)
NoMaintenance_Lock == TRUE

\* require_no_database_maintenance
NoMaintenance == marker \in {"none", "rehearsed", "writers-reopened"}

Begin(r, step, command) == run' = [at |-> step, of |-> r, asked |-> command]
Go(r, step) == run' = [run EXCEPT !.at = step]
At(r, step) == run.at = step /\ run.of = r

\* (Mutant: the link of a real directory is recorded as the directory.)
BeginActivation_Path(r) ==
    /\ run = Free /\ Requested("activate", r) /\ NoMaintenance
    /\ journal[r] = "staged" /\ backup[r] = None /\ root.venv # None
    /\ backup' = [backup EXCEPT ![r] =
          [code |-> root.code, image |-> root.image, db |-> root.db, previous |-> current, link |-> root.venv]]
    /\ Begin(r, "backed", "activate")
    /\ UNCHANGED <<journal, built, kept, current, root, writers, marker, ci>>

\* Take the backup: the previous record, the files, .env, and where .venv points.
BeginActivation(r) ==
    /\ run = Free /\ Requested("activate", r) /\ NoMaintenance
    /\ journal[r] = "staged" /\ backup[r] = None /\ root.venv # None
    /\ backup' = [backup EXCEPT ![r] =
          [code |-> root.code, image |-> root.image, db |-> root.db, previous |-> current,
           link |-> IF root.venv \in Releases THEN root.venv ELSE None]]
    /\ Begin(r, "backed", "activate")
    /\ UNCHANGED <<journal, built, kept, current, root, writers, marker, ci>>

\* Activating the release that is active checks its health only.
ReactivateActive(r) ==
    /\ run = Free /\ Requested("activate", r) /\ NoMaintenance /\ journal[r] = "active"
    /\ ci' = Answer("activate", IF current # None /\ current.release = r THEN "ok" ELSE "failed")
    /\ UNCHANGED <<run, journal, built, backup, kept, current, root, writers, marker>>

SaveActivating(r) ==
    /\ At(r, "backed")
    /\ journal' = [journal EXCEPT ![r] = "activating"] /\ Go(r, "journaled")
    /\ UNCHANGED <<built, backup, kept, current, root, writers, marker, ci>>

\* (Mutant: the claim is written only when the release is healthy.)
ClaimCurrent_Late(r) ==
    /\ At(r, "journaled") /\ Go(r, "claimed")
    /\ UNCHANGED <<journal, built, backup, kept, current, root, writers, marker, ci>>

ClaimCurrent(r) ==
    /\ At(r, "journaled")
    /\ current' = [release |-> r, phase |-> "activating"] /\ Go(r, "claimed")
    /\ UNCHANGED <<journal, built, backup, kept, root, writers, marker, ci>>

StopCollector(r) ==
    /\ At(r, "claimed")
    /\ writers' = writers \ {"collector"} /\ Go(r, "stopped")
    /\ UNCHANGED <<journal, built, backup, kept, current, root, marker, ci>>

ReplaceFiles(r) ==
    /\ At(r, "stopped")
    /\ root' = [root EXCEPT !.code = r] /\ Go(r, "copied")
    /\ UNCHANGED <<journal, built, backup, kept, current, writers, marker, ci>>

SwitchImage(r) ==
    /\ At(r, "copied")
    /\ root' = [root EXCEPT !.image = r]
    /\ writers' = writers \cup {"app"} /\ Go(r, "imaged")
    /\ UNCHANGED <<journal, built, backup, kept, current, marker, ci>>

\* (Mutant: the real directory is removed like a link.)
RemoveVenv_Unlink(r) ==
    /\ At(r, "imaged")
    /\ root' = [root EXCEPT !.venv = None] /\ Go(r, "unlinked")
    /\ UNCHANGED <<journal, built, backup, kept, current, writers, marker, ci>>

\* A link is removed; the real directory is moved into the backup.
RemoveVenv(r) ==
    /\ At(r, "imaged")
    /\ kept' = [kept EXCEPT ![r] = root.venv = Base]
    /\ root' = [root EXCEPT !.venv = None] /\ Go(r, "unlinked")
    /\ UNCHANGED <<journal, built, backup, current, writers, marker, ci>>

LinkVenv(r) ==
    /\ At(r, "unlinked")
    /\ root' = [root EXCEPT !.venv = r]
    /\ writers' = writers \cup {"collector"} /\ Go(r, "linked")
    /\ UNCHANGED <<journal, built, backup, kept, current, marker, ci>>

\* Healthy within twenty attempts.
SaveActive(r) ==
    /\ At(r, "linked")
    /\ journal' = [journal EXCEPT ![r] = "active"] /\ Go(r, "healthy")
    /\ UNCHANGED <<built, backup, kept, current, root, writers, marker, ci>>

ConfirmCurrent(r) ==
    /\ At(r, "healthy")
    /\ current' = [release |-> r, phase |-> "active"]
    /\ run' = Free /\ ci' = Answer(run.asked, "ok")
    /\ UNCHANGED <<journal, built, backup, kept, root, writers, marker>>

Guarded == {"claimed", "stopped", "copied", "imaged", "unlinked", "linked", "healthy"}

-----------------------------------------------------------------------------
(* Rollback, by command or from the exception handler of activation.        *)

\* (Mutant: the database settings of the backup are not compared.)
SameDatabase_Any(r) == TRUE

\* require_database_rollback_compatible
SameDatabase(r) == backup[r].db = root.db

MayUndo(r) ==
    /\ current # None /\ current.release = r
    /\ SameDatabase(r)

\* An exception after the claim: rollback starts under the same lock.
ActivationFails(r) ==
    /\ run.of = r /\ run.at \in Guarded
    /\ IF MayUndo(r) THEN Go(r, "undoing") /\ ci' = ci
                     ELSE run' = Free /\ ci' = Answer(run.asked, "failed")
    /\ UNCHANGED <<journal, built, backup, kept, current, root, writers, marker>>

BeginRollback(r) ==
    /\ run = Free /\ Requested("rollback", r) /\ NoMaintenance
    /\ CASE journal[r] \in {"new", "staged", "rolled_back"} -> run' = run /\ ci' = Answer("rollback", "ok")
         [] journal[r] \in {"activating", "active"} /\ ~MayUndo(r) -> run' = run /\ ci' = Answer("rollback", "failed")
         [] journal[r] \in {"activating", "active"} /\ MayUndo(r) -> Begin(r, "undoing", "rollback") /\ ci' = ci
    /\ UNCHANGED <<journal, built, backup, kept, current, root, writers, marker>>

UndoFiles(r) ==
    /\ At(r, "undoing")
    /\ writers' = writers \ {"collector"}
    /\ root' = [root EXCEPT !.code = backup[r].code] /\ Go(r, "uncopied")
    /\ UNCHANGED <<journal, built, backup, kept, current, marker, ci>>

\* The whole .env of the backup comes back, the database settings in it too.
UndoImage(r) ==
    /\ At(r, "uncopied")
    /\ root' = [root EXCEPT !.image = backup[r].image, !.db = backup[r].db]
    /\ writers' = writers \cup {"app"} /\ Go(r, "unimaged")
    /\ UNCHANGED <<journal, built, backup, kept, current, marker, ci>>

UndoUnlink(r) ==
    /\ At(r, "unimaged")
    /\ root' = [root EXCEPT !.venv = IF @ \in Releases THEN None ELSE @] /\ Go(r, "relinking")
    /\ UNCHANGED <<journal, built, backup, kept, current, writers, marker, ci>>

UndoVenv(r) ==
    /\ At(r, "relinking")
    /\ root' = [root EXCEPT !.venv = IF kept[r] THEN Base
                                     ELSE IF backup[r].link # None THEN backup[r].link ELSE @]
    /\ kept' = [kept EXCEPT ![r] = FALSE]
    /\ writers' = writers \cup {"collector"} /\ Go(r, "restarted")
    /\ UNCHANGED <<journal, built, backup, current, marker, ci>>

RestoreCurrent(r) ==
    /\ At(r, "restarted")
    /\ current' = backup[r].previous /\ Go(r, "restored")
    /\ UNCHANGED <<journal, built, backup, kept, root, writers, marker, ci>>

\* The command of an activation that failed ends with its error, a rollback with its
\* health check.
SaveRolledBack(r) ==
    /\ At(r, "restored")
    /\ journal' = [journal EXCEPT ![r] = "rolled_back"]
    /\ run' = Free
    /\ \E outcome \in {"ok", "failed"} :
          /\ run.asked = "activate" => outcome = "failed"
          /\ ci' = Answer(run.asked, outcome)
    /\ UNCHANGED <<built, backup, kept, current, root, writers, marker>>

\* The process is killed, or a command of it fails where nothing catches it.
AgentDies ==
    /\ run.of # None
    /\ run' = Free /\ ci' = Answer(run.asked, "failed")
    /\ UNCHANGED <<journal, built, backup, kept, current, root, writers, marker>>

Activate(r) ==
    BeginActivation(r) \/ ReactivateActive(r) \/ SaveActivating(r) \/ ClaimCurrent(r)
    \/ StopCollector(r) \/ ReplaceFiles(r) \/ SwitchImage(r) \/ RemoveVenv(r) \/ LinkVenv(r)
    \/ SaveActive(r) \/ ConfirmCurrent(r) \/ ActivationFails(r)

Rollback(r) ==
    BeginRollback(r) \/ UndoFiles(r) \/ UndoImage(r) \/ UndoUnlink(r) \/ UndoVenv(r)
    \/ RestoreCurrent(r) \/ SaveRolledBack(r)

AgentNext ==
    \/ \E r \in Releases : StartDeploy(r) \/ Activate(r) \/ Rollback(r)
    \/ \E r \in Releases, completes \in BOOLEAN : Stage(r, completes)
    \/ CommandFails \/ Coordinate \/ AgentDies

-----------------------------------------------------------------------------
\* The host runs exactly version v.
Runs(v) == root.code = v /\ root.image = v /\ root.venv = v

\* A runtime left half replaced by a dead command is never beyond repair: the claim names
\* a release whose activation began, and rolling that one back is allowed unless the
\* database moved since.  It is what lets an operator repair a host from its files alone.
MixedIsUndoable ==
    run = Free /\ ~(\E v \in Versions : Runs(v)) =>
        /\ current # None
        /\ journal[current.release] \in {"activating", "active"}
        /\ backup[current.release] # None

\* A receipt is true of the host: "active" only for a journal that is active, and
\* "rolled_back" never while the release still holds the claim, although a command that the
\* coordinator stopped waiting for may still have been running.
ReceiptIsTrue ==
    ci'.receipt # ci.receipt =>
       /\ ci'.receipt = "active" => journal[ci.of] = "active"
       /\ ci'.receipt = "rolled_back" =>
             /\ journal[ci.of] \in {"new", "staged", "rolled_back"}
             /\ run.of # ci.of

\* A rollback that is recorded has put back all three parts, the claim and nothing newer:
\* the host is what the activation of that release found.
RollbackRestores ==
    \A r \in Releases : journal[r] # "rolled_back" /\ journal'[r] = "rolled_back" =>
       /\ root.code = backup[r].code /\ root.image = backup[r].image
       /\ root.venv = (IF backup[r].link = None THEN Base ELSE backup[r].link)
       /\ current = backup[r].previous
=============================================================================
