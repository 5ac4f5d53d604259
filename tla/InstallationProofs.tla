-------------------------- MODULE InstallationProofs --------------------------
(***************************************************************************)
(* What runs the installation and who gets in, for every value of the      *)
(* constants: the release host with its database upgrade, the additive     *)
(* migration, the setup of the host and of its activation worker, sessions *)
(* and users.  The host's module is extended, the others are instances     *)
(* over variables of their own.                                            *)
(***************************************************************************)
EXTENDS DatabaseUpgrade, TLAPS

CONSTANTS Nobody,
    Packages, Scripts, Commands, MaxMigrations,
    Browsers, Codes, MaxPasswords, MaxVersions, MaxDevices, MaxTime,
    Users, Customers, Tokens, Clients,
    Arns, Given, MaxInstalls

VARIABLES
    record, stamped, at, owner, planned, container, column, recorded, file, baseline,
    disk, left, protected, lock, script, execution,
    allowed, password, version, codes, device, last, locked, made, now, session, read, change, uses,
    people, member, invitation, request, admitted, serving,
    named, list, copies, hba, loaded, installed, installer, adder, approved, installs

Migration == INSTANCE AdditiveMigration WITH journal <- record
Setup == INSTANCE Bootstrap WITH command <- execution
Login == INSTANCE Sessions WITH active <- allowed
Access == INSTANCE UserAccess WITH user <- people
Worker == INSTANCE WorkerSetup WITH
    Roles <- Arns, MaxRuns <- MaxInstalls, kept <- list, copy <- copies, ready <- installed,
    run <- installer, worker <- adder, runs <- installs

-----------------------------------------------------------------------------
(* The release host: ReleaseAgent and DatabaseUpgrade.                      *)

\* Where the release of a backup found .venv: at the link, or at the real directory.
FoundVenv(r) == IF backup[r].link = None THEN Base ELSE backup[r].link

\* What the maintenance marker promises at each step of the tool, and between its commands.
MarkerHolds ==
    /\ run.of # None => NoMaintenance
    /\ run.at = "freezing" => marker = "frozen"
    /\ run.at \in {"frozen", "compared", "kept"} => marker = "frozen" /\ writers = {}
    /\ run.at \in {"switching", "patched", "verified"} => marker = "switching"
    /\ run.at \in {"returning", "returned"} =>
          marker \in {"frozen", "switching", "awaiting-verification"} /\ writers = {}
    /\ run.at = "reopening" => marker = "writers-reopened"
    /\ WritersStayStopped

\* Where the accepted writes are: in the volume .env names, and until the reopening in the old
\* one too.
WritesHeld ==
    /\ served \in {root.db, None}
    /\ marker \in {"none", "rehearsed", "frozen"} => root.db = OldVolume
    /\ data[root.db] = accepted
    /\ marker # "writers-reopened" => data[OldVolume] = accepted
    /\ run.at \in {"compared", "kept", "switching"} => data[NewVolume] = accepted
    /\ run.at = "patched" => root.db = NewVolume
    /\ marker \in {"none", "rehearsed"} => original = None
    /\ original # None /\ marker \in {"frozen", "switching", "awaiting-verification"} =>
          original.image = root.image

\* What the lock holder has done to the runtime.
StepsTaken ==
    LET r == run.of
    IN  /\ r # None => backup[r] # None
        /\ run.asked = "rollback" => run.at \in UndoSteps
        /\ run.at \in {"backed", "journaled"} =>
              /\ backup[r].previous = current
              /\ root.code = backup[r].code /\ root.image = backup[r].image
        /\ run.at \in {"backed", "journaled", "claimed", "stopped", "copied", "imaged"} =>
              root.venv = FoundVenv(r) /\ ~kept[r]
        /\ run.at \in Guarded \cup (UndoSteps \ {"restored"}) =>
              current # None /\ current.release = r
        /\ run.at = "unlinked" => root.venv = None
        /\ run.at = "journaled" => journal[r] = "activating"
        /\ run.at = "healthy" => journal[r] = "active"
        /\ run.at \in {"undoing", "uncopied"} => backup[r].db = root.db
        /\ run.at \in UndoSteps \ {"undoing"} => root.code = backup[r].code
        /\ run.at \in UndoSteps \ {"undoing", "uncopied"} => root.image = backup[r].image
        /\ run.at \in {"restarted", "restored"} => root.venv = FoundVenv(r)
        /\ run.at = "restored" => current = backup[r].previous

\* A real virtualenv is put away with a release that found one, and otherwise where it was.
VenvSafe ==
    /\ \A r \in Releases : kept[r] => backup[r] # None
    /\ current # None =>
          (backup[current.release].link = None => kept[current.release] \/ root.venv = Base)
    /\ current = None => \E v \in Versions : Runs(v)

\* The claimed releases are stacked by their backups, from the one that current names down to
\* the one whose activation found none.
Previous(r) == backup[r].previous
Stacked(S) ==
    /\ current # None => current.release \in S
    /\ \A s \in S :
          /\ backup[s] # None /\ journal[s] \in {"activating", "active"}
          /\ backup[s].link # None => ~kept[s]
          /\ Previous(s) # None =>
                /\ Previous(s).release \in S
                /\ current # None => current.release # Previous(s).release
                /\ backup[Previous(s).release].link = None =>
                      kept[Previous(s).release] \/ backup[s].link = None
          /\ Previous(s) = None => backup[s].code = backup[s].image /\ backup[s].image = FoundVenv(s)
    /\ \A s, t \in S : Previous(s) # None /\ Previous(t) # None
                         /\ Previous(s).release = Previous(t).release => s = t
    /\ run.at \in {"backed", "journaled", "restored"} => run.of \notin S
Stack == \E S \in SUBSET Releases : Stacked(S)

\* What the coordinator has been told, and of which release the lock holder is meanwhile.
Told ==
    /\ Deploying => ci.of \in Releases
    /\ Deploying /\ run.of # None => run.of = ci.of
    /\ ci.reply = "ok" /\ ci.waits = "activate" => run.of = None /\ journal[ci.of] = "active"
    /\ ci.reply = "ok" /\ ci.waits = "rollback" =>
          run.of = None /\ journal[ci.of] \in {"new", "staged", "rolled_back"}

HostInv ==
    UpgradeTypeOK /\ MarkerHolds /\ WritesHeld /\ StepsTaken /\ VenvSafe /\ Stack /\ Told

LEMMA RunKinds ==
    ASSUME DatabaseUpgradeAssumption, run \in Run
    PROVE  /\ run.at = "free" <=> run = Free
           /\ run = Free => run.of = None /\ run.at = "free" /\ run.asked = "nothing"
           /\ run.of = None => run = Free \/ (run.at \in ToolSteps /\ run.asked = "nothing")
           /\ run.of # None =>
                run.of \in Releases /\ run.at \in AgentSteps /\ run.asked \in {"activate", "rollback"}
           /\ run.at \in ToolSteps => run.of = None
           /\ run.at \in AgentSteps => run.of \in Releases
  BY DEF Run, Free, ToolSteps, AgentSteps, Guarded, UndoSteps, DatabaseUpgradeAssumption, ReleaseAgentAssumption

LEMMA GoEffect ==
    ASSUME DatabaseUpgradeAssumption, run \in Run, NEW r \in Releases, run.of = r,
           NEW step \in AgentSteps, Go(r, step)
    PROVE  run' \in Run /\ run'.at = step /\ run'.of = r /\ run'.asked = run.asked
  BY DEF Go, Run, Free, DatabaseUpgradeAssumption, ReleaseAgentAssumption

LEMMA BeginEffect ==
    ASSUME NEW r \in Releases, NEW step \in AgentSteps, NEW command \in {"activate", "rollback"},
           Begin(r, step, command)
    PROVE  run' \in Run /\ run'.at = step /\ run'.of = r /\ run'.asked = command
  BY DEF Begin, Run

LEMMA StepEffect ==
    ASSUME DatabaseUpgradeAssumption, run \in Run, NEW from \in ToolSteps, NEW to \in ToolSteps, Step(from, to)
    PROVE  run.of = None /\ run' \in Run /\ run'.at = to /\ run'.of = None /\ run'.asked = "nothing"
  BY DEF Step, Run, Free, ToolSteps, AgentSteps, Guarded, UndoSteps, DatabaseUpgradeAssumption, ReleaseAgentAssumption

LEMMA EnterEffect ==
    ASSUME NEW to \in ToolSteps, Enter(to)
    PROVE  run' \in Run /\ run'.at = to /\ run'.of = None /\ run'.asked = "nothing"
  BY DEF Enter, Run, Free

\* Where an action leaves the lock.
Moved(step, r, command) ==
    run' \in Run /\ run'.at = step /\ run'.of = r /\ run'.asked = command
Released == run' = Free /\ run' \in Run /\ run'.at = "free" /\ run'.of = None /\ run'.asked = "nothing"

LEMMA FreeIs == run' = Free => Released
  BY DEF Released, Free, Run

LEMMA ActivateWalk ==
    ASSUME DatabaseUpgradeAssumption, run \in Run, NEW r \in Releases
    PROVE  /\ BeginActivation(r) => Moved("backed", r, "activate")
           /\ SaveActivating(r) => Moved("journaled", r, run.asked)
           /\ ClaimCurrent(r) => Moved("claimed", r, run.asked)
           /\ StopCollector(r) => Moved("stopped", r, run.asked)
           /\ ReplaceFiles(r) => Moved("copied", r, run.asked)
           /\ SwitchImage(r) => Moved("imaged", r, run.asked)
           /\ RemoveVenv(r) => Moved("unlinked", r, run.asked)
           /\ LinkVenv(r) => Moved("linked", r, run.asked)
           /\ SaveActive(r) => Moved("healthy", r, run.asked)
           /\ ActivationFails(r) => IF MayUndo(r) THEN Moved("undoing", r, run.asked) ELSE Released
           /\ ConfirmCurrent(r) => Released
  <1> USE DEF AgentSteps, Guarded, UndoSteps, At, Moved
  <1>1. BeginActivation(r) => Moved("backed", r, "activate")
    BY BeginEffect DEF BeginActivation
  <1>2. \A step \in AgentSteps : run.of = r /\ Go(r, step) => Moved(step, r, run.asked)
    BY GoEffect
  <1> QED BY <1>1, <1>2, FreeIs DEF SaveActivating, ClaimCurrent, StopCollector, ReplaceFiles, SwitchImage,
                 RemoveVenv, LinkVenv, SaveActive, ActivationFails, ConfirmCurrent

LEMMA RollbackWalk ==
    ASSUME DatabaseUpgradeAssumption, run \in Run, journal \in [Releases -> Phases], NEW r \in Releases
    PROVE  /\ BeginRollback(r) =>
                run' = run \/ (MayUndo(r) /\ journal[r] \in {"activating", "active"} /\ ci' = ci
                                /\ Moved("undoing", r, "rollback"))
           /\ UndoFiles(r) => Moved("uncopied", r, run.asked)
           /\ UndoImage(r) => Moved("unimaged", r, run.asked)
           /\ UndoUnlink(r) => Moved("relinking", r, run.asked)
           /\ UndoVenv(r) => Moved("restarted", r, run.asked)
           /\ RestoreCurrent(r) => Moved("restored", r, run.asked)
           /\ SaveRolledBack(r) => Released
  <1> USE DEF AgentSteps, UndoSteps, At, Moved
  <1>2. \A step \in AgentSteps : run.of = r /\ Go(r, step) => Moved(step, r, run.asked)
    BY GoEffect
  <1>1. ASSUME BeginRollback(r)
        PROVE  run' = run \/ (MayUndo(r) /\ journal[r] \in {"activating", "active"} /\ ci' = ci
                                /\ Moved("undoing", r, "rollback"))
    <2>1. journal[r] \in {"new", "staged", "rolled_back"} => run' = run
      BY <1>1 DEF BeginRollback
    <2>2. CASE journal[r] \in {"activating", "active"}
      BY <1>1, <2>2, BeginEffect DEF BeginRollback
    <2> QED BY <2>1, <2>2 DEF Phases
  <1> QED BY <1>1, <1>2, FreeIs DEF UndoFiles, UndoImage, UndoUnlink, UndoVenv, RestoreCurrent, SaveRolledBack

LEMMA ToolWalk ==
    ASSUME DatabaseUpgradeAssumption, run \in Run
    PROVE  /\ Freeze => Moved("freezing", None, "nothing")
           /\ StopWriters => Moved("frozen", None, "nothing")
           /\ FinalRestore => Moved("compared", None, "nothing")
           /\ KeepEnv => Moved("kept", None, "nothing")
           /\ SaveSwitching => Moved("switching", None, "nothing")
           /\ PatchEnv => Moved("patched", None, "nothing")
           /\ StartNew => Moved("verified", None, "nothing")
           /\ AwaitVerification \/ SaveUndone \/ StartWriters \/ ToolDies => Released
           /\ BeginUndo => Moved("returning", None, "nothing")
           /\ RestoreEnv => Moved("returned", None, "nothing")
           /\ Reopen => Moved("reopening", None, "nothing")
  <1> USE DEF ToolSteps, Moved
  <1>1. \A to \in ToolSteps : Enter(to) => Moved(to, None, "nothing")
    BY EnterEffect
  <1>2. \A from, to \in ToolSteps : Step(from, to) => Moved(to, None, "nothing")
    BY StepEffect
  <1> QED BY <1>1, <1>2, FreeIs DEF Freeze, StopWriters, FinalRestore, KeepEnv, SaveSwitching, PatchEnv, StartNew,
                 AwaitVerification, SaveUndone, StartWriters, ToolDies, BeginUndo, RestoreEnv, Reopen, Ends

LEMMA ClaimedIs ==
    ASSUME HostInv, current # None
    PROVE  /\ current.release \in Releases /\ backup[current.release] \in Backup
           /\ journal[current.release] \in {"activating", "active"}
           /\ backup[current.release].link # None => ~kept[current.release]
  BY DEF HostInv, Stack, Stacked, UpgradeTypeOK, AgentTypeOK

\* Types: a rollback writes what a backup holds, and there is a backup when it does.
LEMMA TypesNext == ASSUME DatabaseUpgradeAssumption, HostInv, Next PROVE UpgradeTypeOK'
  <1> USE DEF HostInv
  <1>1. ASSUME NEW r \in Releases, StartDeploy(r), UNCHANGED upgradeVars PROVE UpgradeTypeOK'
    BY <1>1, RunKinds DEF StartDeploy, UpgradeTypeOK, AgentTypeOK, Moved, Released, upgradeVars,
         agentVars, hostVars, MaintenancePhases, DatabaseUpgradeAssumption, ReleaseAgentAssumption,
         WritesHeld, Answer, Phases, Claim, Root, Coordinator, Versions, Volumes
  <1>2. ASSUME NEW r \in Releases, NEW completes \in BOOLEAN, Stage(r, completes), UNCHANGED
       upgradeVars PROVE UpgradeTypeOK'
    BY <1>2, RunKinds DEF Stage, UpgradeTypeOK, AgentTypeOK, Moved, Released, upgradeVars,
         agentVars, hostVars, MaintenancePhases, DatabaseUpgradeAssumption, ReleaseAgentAssumption,
         WritesHeld, Answer, Phases, Claim, Root, Coordinator, Versions, Volumes
  <1>3. ASSUME CommandFails \/ AgentDies, UNCHANGED upgradeVars PROVE UpgradeTypeOK'
    BY <1>3, FreeIs, RunKinds DEF CommandFails, AgentDies, UpgradeTypeOK, AgentTypeOK, Moved,
         Released, upgradeVars, agentVars, hostVars, MaintenancePhases, DatabaseUpgradeAssumption,
         ReleaseAgentAssumption, WritesHeld, Answer, Phases, Claim, Root, Coordinator, Versions,
         Volumes
  <1>4. ASSUME Coordinate, UNCHANGED upgradeVars PROVE UpgradeTypeOK'
    <2>1. ci' \in Coordinator
      BY <1>4 DEF Coordinate, Receipt, Coordinator, UpgradeTypeOK, AgentTypeOK, Deploying
    <2> QED BY <1>4, <2>1 DEF Coordinate, UpgradeTypeOK, AgentTypeOK, upgradeVars
  <1>5. ASSUME NEW r \in Releases, ReplaceFiles(r), UNCHANGED upgradeVars PROVE UpgradeTypeOK'
    BY <1>5, ActivateWalk, RunKinds DEF ReplaceFiles, At, UpgradeTypeOK, AgentTypeOK, Moved,
         Released, upgradeVars, agentVars, hostVars, MaintenancePhases, DatabaseUpgradeAssumption,
         ReleaseAgentAssumption, WritesHeld, Answer, Phases, Claim, Root, Coordinator, Versions,
         Volumes
  <1>6. ASSUME NEW r \in Releases, SwitchImage(r), UNCHANGED upgradeVars PROVE UpgradeTypeOK'
    BY <1>6, ActivateWalk, RunKinds DEF SwitchImage, At, UpgradeTypeOK, AgentTypeOK, Moved,
         Released, upgradeVars, agentVars, hostVars, MaintenancePhases, DatabaseUpgradeAssumption,
         ReleaseAgentAssumption, WritesHeld, Answer, Phases, Claim, Root, Coordinator, Versions,
         Volumes
  <1>7. ASSUME NEW r \in Releases, LinkVenv(r), UNCHANGED upgradeVars PROVE UpgradeTypeOK'
    BY <1>7, ActivateWalk, RunKinds DEF LinkVenv, At, UpgradeTypeOK, AgentTypeOK, Moved, Released,
         upgradeVars, agentVars, hostVars, MaintenancePhases, DatabaseUpgradeAssumption,
         ReleaseAgentAssumption, WritesHeld, Answer, Phases, Claim, Root, Coordinator, Versions,
         Volumes
  <1>8. ASSUME NEW r \in Releases, ReactivateActive(r) \/ ClaimCurrent(r) \/ StopCollector(r),
       UNCHANGED upgradeVars PROVE UpgradeTypeOK'
    BY <1>8, ActivateWalk, RunKinds DEF ReactivateActive, ClaimCurrent, StopCollector, At,
         UpgradeTypeOK, AgentTypeOK, Moved, Released, upgradeVars, agentVars, hostVars,
         MaintenancePhases, DatabaseUpgradeAssumption, ReleaseAgentAssumption, WritesHeld, Answer,
         Phases, Claim, Root, Coordinator, Versions, Volumes
  <1>9. ASSUME NEW r \in Releases, ConfirmCurrent(r) \/ ActivationFails(r), UNCHANGED upgradeVars
       PROVE UpgradeTypeOK'
    BY <1>9, ActivateWalk, RunKinds DEF ConfirmCurrent, ActivationFails, At, UpgradeTypeOK,
         AgentTypeOK, Moved, Released, upgradeVars, agentVars, hostVars, MaintenancePhases,
         DatabaseUpgradeAssumption, ReleaseAgentAssumption, WritesHeld, Answer, Phases, Claim, Root,
         Coordinator, Versions, Volumes
  <1>10. ASSUME NEW r \in Releases, BeginActivation(r), UNCHANGED upgradeVars PROVE UpgradeTypeOK'
    <2>1. backup' \in [Releases -> Backup \cup {None}]
      BY <1>10 DEF BeginActivation, UpgradeTypeOK, AgentTypeOK, Backup, Root
    <2>2. run' \in Run
      BY <1>10, ActivateWalk DEF Moved, UpgradeTypeOK
    <2> QED BY <1>10, <2>1, <2>2 DEF BeginActivation, UpgradeTypeOK, AgentTypeOK, upgradeVars
  <1>11. ASSUME NEW r \in Releases, SaveActivating(r), UNCHANGED upgradeVars PROVE UpgradeTypeOK'
    <2>1. journal' \in [Releases -> Phases]
      BY <1>11 DEF SaveActivating, At, UpgradeTypeOK, AgentTypeOK, Phases
    <2>2. run' \in Run
      BY <1>11, ActivateWalk DEF Moved, Released, UpgradeTypeOK, AgentTypeOK
    <2> QED BY <1>11, <2>1, <2>2 DEF SaveActivating, UpgradeTypeOK, AgentTypeOK, upgradeVars
  <1>12. ASSUME NEW r \in Releases, RemoveVenv(r), UNCHANGED upgradeVars PROVE UpgradeTypeOK'
    <2>1. kept' \in [Releases -> BOOLEAN] /\ root' \in Root
      BY <1>12 DEF RemoveVenv, At, UpgradeTypeOK, AgentTypeOK, Root
    <2>2. run' \in Run
      BY <1>12, ActivateWalk DEF Moved, Released, UpgradeTypeOK, AgentTypeOK
    <2> QED BY <1>12, <2>1, <2>2 DEF RemoveVenv, UpgradeTypeOK, AgentTypeOK, upgradeVars
  <1>13. ASSUME NEW r \in Releases, SaveActive(r), UNCHANGED upgradeVars PROVE UpgradeTypeOK'
    <2>1. journal' \in [Releases -> Phases]
      BY <1>13 DEF SaveActive, At, UpgradeTypeOK, AgentTypeOK, Phases
    <2>2. run' \in Run
      BY <1>13, ActivateWalk DEF Moved, Released, UpgradeTypeOK, AgentTypeOK
    <2> QED BY <1>13, <2>1, <2>2 DEF SaveActive, UpgradeTypeOK, AgentTypeOK, upgradeVars
  <1>14. ASSUME NEW r \in Releases, UndoUnlink(r), UNCHANGED upgradeVars PROVE UpgradeTypeOK'
    BY <1>14, RollbackWalk, RunKinds DEF UndoUnlink, At, UpgradeTypeOK, AgentTypeOK, Moved,
         Released, upgradeVars, agentVars, hostVars, MaintenancePhases, DatabaseUpgradeAssumption,
         ReleaseAgentAssumption, WritesHeld, Answer, Phases, Claim, Root, Coordinator, Versions,
         Volumes
  <1>15. ASSUME NEW r \in Releases, BeginRollback(r), UNCHANGED upgradeVars PROVE UpgradeTypeOK'
    <2>1. ci' \in Coordinator
      BY <1>15 DEF BeginRollback, Answer, UpgradeTypeOK, AgentTypeOK, Coordinator, Phases
    <2>2. run' \in Run
      BY <1>15, RollbackWalk DEF Moved, UpgradeTypeOK, AgentTypeOK
    <2> QED BY <1>15, <2>1, <2>2 DEF BeginRollback, UpgradeTypeOK, AgentTypeOK, upgradeVars
  <1>16. ASSUME NEW r \in Releases, UndoFiles(r), UNCHANGED upgradeVars PROVE UpgradeTypeOK'
    <2>1. backup[r] \in Backup
      BY <1>16 DEF UndoFiles, At, StepsTaken, UpgradeTypeOK, AgentTypeOK, DatabaseUpgradeAssumption, ReleaseAgentAssumption
    <2>2. root' \in Root
      BY <1>16, <2>1 DEF UndoFiles, At, UpgradeTypeOK, AgentTypeOK, Backup, Root, Versions
    <2>3. run' \in Run
      BY <1>16, RollbackWalk DEF Moved, UpgradeTypeOK, AgentTypeOK
    <2> QED BY <1>16, <2>2, <2>3 DEF UndoFiles, UpgradeTypeOK, AgentTypeOK, upgradeVars
  <1>17. ASSUME NEW r \in Releases, UndoImage(r), UNCHANGED upgradeVars PROVE UpgradeTypeOK'
    <2>1. backup[r] \in Backup
      BY <1>17 DEF UndoImage, At, StepsTaken, UpgradeTypeOK, AgentTypeOK, DatabaseUpgradeAssumption, ReleaseAgentAssumption
    <2>2. root' \in Root
      BY <1>17, <2>1 DEF UndoImage, At, UpgradeTypeOK, AgentTypeOK, Backup, Root, Versions
    <2>3. run' \in Run
      BY <1>17, RollbackWalk DEF Moved, UpgradeTypeOK, AgentTypeOK
    <2> QED BY <1>17, <2>2, <2>3 DEF UndoImage, UpgradeTypeOK, AgentTypeOK, upgradeVars
  <1>18. ASSUME NEW r \in Releases, UndoVenv(r), UNCHANGED upgradeVars PROVE UpgradeTypeOK'
    <2>1. backup[r] \in Backup
      BY <1>18 DEF UndoVenv, At, StepsTaken, UpgradeTypeOK, AgentTypeOK, DatabaseUpgradeAssumption, ReleaseAgentAssumption
    <2>2. root' \in Root /\ kept' \in [Releases -> BOOLEAN]
      BY <1>18, <2>1 DEF UndoVenv, At, UpgradeTypeOK, AgentTypeOK, Backup, Root, Versions
    <2>3. run' \in Run
      BY <1>18, RollbackWalk DEF Moved, UpgradeTypeOK, AgentTypeOK
    <2> QED BY <1>18, <2>2, <2>3 DEF UndoVenv, UpgradeTypeOK, AgentTypeOK, upgradeVars
  <1>19. ASSUME NEW r \in Releases, RestoreCurrent(r), UNCHANGED upgradeVars PROVE UpgradeTypeOK'
    <2>1. backup[r] \in Backup
      BY <1>19 DEF RestoreCurrent, At, StepsTaken, UpgradeTypeOK, AgentTypeOK, DatabaseUpgradeAssumption, ReleaseAgentAssumption
    <2>2. current' \in Claim \cup {None}
      BY <1>19, <2>1 DEF RestoreCurrent, At, UpgradeTypeOK, AgentTypeOK, Backup, Root, Versions
    <2>3. run' \in Run
      BY <1>19, RollbackWalk DEF Moved, UpgradeTypeOK, AgentTypeOK
    <2> QED BY <1>19, <2>2, <2>3 DEF RestoreCurrent, UpgradeTypeOK, AgentTypeOK, upgradeVars
  <1>20. ASSUME NEW r \in Releases, SaveRolledBack(r), UNCHANGED upgradeVars PROVE UpgradeTypeOK'
    <2>1. journal' \in [Releases -> Phases]
      BY <1>20 DEF SaveRolledBack, UpgradeTypeOK, AgentTypeOK, Phases
    <2>2. ci' \in Coordinator
      BY <1>20 DEF SaveRolledBack, Answer, UpgradeTypeOK, AgentTypeOK, Coordinator
    <2>3. run' \in Run
      BY <1>20, RollbackWalk DEF Released, UpgradeTypeOK, AgentTypeOK
    <2> QED BY <1>20, <2>1, <2>2, <2>3 DEF SaveRolledBack, UpgradeTypeOK, AgentTypeOK, upgradeVars
  <1>21. ASSUME Rehearse \/ Freeze \/ StopWriters \/ FinalRestore PROVE UpgradeTypeOK'
    BY <1>21, ToolWalk, RunKinds DEF Rehearse, Freeze, StopWriters, FinalRestore, UpgradeTypeOK,
         AgentTypeOK, Moved, Released, upgradeVars, agentVars, hostVars, MaintenancePhases,
         DatabaseUpgradeAssumption, ReleaseAgentAssumption, WritesHeld, Answer, Phases, Claim, Root,
         Coordinator, Versions, Volumes
  <1>22. ASSUME KeepEnv \/ SaveSwitching \/ PatchEnv \/ StartNew PROVE UpgradeTypeOK'
    BY <1>22, ToolWalk, RunKinds DEF KeepEnv, SaveSwitching, PatchEnv, StartNew, UpgradeTypeOK,
         AgentTypeOK, Moved, Released, upgradeVars, agentVars, hostVars, MaintenancePhases,
         DatabaseUpgradeAssumption, ReleaseAgentAssumption, WritesHeld, Answer, Phases, Claim, Root,
         Coordinator, Versions, Volumes
  <1>23. ASSUME AwaitVerification \/ BeginUndo \/ SaveUndone \/ Reopen \/ StartWriters \/ ToolDies
       PROVE UpgradeTypeOK'
    BY <1>23, ToolWalk, RunKinds DEF AwaitVerification, BeginUndo, SaveUndone, Reopen, StartWriters,
         ToolDies, UpgradeTypeOK, AgentTypeOK, Moved, Released, upgradeVars, agentVars, hostVars,
         MaintenancePhases, DatabaseUpgradeAssumption, ReleaseAgentAssumption, WritesHeld, Answer,
         Phases, Claim, Root, Coordinator, Versions, Volumes
  <1>24. ASSUME RestoreEnv PROVE UpgradeTypeOK'
    <2>1. original # None => original \in [image : Versions]
      BY DEF UpgradeTypeOK
    <2>2. root' \in Root
      BY <1>24, <2>1 DEF RestoreEnv, UpgradeTypeOK, AgentTypeOK, Root, Volumes
    <2>3. run' \in Run /\ served' \in Volumes \cup {None}
      BY <1>24, ToolWalk DEF RestoreEnv, Moved, UpgradeTypeOK, AgentTypeOK, Volumes
    <2> QED BY <1>24, <2>2, <2>3 DEF RestoreEnv, UpgradeTypeOK, AgentTypeOK, hostVars
  <1>25. ASSUME Write PROVE UpgradeTypeOK'
    BY <1>25, RunKinds DEF Write, UpgradeTypeOK, AgentTypeOK, Moved, Released, upgradeVars,
         agentVars, hostVars, MaintenancePhases, DatabaseUpgradeAssumption, ReleaseAgentAssumption,
         WritesHeld, Answer, Phases, Claim, Root, Coordinator, Versions, Volumes
  <1> QED BY <1>1, <1>2, <1>3, <1>4, <1>5, <1>6, <1>7, <1>8, <1>9, <1>10, <1>11, <1>12, <1>13,
       <1>14, <1>15, <1>16, <1>17, <1>18, <1>19, <1>20, <1>21, <1>22, <1>23, <1>24, <1>25 DEF Next,
       AgentNext, Activate, Rollback, UpgradeNext

\* The marker changes only under the lock, and the agent takes the lock only when it is quiet.
LEMMA MarkerNext == ASSUME DatabaseUpgradeAssumption, HostInv, Next PROVE MarkerHolds'
  <1> USE DEF HostInv
  <1>1. ASSUME NEW r \in Releases, StartDeploy(r), UNCHANGED upgradeVars PROVE MarkerHolds'
    BY <1>1, RunKinds DEF StartDeploy, UpgradeTypeOK, AgentTypeOK, MarkerHolds, WritersStayStopped,
         NoMaintenance, Moved, Released, upgradeVars, agentVars, hostVars, ToolSteps, AgentSteps,
         Guarded, UndoSteps, Step, Enter, Ends, DatabaseUpgradeAssumption, ReleaseAgentAssumption
  <1>2. ASSUME NEW r \in Releases, NEW completes \in BOOLEAN, Stage(r, completes), UNCHANGED
       upgradeVars PROVE MarkerHolds'
    BY <1>2, RunKinds DEF Stage, UpgradeTypeOK, AgentTypeOK, MarkerHolds, WritersStayStopped,
         NoMaintenance, Moved, Released, upgradeVars, agentVars, hostVars, ToolSteps, AgentSteps,
         Guarded, UndoSteps, Step, Enter, Ends, DatabaseUpgradeAssumption, ReleaseAgentAssumption
  <1>3. ASSUME CommandFails \/ AgentDies, UNCHANGED upgradeVars PROVE MarkerHolds'
    BY <1>3, FreeIs, RunKinds DEF CommandFails, AgentDies, UpgradeTypeOK, AgentTypeOK, MarkerHolds,
         WritersStayStopped, NoMaintenance, Moved, Released, upgradeVars, agentVars, hostVars,
         ToolSteps, AgentSteps, Guarded, UndoSteps, Step, Enter, Ends, DatabaseUpgradeAssumption,
         ReleaseAgentAssumption
  <1>4. ASSUME Coordinate, UNCHANGED upgradeVars PROVE MarkerHolds'
    BY <1>4, FreeIs, RunKinds DEF Coordinate, UpgradeTypeOK, AgentTypeOK, MarkerHolds,
         WritersStayStopped, NoMaintenance, Moved, Released, upgradeVars, agentVars, hostVars,
         ToolSteps, AgentSteps, Guarded, UndoSteps, Step, Enter, Ends, DatabaseUpgradeAssumption,
         ReleaseAgentAssumption
  <1>5. ASSUME NEW r \in Releases, ReplaceFiles(r), UNCHANGED upgradeVars PROVE MarkerHolds'
    BY <1>5, ActivateWalk, RunKinds DEF ReplaceFiles, At, UpgradeTypeOK, AgentTypeOK, MarkerHolds,
         WritersStayStopped, NoMaintenance, Moved, Released, upgradeVars, agentVars, hostVars,
         ToolSteps, AgentSteps, Guarded, UndoSteps, Step, Enter, Ends, DatabaseUpgradeAssumption,
         ReleaseAgentAssumption
  <1>6. ASSUME NEW r \in Releases, SwitchImage(r), UNCHANGED upgradeVars PROVE MarkerHolds'
    BY <1>6, ActivateWalk, RunKinds DEF SwitchImage, At, UpgradeTypeOK, AgentTypeOK, MarkerHolds,
         WritersStayStopped, NoMaintenance, Moved, Released, upgradeVars, agentVars, hostVars,
         ToolSteps, AgentSteps, Guarded, UndoSteps, Step, Enter, Ends, DatabaseUpgradeAssumption,
         ReleaseAgentAssumption
  <1>7. ASSUME NEW r \in Releases, RemoveVenv(r), UNCHANGED upgradeVars PROVE MarkerHolds'
    BY <1>7, ActivateWalk, RunKinds DEF RemoveVenv, At, UpgradeTypeOK, AgentTypeOK, MarkerHolds,
         WritersStayStopped, NoMaintenance, Moved, Released, upgradeVars, agentVars, hostVars,
         ToolSteps, AgentSteps, Guarded, UndoSteps, Step, Enter, Ends, DatabaseUpgradeAssumption,
         ReleaseAgentAssumption
  <1>8. ASSUME NEW r \in Releases, LinkVenv(r), UNCHANGED upgradeVars PROVE MarkerHolds'
    BY <1>8, ActivateWalk, RunKinds DEF LinkVenv, At, UpgradeTypeOK, AgentTypeOK, MarkerHolds,
         WritersStayStopped, NoMaintenance, Moved, Released, upgradeVars, agentVars, hostVars,
         ToolSteps, AgentSteps, Guarded, UndoSteps, Step, Enter, Ends, DatabaseUpgradeAssumption,
         ReleaseAgentAssumption
  <1>9. ASSUME NEW r \in Releases, BeginActivation(r) \/ ReactivateActive(r) \/ SaveActivating(r) \/
       ClaimCurrent(r) \/ StopCollector(r), UNCHANGED upgradeVars PROVE MarkerHolds'
    BY <1>9, ActivateWalk, RunKinds DEF BeginActivation, ReactivateActive, SaveActivating,
         ClaimCurrent, StopCollector, At, UpgradeTypeOK, AgentTypeOK, MarkerHolds,
         WritersStayStopped, NoMaintenance, Moved, Released, upgradeVars, agentVars, hostVars,
         ToolSteps, AgentSteps, Guarded, UndoSteps, Step, Enter, Ends, DatabaseUpgradeAssumption,
         ReleaseAgentAssumption
  <1>10. ASSUME NEW r \in Releases, SaveActive(r) \/ ConfirmCurrent(r) \/ ActivationFails(r),
       UNCHANGED upgradeVars PROVE MarkerHolds'
    BY <1>10, ActivateWalk, RunKinds DEF SaveActive, ConfirmCurrent, ActivationFails, At,
         UpgradeTypeOK, AgentTypeOK, MarkerHolds, WritersStayStopped, NoMaintenance, Moved,
         Released, upgradeVars, agentVars, hostVars, ToolSteps, AgentSteps, Guarded, UndoSteps,
         Step, Enter, Ends, DatabaseUpgradeAssumption, ReleaseAgentAssumption
  <1>11. ASSUME NEW r \in Releases, BeginRollback(r), UNCHANGED upgradeVars PROVE MarkerHolds'
    BY <1>11, RollbackWalk, RunKinds DEF BeginRollback, At, UpgradeTypeOK, AgentTypeOK, MarkerHolds,
         WritersStayStopped, NoMaintenance, Moved, Released, upgradeVars, agentVars, hostVars,
         ToolSteps, AgentSteps, Guarded, UndoSteps, Step, Enter, Ends, DatabaseUpgradeAssumption,
         ReleaseAgentAssumption
  <1>12. ASSUME NEW r \in Releases, UndoFiles(r), UNCHANGED upgradeVars PROVE MarkerHolds'
    BY <1>12, RollbackWalk, RunKinds DEF UndoFiles, At, UpgradeTypeOK, AgentTypeOK, MarkerHolds,
         WritersStayStopped, NoMaintenance, Moved, Released, upgradeVars, agentVars, hostVars,
         ToolSteps, AgentSteps, Guarded, UndoSteps, Step, Enter, Ends, DatabaseUpgradeAssumption,
         ReleaseAgentAssumption
  <1>13. ASSUME NEW r \in Releases, UndoImage(r), UNCHANGED upgradeVars PROVE MarkerHolds'
    BY <1>13, RollbackWalk, RunKinds DEF UndoImage, At, UpgradeTypeOK, AgentTypeOK, MarkerHolds,
         WritersStayStopped, NoMaintenance, Moved, Released, upgradeVars, agentVars, hostVars,
         ToolSteps, AgentSteps, Guarded, UndoSteps, Step, Enter, Ends, DatabaseUpgradeAssumption,
         ReleaseAgentAssumption
  <1>14. ASSUME NEW r \in Releases, UndoUnlink(r), UNCHANGED upgradeVars PROVE MarkerHolds'
    BY <1>14, RollbackWalk, RunKinds DEF UndoUnlink, At, UpgradeTypeOK, AgentTypeOK, MarkerHolds,
         WritersStayStopped, NoMaintenance, Moved, Released, upgradeVars, agentVars, hostVars,
         ToolSteps, AgentSteps, Guarded, UndoSteps, Step, Enter, Ends, DatabaseUpgradeAssumption,
         ReleaseAgentAssumption
  <1>15. ASSUME NEW r \in Releases, UndoVenv(r), UNCHANGED upgradeVars PROVE MarkerHolds'
    BY <1>15, RollbackWalk, RunKinds DEF UndoVenv, At, UpgradeTypeOK, AgentTypeOK, MarkerHolds,
         WritersStayStopped, NoMaintenance, Moved, Released, upgradeVars, agentVars, hostVars,
         ToolSteps, AgentSteps, Guarded, UndoSteps, Step, Enter, Ends, DatabaseUpgradeAssumption,
         ReleaseAgentAssumption
  <1>16. ASSUME NEW r \in Releases, RestoreCurrent(r), UNCHANGED upgradeVars PROVE MarkerHolds'
    BY <1>16, RollbackWalk, RunKinds DEF RestoreCurrent, At, UpgradeTypeOK, AgentTypeOK,
         MarkerHolds, WritersStayStopped, NoMaintenance, Moved, Released, upgradeVars, agentVars,
         hostVars, ToolSteps, AgentSteps, Guarded, UndoSteps, Step, Enter, Ends,
         DatabaseUpgradeAssumption, ReleaseAgentAssumption
  <1>17. ASSUME NEW r \in Releases, SaveRolledBack(r), UNCHANGED upgradeVars PROVE MarkerHolds'
    BY <1>17, RollbackWalk, RunKinds DEF SaveRolledBack, At, UpgradeTypeOK, AgentTypeOK,
         MarkerHolds, WritersStayStopped, NoMaintenance, Moved, Released, upgradeVars, agentVars,
         hostVars, ToolSteps, AgentSteps, Guarded, UndoSteps, Step, Enter, Ends,
         DatabaseUpgradeAssumption, ReleaseAgentAssumption
  <1>18. ASSUME Rehearse \/ Freeze \/ StopWriters \/ FinalRestore PROVE MarkerHolds'
    BY <1>18, ToolWalk, RunKinds DEF Rehearse, Freeze, StopWriters, FinalRestore, UpgradeTypeOK,
         AgentTypeOK, MarkerHolds, WritersStayStopped, NoMaintenance, Moved, Released, upgradeVars,
         agentVars, hostVars, ToolSteps, AgentSteps, Guarded, UndoSteps, Step, Enter, Ends,
         DatabaseUpgradeAssumption, ReleaseAgentAssumption
  <1>19. ASSUME KeepEnv \/ SaveSwitching \/ PatchEnv \/ StartNew PROVE MarkerHolds'
    BY <1>19, ToolWalk, RunKinds DEF KeepEnv, SaveSwitching, PatchEnv, StartNew, UpgradeTypeOK,
         AgentTypeOK, MarkerHolds, WritersStayStopped, NoMaintenance, Moved, Released, upgradeVars,
         agentVars, hostVars, ToolSteps, AgentSteps, Guarded, UndoSteps, Step, Enter, Ends,
         DatabaseUpgradeAssumption, ReleaseAgentAssumption
  <1>20. ASSUME RestoreEnv PROVE MarkerHolds'
    BY <1>20, ToolWalk, RunKinds DEF RestoreEnv, UpgradeTypeOK, AgentTypeOK, MarkerHolds,
         WritersStayStopped, NoMaintenance, Moved, Released, upgradeVars, agentVars, hostVars,
         ToolSteps, AgentSteps, Guarded, UndoSteps, Step, Enter, Ends, DatabaseUpgradeAssumption,
         ReleaseAgentAssumption
  <1>21. ASSUME AwaitVerification \/ BeginUndo \/ SaveUndone \/ Reopen \/ StartWriters \/ ToolDies
       PROVE MarkerHolds'
    BY <1>21, ToolWalk, RunKinds DEF AwaitVerification, BeginUndo, SaveUndone, Reopen, StartWriters,
         ToolDies, UpgradeTypeOK, AgentTypeOK, MarkerHolds, WritersStayStopped, NoMaintenance,
         Moved, Released, upgradeVars, agentVars, hostVars, ToolSteps, AgentSteps, Guarded,
         UndoSteps, Step, Enter, Ends, DatabaseUpgradeAssumption, ReleaseAgentAssumption
  <1>22. ASSUME Write PROVE MarkerHolds'
    BY <1>22, RunKinds DEF Write, UpgradeTypeOK, AgentTypeOK, MarkerHolds, WritersStayStopped,
         NoMaintenance, Moved, Released, upgradeVars, agentVars, hostVars, ToolSteps, AgentSteps,
         Guarded, UndoSteps, Step, Enter, Ends, DatabaseUpgradeAssumption, ReleaseAgentAssumption
  <1> QED BY <1>1, <1>2, <1>3, <1>4, <1>5, <1>6, <1>7, <1>8, <1>9, <1>10, <1>11, <1>12, <1>13,
       <1>14, <1>15, <1>16, <1>17, <1>18, <1>19, <1>20, <1>21, <1>22 DEF Next, AgentNext, Activate,
       Rollback, UpgradeNext

\* No write is made between the final dump and the reopening; a rollback of a release keeps the volume.
LEMMA WritesNext == ASSUME DatabaseUpgradeAssumption, HostInv, Next PROVE WritesHeld'
  <1> USE DEF HostInv
  <1>1. ASSUME NEW r \in Releases, StartDeploy(r), UNCHANGED upgradeVars PROVE WritesHeld'
    BY <1>1, RunKinds DEF StartDeploy, UpgradeTypeOK, AgentTypeOK, MarkerHolds, WritersStayStopped,
         WritesHeld, StepsTaken, Moved, Released, upgradeVars, agentVars, hostVars, ToolSteps,
         AgentSteps, Guarded, UndoSteps, Step, Enter, Ends, DatabaseUpgradeAssumption,
         ReleaseAgentAssumption, Volumes, NoMaintenance, Root
  <1>2. ASSUME NEW r \in Releases, NEW completes \in BOOLEAN, Stage(r, completes), UNCHANGED
       upgradeVars PROVE WritesHeld'
    BY <1>2, RunKinds DEF Stage, UpgradeTypeOK, AgentTypeOK, MarkerHolds, WritersStayStopped,
         WritesHeld, StepsTaken, Moved, Released, upgradeVars, agentVars, hostVars, ToolSteps,
         AgentSteps, Guarded, UndoSteps, Step, Enter, Ends, DatabaseUpgradeAssumption,
         ReleaseAgentAssumption, Volumes, NoMaintenance, Root
  <1>3. ASSUME CommandFails \/ AgentDies, UNCHANGED upgradeVars PROVE WritesHeld'
    BY <1>3, FreeIs, RunKinds DEF CommandFails, AgentDies, UpgradeTypeOK, AgentTypeOK, MarkerHolds,
         WritersStayStopped, WritesHeld, StepsTaken, Moved, Released, upgradeVars, agentVars,
         hostVars, ToolSteps, AgentSteps, Guarded, UndoSteps, Step, Enter, Ends,
         DatabaseUpgradeAssumption, ReleaseAgentAssumption, Volumes, NoMaintenance, Root
  <1>4. ASSUME Coordinate, UNCHANGED upgradeVars PROVE WritesHeld'
    BY <1>4, FreeIs, RunKinds DEF Coordinate, UpgradeTypeOK, AgentTypeOK, MarkerHolds,
         WritersStayStopped, WritesHeld, StepsTaken, Moved, Released, upgradeVars, agentVars,
         hostVars, ToolSteps, AgentSteps, Guarded, UndoSteps, Step, Enter, Ends,
         DatabaseUpgradeAssumption, ReleaseAgentAssumption, Volumes, NoMaintenance, Root
  <1>5. ASSUME NEW r \in Releases, ReplaceFiles(r), UNCHANGED upgradeVars PROVE WritesHeld'
    BY <1>5, ActivateWalk, RunKinds DEF ReplaceFiles, At, UpgradeTypeOK, AgentTypeOK, MarkerHolds,
         WritersStayStopped, WritesHeld, StepsTaken, Moved, Released, upgradeVars, agentVars,
         hostVars, ToolSteps, AgentSteps, Guarded, UndoSteps, Step, Enter, Ends,
         DatabaseUpgradeAssumption, ReleaseAgentAssumption, Volumes, NoMaintenance, Root
  <1>6. ASSUME NEW r \in Releases, SwitchImage(r), UNCHANGED upgradeVars PROVE WritesHeld'
    BY <1>6, ActivateWalk, RunKinds DEF SwitchImage, At, UpgradeTypeOK, AgentTypeOK, MarkerHolds,
         WritersStayStopped, WritesHeld, StepsTaken, Moved, Released, upgradeVars, agentVars,
         hostVars, ToolSteps, AgentSteps, Guarded, UndoSteps, Step, Enter, Ends,
         DatabaseUpgradeAssumption, ReleaseAgentAssumption, Volumes, NoMaintenance, Root
  <1>7. ASSUME NEW r \in Releases, RemoveVenv(r), UNCHANGED upgradeVars PROVE WritesHeld'
    BY <1>7, ActivateWalk, RunKinds DEF RemoveVenv, At, UpgradeTypeOK, AgentTypeOK, MarkerHolds,
         WritersStayStopped, WritesHeld, StepsTaken, Moved, Released, upgradeVars, agentVars,
         hostVars, ToolSteps, AgentSteps, Guarded, UndoSteps, Step, Enter, Ends,
         DatabaseUpgradeAssumption, ReleaseAgentAssumption, Volumes, NoMaintenance, Root
  <1>8. ASSUME NEW r \in Releases, LinkVenv(r), UNCHANGED upgradeVars PROVE WritesHeld'
    BY <1>8, ActivateWalk, RunKinds DEF LinkVenv, At, UpgradeTypeOK, AgentTypeOK, MarkerHolds,
         WritersStayStopped, WritesHeld, StepsTaken, Moved, Released, upgradeVars, agentVars,
         hostVars, ToolSteps, AgentSteps, Guarded, UndoSteps, Step, Enter, Ends,
         DatabaseUpgradeAssumption, ReleaseAgentAssumption, Volumes, NoMaintenance, Root
  <1>9. ASSUME NEW r \in Releases, BeginActivation(r) \/ ReactivateActive(r) \/ SaveActivating(r) \/
       ClaimCurrent(r) \/ StopCollector(r), UNCHANGED upgradeVars PROVE WritesHeld'
    BY <1>9, ActivateWalk, RunKinds DEF BeginActivation, ReactivateActive, SaveActivating,
         ClaimCurrent, StopCollector, At, UpgradeTypeOK, AgentTypeOK, MarkerHolds,
         WritersStayStopped, WritesHeld, StepsTaken, Moved, Released, upgradeVars, agentVars,
         hostVars, ToolSteps, AgentSteps, Guarded, UndoSteps, Step, Enter, Ends,
         DatabaseUpgradeAssumption, ReleaseAgentAssumption, Volumes, NoMaintenance, Root
  <1>10. ASSUME NEW r \in Releases, SaveActive(r) \/ ConfirmCurrent(r) \/ ActivationFails(r),
       UNCHANGED upgradeVars PROVE WritesHeld'
    BY <1>10, ActivateWalk, RunKinds DEF SaveActive, ConfirmCurrent, ActivationFails, At,
         UpgradeTypeOK, AgentTypeOK, MarkerHolds, WritersStayStopped, WritesHeld, StepsTaken, Moved,
         Released, upgradeVars, agentVars, hostVars, ToolSteps, AgentSteps, Guarded, UndoSteps,
         Step, Enter, Ends, DatabaseUpgradeAssumption, ReleaseAgentAssumption, Volumes,
         NoMaintenance, Root
  <1>11. ASSUME NEW r \in Releases, BeginRollback(r), UNCHANGED upgradeVars PROVE WritesHeld'
    BY <1>11, RollbackWalk, RunKinds DEF BeginRollback, At, UpgradeTypeOK, AgentTypeOK, MarkerHolds,
         WritersStayStopped, WritesHeld, StepsTaken, Moved, Released, upgradeVars, agentVars,
         hostVars, ToolSteps, AgentSteps, Guarded, UndoSteps, Step, Enter, Ends,
         DatabaseUpgradeAssumption, ReleaseAgentAssumption, Volumes, NoMaintenance, Root
  <1>12. ASSUME NEW r \in Releases, UndoFiles(r), UNCHANGED upgradeVars PROVE WritesHeld'
    BY <1>12, RollbackWalk, RunKinds DEF UndoFiles, At, UpgradeTypeOK, AgentTypeOK, MarkerHolds,
         WritersStayStopped, WritesHeld, StepsTaken, Moved, Released, upgradeVars, agentVars,
         hostVars, ToolSteps, AgentSteps, Guarded, UndoSteps, Step, Enter, Ends,
         DatabaseUpgradeAssumption, ReleaseAgentAssumption, Volumes, NoMaintenance, Root
  <1>13. ASSUME NEW r \in Releases, UndoImage(r), UNCHANGED upgradeVars PROVE WritesHeld'
    BY <1>13, RollbackWalk, RunKinds DEF UndoImage, At, UpgradeTypeOK, AgentTypeOK, MarkerHolds,
         WritersStayStopped, WritesHeld, StepsTaken, Moved, Released, upgradeVars, agentVars,
         hostVars, ToolSteps, AgentSteps, Guarded, UndoSteps, Step, Enter, Ends,
         DatabaseUpgradeAssumption, ReleaseAgentAssumption, Volumes, NoMaintenance, Root
  <1>14. ASSUME NEW r \in Releases, UndoUnlink(r), UNCHANGED upgradeVars PROVE WritesHeld'
    BY <1>14, RollbackWalk, RunKinds DEF UndoUnlink, At, UpgradeTypeOK, AgentTypeOK, MarkerHolds,
         WritersStayStopped, WritesHeld, StepsTaken, Moved, Released, upgradeVars, agentVars,
         hostVars, ToolSteps, AgentSteps, Guarded, UndoSteps, Step, Enter, Ends,
         DatabaseUpgradeAssumption, ReleaseAgentAssumption, Volumes, NoMaintenance, Root
  <1>15. ASSUME NEW r \in Releases, UndoVenv(r), UNCHANGED upgradeVars PROVE WritesHeld'
    BY <1>15, RollbackWalk, RunKinds DEF UndoVenv, At, UpgradeTypeOK, AgentTypeOK, MarkerHolds,
         WritersStayStopped, WritesHeld, StepsTaken, Moved, Released, upgradeVars, agentVars,
         hostVars, ToolSteps, AgentSteps, Guarded, UndoSteps, Step, Enter, Ends,
         DatabaseUpgradeAssumption, ReleaseAgentAssumption, Volumes, NoMaintenance, Root
  <1>16. ASSUME NEW r \in Releases, RestoreCurrent(r), UNCHANGED upgradeVars PROVE WritesHeld'
    BY <1>16, RollbackWalk, RunKinds DEF RestoreCurrent, At, UpgradeTypeOK, AgentTypeOK,
         MarkerHolds, WritersStayStopped, WritesHeld, StepsTaken, Moved, Released, upgradeVars,
         agentVars, hostVars, ToolSteps, AgentSteps, Guarded, UndoSteps, Step, Enter, Ends,
         DatabaseUpgradeAssumption, ReleaseAgentAssumption, Volumes, NoMaintenance, Root
  <1>17. ASSUME NEW r \in Releases, SaveRolledBack(r), UNCHANGED upgradeVars PROVE WritesHeld'
    BY <1>17, RollbackWalk, RunKinds DEF SaveRolledBack, At, UpgradeTypeOK, AgentTypeOK,
         MarkerHolds, WritersStayStopped, WritesHeld, StepsTaken, Moved, Released, upgradeVars,
         agentVars, hostVars, ToolSteps, AgentSteps, Guarded, UndoSteps, Step, Enter, Ends,
         DatabaseUpgradeAssumption, ReleaseAgentAssumption, Volumes, NoMaintenance, Root
  <1>18. ASSUME Rehearse \/ Freeze \/ StopWriters \/ FinalRestore PROVE WritesHeld'
    BY <1>18, ToolWalk, RunKinds DEF Rehearse, Freeze, StopWriters, FinalRestore, UpgradeTypeOK,
         AgentTypeOK, MarkerHolds, WritersStayStopped, WritesHeld, StepsTaken, Moved, Released,
         upgradeVars, agentVars, hostVars, ToolSteps, AgentSteps, Guarded, UndoSteps, Step, Enter,
         Ends, DatabaseUpgradeAssumption, ReleaseAgentAssumption, Volumes, NoMaintenance, Root
  <1>19. ASSUME KeepEnv \/ SaveSwitching \/ PatchEnv \/ StartNew PROVE WritesHeld'
    BY <1>19, ToolWalk, RunKinds DEF KeepEnv, SaveSwitching, PatchEnv, StartNew, UpgradeTypeOK,
         AgentTypeOK, MarkerHolds, WritersStayStopped, WritesHeld, StepsTaken, Moved, Released,
         upgradeVars, agentVars, hostVars, ToolSteps, AgentSteps, Guarded, UndoSteps, Step, Enter,
         Ends, DatabaseUpgradeAssumption, ReleaseAgentAssumption, Volumes, NoMaintenance, Root
  <1>20. ASSUME RestoreEnv PROVE WritesHeld'
    BY <1>20, ToolWalk, RunKinds DEF RestoreEnv, UpgradeTypeOK, AgentTypeOK, MarkerHolds,
         WritersStayStopped, WritesHeld, StepsTaken, Moved, Released, upgradeVars, agentVars,
         hostVars, ToolSteps, AgentSteps, Guarded, UndoSteps, Step, Enter, Ends,
         DatabaseUpgradeAssumption, ReleaseAgentAssumption, Volumes, NoMaintenance, Root
  <1>21. ASSUME AwaitVerification \/ BeginUndo \/ SaveUndone \/ Reopen \/ StartWriters \/ ToolDies
       PROVE WritesHeld'
    BY <1>21, ToolWalk, RunKinds DEF AwaitVerification, BeginUndo, SaveUndone, Reopen, StartWriters,
         ToolDies, UpgradeTypeOK, AgentTypeOK, MarkerHolds, WritersStayStopped, WritesHeld,
         StepsTaken, Moved, Released, upgradeVars, agentVars, hostVars, ToolSteps, AgentSteps,
         Guarded, UndoSteps, Step, Enter, Ends, DatabaseUpgradeAssumption, ReleaseAgentAssumption,
         Volumes, NoMaintenance, Root
  <1>22. ASSUME Write PROVE WritesHeld'
    <2>1. served = root.db /\ marker # "writers-reopened" => root.db = OldVolume
      BY <1>22 DEF Write, MarkerHolds, WritersStayStopped, WritesHeld, UpgradeTypeOK, AgentTypeOK, MaintenancePhases
    <2>2. data' = [data EXCEPT ![root.db] = accepted + 1] /\ accepted' = accepted + 1
      BY <1>22, <2>1 DEF Write, WritesHeld
    <2>3. data'[root.db] = accepted'
      BY <2>2 DEF UpgradeTypeOK, AgentTypeOK, Root
    <2>4. run.at \notin {"compared", "kept", "switching"}
      BY <1>22 DEF Write, MarkerHolds, WritersStayStopped
    <2> QED BY <1>22, <2>1, <2>3, <2>4 DEF Write, WritesHeld, agentVars
  <1> QED BY <1>1, <1>2, <1>3, <1>4, <1>5, <1>6, <1>7, <1>8, <1>9, <1>10, <1>11, <1>12, <1>13,
       <1>14, <1>15, <1>16, <1>17, <1>18, <1>19, <1>20, <1>21, <1>22 DEF Next, AgentNext, Activate,
       Rollback, UpgradeNext

\* Each step of the lock holder adds what it did; nobody else writes while it holds the lock.
LEMMA StepsNext == ASSUME DatabaseUpgradeAssumption, HostInv, Next PROVE StepsTaken'
  <1> USE DEF HostInv
  <1>1. ASSUME NEW r \in Releases, StartDeploy(r), UNCHANGED upgradeVars PROVE StepsTaken'
    BY <1>1, RunKinds DEF StartDeploy, UpgradeTypeOK, AgentTypeOK, FoundVenv, StepsTaken, Moved,
         Released, VenvSafe, upgradeVars, agentVars, hostVars, ToolSteps, AgentSteps, Guarded,
         UndoSteps, Step, Enter, Ends, DatabaseUpgradeAssumption, ReleaseAgentAssumption, MayUndo,
         SameDatabase
  <1>2. ASSUME NEW r \in Releases, NEW completes \in BOOLEAN, Stage(r, completes), UNCHANGED
       upgradeVars PROVE StepsTaken'
    BY <1>2, RunKinds DEF Stage, UpgradeTypeOK, AgentTypeOK, FoundVenv, StepsTaken, Moved, Released,
         VenvSafe, upgradeVars, agentVars, hostVars, ToolSteps, AgentSteps, Guarded, UndoSteps,
         Step, Enter, Ends, DatabaseUpgradeAssumption, ReleaseAgentAssumption, MayUndo, SameDatabase
  <1>3. ASSUME CommandFails \/ AgentDies, UNCHANGED upgradeVars PROVE StepsTaken'
    BY <1>3, FreeIs, RunKinds DEF CommandFails, AgentDies, UpgradeTypeOK, AgentTypeOK, FoundVenv,
         StepsTaken, Moved, Released, VenvSafe, upgradeVars, agentVars, hostVars, ToolSteps,
         AgentSteps, Guarded, UndoSteps, Step, Enter, Ends, DatabaseUpgradeAssumption,
         ReleaseAgentAssumption, MayUndo, SameDatabase
  <1>4. ASSUME Coordinate, UNCHANGED upgradeVars PROVE StepsTaken'
    BY <1>4, FreeIs, RunKinds DEF Coordinate, UpgradeTypeOK, AgentTypeOK, FoundVenv, StepsTaken,
         Moved, Released, VenvSafe, upgradeVars, agentVars, hostVars, ToolSteps, AgentSteps,
         Guarded, UndoSteps, Step, Enter, Ends, DatabaseUpgradeAssumption, ReleaseAgentAssumption,
         MayUndo, SameDatabase
  <1>5. ASSUME NEW r \in Releases, ReplaceFiles(r), UNCHANGED upgradeVars PROVE StepsTaken'
    BY <1>5, ActivateWalk, RunKinds DEF ReplaceFiles, At, UpgradeTypeOK, AgentTypeOK, FoundVenv,
         StepsTaken, Moved, Released, VenvSafe, upgradeVars, agentVars, hostVars, ToolSteps,
         AgentSteps, Guarded, UndoSteps, Step, Enter, Ends, DatabaseUpgradeAssumption,
         ReleaseAgentAssumption, MayUndo, SameDatabase
  <1>6. ASSUME NEW r \in Releases, SwitchImage(r), UNCHANGED upgradeVars PROVE StepsTaken'
    BY <1>6, ActivateWalk, RunKinds DEF SwitchImage, At, UpgradeTypeOK, AgentTypeOK, FoundVenv,
         StepsTaken, Moved, Released, VenvSafe, upgradeVars, agentVars, hostVars, ToolSteps,
         AgentSteps, Guarded, UndoSteps, Step, Enter, Ends, DatabaseUpgradeAssumption,
         ReleaseAgentAssumption, MayUndo, SameDatabase
  <1>7. ASSUME NEW r \in Releases, LinkVenv(r), UNCHANGED upgradeVars PROVE StepsTaken'
    BY <1>7, ActivateWalk, RunKinds DEF LinkVenv, At, UpgradeTypeOK, AgentTypeOK, FoundVenv,
         StepsTaken, Moved, Released, VenvSafe, upgradeVars, agentVars, hostVars, ToolSteps,
         AgentSteps, Guarded, UndoSteps, Step, Enter, Ends, DatabaseUpgradeAssumption,
         ReleaseAgentAssumption, MayUndo, SameDatabase
  <1>8. ASSUME NEW r \in Releases, ReactivateActive(r) \/ SaveActivating(r) \/ StopCollector(r),
       UNCHANGED upgradeVars PROVE StepsTaken'
    BY <1>8, ActivateWalk, RunKinds DEF ReactivateActive, SaveActivating, StopCollector, At,
         UpgradeTypeOK, AgentTypeOK, FoundVenv, StepsTaken, Moved, Released, VenvSafe, upgradeVars,
         agentVars, hostVars, ToolSteps, AgentSteps, Guarded, UndoSteps, Step, Enter, Ends,
         DatabaseUpgradeAssumption, ReleaseAgentAssumption, MayUndo, SameDatabase
  <1>9. ASSUME NEW r \in Releases, SaveActive(r) \/ ConfirmCurrent(r) \/ ActivationFails(r),
       UNCHANGED upgradeVars PROVE StepsTaken'
    BY <1>9, ActivateWalk, RunKinds DEF SaveActive, ConfirmCurrent, ActivationFails, At,
         UpgradeTypeOK, AgentTypeOK, FoundVenv, StepsTaken, Moved, Released, VenvSafe, upgradeVars,
         agentVars, hostVars, ToolSteps, AgentSteps, Guarded, UndoSteps, Step, Enter, Ends,
         DatabaseUpgradeAssumption, ReleaseAgentAssumption, MayUndo, SameDatabase
  <1>10. ASSUME NEW r \in Releases, BeginActivation(r), UNCHANGED upgradeVars PROVE StepsTaken'
    <2> DEFINE taken == [code |-> root.code, image |-> root.image, db |-> root.db, previous |-> current,
                           link |-> IF root.venv \in Releases THEN root.venv ELSE None]
    <2>1. root.venv \in Releases \/ root.venv = Base
      BY <1>10 DEF BeginActivation, UpgradeTypeOK, AgentTypeOK, Root, Versions
    <2>2. taken \in Backup
      BY DEF UpgradeTypeOK, AgentTypeOK, Root, Backup, Claim
    <2>3. backup'[r] = taken /\ backup'[r] # None
      BY <1>10, <2>2 DEF BeginActivation, UpgradeTypeOK, AgentTypeOK, DatabaseUpgradeAssumption, NoneAssumption
    <2>4. root.venv = FoundVenv(r)' /\ ~kept[r]
      BY <1>10, <2>1, <2>3 DEF BeginActivation, FoundVenv, VenvSafe, DatabaseUpgradeAssumption, ReleaseAgentAssumption
    <2>5. Moved("backed", r, "activate")
      BY <1>10, ActivateWalk DEF UpgradeTypeOK
    <2> QED BY <1>10, <2>3, <2>4, <2>5 DEF BeginActivation, StepsTaken, Moved, UndoSteps, Guarded
  <1>11. ASSUME NEW r \in Releases, ClaimCurrent(r), UNCHANGED upgradeVars PROVE StepsTaken'
    <2>1. current' # None /\ current'.release = r
      BY <1>11 DEF ClaimCurrent, DatabaseUpgradeAssumption, NoneAssumption, Claim
    <2>2. Moved("claimed", r, run.asked)
      BY <1>11, ActivateWalk DEF UpgradeTypeOK
    <2> QED BY <1>11, <2>1, <2>2 DEF ClaimCurrent, At, StepsTaken, Moved, FoundVenv, UndoSteps, Guarded
  <1>12. ASSUME NEW r \in Releases, RemoveVenv(r), UNCHANGED upgradeVars PROVE StepsTaken'
    <2>1. root'.code = root.code /\ root'.image = root.image /\ root'.venv = None
      BY <1>12 DEF RemoveVenv, UpgradeTypeOK, AgentTypeOK, Root
    <2>2. Moved("unlinked", r, run.asked)
      BY <1>12, ActivateWalk DEF UpgradeTypeOK
    <2> QED BY <1>12, <2>1, <2>2 DEF RemoveVenv, At, StepsTaken, Moved, FoundVenv, UndoSteps, Guarded
  <1>13. ASSUME NEW r \in Releases, UndoFiles(r), UNCHANGED upgradeVars PROVE StepsTaken'
    BY <1>13, RollbackWalk, RunKinds DEF UndoFiles, At, UpgradeTypeOK, AgentTypeOK, FoundVenv,
         StepsTaken, Moved, Released, VenvSafe, upgradeVars, agentVars, hostVars, ToolSteps,
         AgentSteps, Guarded, UndoSteps, Step, Enter, Ends, DatabaseUpgradeAssumption,
         ReleaseAgentAssumption, MayUndo, SameDatabase
  <1>14. ASSUME NEW r \in Releases, UndoUnlink(r), UNCHANGED upgradeVars PROVE StepsTaken'
    BY <1>14, RollbackWalk, RunKinds DEF UndoUnlink, At, UpgradeTypeOK, AgentTypeOK, FoundVenv,
         StepsTaken, Moved, Released, VenvSafe, upgradeVars, agentVars, hostVars, ToolSteps,
         AgentSteps, Guarded, UndoSteps, Step, Enter, Ends, DatabaseUpgradeAssumption,
         ReleaseAgentAssumption, MayUndo, SameDatabase
  <1>15. ASSUME NEW r \in Releases, RestoreCurrent(r), UNCHANGED upgradeVars PROVE StepsTaken'
    BY <1>15, RollbackWalk, RunKinds DEF RestoreCurrent, At, UpgradeTypeOK, AgentTypeOK, FoundVenv,
         StepsTaken, Moved, Released, VenvSafe, upgradeVars, agentVars, hostVars, ToolSteps,
         AgentSteps, Guarded, UndoSteps, Step, Enter, Ends, DatabaseUpgradeAssumption,
         ReleaseAgentAssumption, MayUndo, SameDatabase
  <1>16. ASSUME NEW r \in Releases, SaveRolledBack(r), UNCHANGED upgradeVars PROVE StepsTaken'
    BY <1>16, RollbackWalk, RunKinds DEF SaveRolledBack, At, UpgradeTypeOK, AgentTypeOK, FoundVenv,
         StepsTaken, Moved, Released, VenvSafe, upgradeVars, agentVars, hostVars, ToolSteps,
         AgentSteps, Guarded, UndoSteps, Step, Enter, Ends, DatabaseUpgradeAssumption,
         ReleaseAgentAssumption, MayUndo, SameDatabase
  <1>17. ASSUME NEW r \in Releases, BeginRollback(r), UNCHANGED upgradeVars PROVE StepsTaken'
    <2>1. CASE run' = run
      BY <1>17, <2>1 DEF BeginRollback, StepsTaken, FoundVenv
    <2>2. CASE MayUndo(r) /\ Moved("undoing", r, "rollback")
      BY <1>17, <2>2, ClaimedIs DEF BeginRollback, StepsTaken, Moved, MayUndo, SameDatabase, UndoSteps, Guarded,
           DatabaseUpgradeAssumption, NoneAssumption, ReleaseAgentAssumption
    <2> QED BY <1>17, <2>1, <2>2, RollbackWalk DEF UpgradeTypeOK, AgentTypeOK
  <1>18. ASSUME NEW r \in Releases, UndoImage(r), UNCHANGED upgradeVars PROVE StepsTaken'
    <2>1. root'.code = root.code /\ root'.image = backup[r].image /\ root'.venv = root.venv
      BY <1>18 DEF UndoImage, UpgradeTypeOK, AgentTypeOK, Root
    <2>2. Moved("unimaged", r, run.asked)
      BY <1>18, RollbackWalk DEF UpgradeTypeOK, AgentTypeOK
    <2> QED BY <1>18, <2>1, <2>2 DEF UndoImage, At, StepsTaken, Moved, FoundVenv, UndoSteps, Guarded
  <1>19. ASSUME NEW r \in Releases, UndoVenv(r), UNCHANGED upgradeVars PROVE StepsTaken'
    <2>1. current # None /\ current.release = r
      BY <1>19 DEF UndoVenv, At, StepsTaken, UndoSteps
    <2>2. root'.venv = FoundVenv(r)
      BY <1>19, <2>1, ClaimedIs DEF UndoVenv, FoundVenv, VenvSafe, UpgradeTypeOK, AgentTypeOK, Root
    <2>3. root'.code = root.code /\ root'.image = root.image
      BY <1>19 DEF UndoVenv, UpgradeTypeOK, AgentTypeOK, Root
    <2>4. Moved("restarted", r, run.asked)
      BY <1>19, RollbackWalk DEF UpgradeTypeOK, AgentTypeOK
    <2> QED BY <1>19, <2>1, <2>2, <2>3, <2>4 DEF UndoVenv, At, StepsTaken, Moved, FoundVenv, UndoSteps, Guarded
  <1>20. ASSUME Rehearse \/ Freeze \/ StopWriters \/ FinalRestore PROVE StepsTaken'
    BY <1>20, ToolWalk, RunKinds DEF Rehearse, Freeze, StopWriters, FinalRestore, UpgradeTypeOK,
         AgentTypeOK, FoundVenv, StepsTaken, Moved, Released, VenvSafe, upgradeVars, agentVars,
         hostVars, ToolSteps, AgentSteps, Guarded, UndoSteps, Step, Enter, Ends,
         DatabaseUpgradeAssumption, ReleaseAgentAssumption, MayUndo, SameDatabase
  <1>21. ASSUME KeepEnv \/ SaveSwitching \/ PatchEnv \/ StartNew PROVE StepsTaken'
    BY <1>21, ToolWalk, RunKinds DEF KeepEnv, SaveSwitching, PatchEnv, StartNew, UpgradeTypeOK,
         AgentTypeOK, FoundVenv, StepsTaken, Moved, Released, VenvSafe, upgradeVars, agentVars,
         hostVars, ToolSteps, AgentSteps, Guarded, UndoSteps, Step, Enter, Ends,
         DatabaseUpgradeAssumption, ReleaseAgentAssumption, MayUndo, SameDatabase
  <1>22. ASSUME RestoreEnv PROVE StepsTaken'
    BY <1>22, ToolWalk, RunKinds DEF RestoreEnv, UpgradeTypeOK, AgentTypeOK, FoundVenv, StepsTaken,
         Moved, Released, VenvSafe, upgradeVars, agentVars, hostVars, ToolSteps, AgentSteps,
         Guarded, UndoSteps, Step, Enter, Ends, DatabaseUpgradeAssumption, ReleaseAgentAssumption,
         MayUndo, SameDatabase
  <1>23. ASSUME AwaitVerification \/ BeginUndo \/ SaveUndone \/ Reopen \/ StartWriters \/ ToolDies
       PROVE StepsTaken'
    BY <1>23, ToolWalk, RunKinds DEF AwaitVerification, BeginUndo, SaveUndone, Reopen, StartWriters,
         ToolDies, UpgradeTypeOK, AgentTypeOK, FoundVenv, StepsTaken, Moved, Released, VenvSafe,
         upgradeVars, agentVars, hostVars, ToolSteps, AgentSteps, Guarded, UndoSteps, Step, Enter,
         Ends, DatabaseUpgradeAssumption, ReleaseAgentAssumption, MayUndo, SameDatabase
  <1>24. ASSUME Write PROVE StepsTaken'
    BY <1>24, RunKinds DEF Write, UpgradeTypeOK, AgentTypeOK, FoundVenv, StepsTaken, Moved,
         Released, VenvSafe, upgradeVars, agentVars, hostVars, ToolSteps, AgentSteps, Guarded,
         UndoSteps, Step, Enter, Ends, DatabaseUpgradeAssumption, ReleaseAgentAssumption, MayUndo,
         SameDatabase
  <1> QED BY <1>1, <1>2, <1>3, <1>4, <1>5, <1>6, <1>7, <1>8, <1>9, <1>10, <1>11, <1>12, <1>13,
       <1>14, <1>15, <1>16, <1>17, <1>18, <1>19, <1>20, <1>21, <1>22, <1>23, <1>24 DEF Next,
       AgentNext, Activate, Rollback, UpgradeNext

\* The real virtualenv is never removed: it is moved into the backup, and moved back.
LEMMA VenvNext == ASSUME DatabaseUpgradeAssumption, HostInv, Next PROVE VenvSafe'
  <1> USE DEF HostInv
  <1>1. ASSUME NEW r \in Releases, StartDeploy(r), UNCHANGED upgradeVars PROVE VenvSafe'
    BY <1>1, RunKinds, ClaimedIs DEF StartDeploy, UpgradeTypeOK, AgentTypeOK, FoundVenv, StepsTaken,
         VenvSafe, Runs, Root, Versions, upgradeVars, agentVars, hostVars, Guarded, UndoSteps,
         DatabaseUpgradeAssumption, ReleaseAgentAssumption, WritesHeld, MarkerHolds
  <1>2. ASSUME NEW r \in Releases, NEW completes \in BOOLEAN, Stage(r, completes), UNCHANGED
       upgradeVars PROVE VenvSafe'
    BY <1>2, RunKinds, ClaimedIs DEF Stage, UpgradeTypeOK, AgentTypeOK, FoundVenv, StepsTaken,
         VenvSafe, Runs, Root, Versions, upgradeVars, agentVars, hostVars, Guarded, UndoSteps,
         DatabaseUpgradeAssumption, ReleaseAgentAssumption, WritesHeld, MarkerHolds
  <1>3. ASSUME CommandFails \/ AgentDies, UNCHANGED upgradeVars PROVE VenvSafe'
    BY <1>3, FreeIs, RunKinds, ClaimedIs DEF CommandFails, AgentDies, UpgradeTypeOK, AgentTypeOK,
         FoundVenv, StepsTaken, VenvSafe, Runs, Root, Versions, upgradeVars, agentVars, hostVars,
         Guarded, UndoSteps, DatabaseUpgradeAssumption, ReleaseAgentAssumption, WritesHeld,
         MarkerHolds
  <1>4. ASSUME Coordinate, UNCHANGED upgradeVars PROVE VenvSafe'
    BY <1>4, FreeIs, RunKinds, ClaimedIs DEF Coordinate, UpgradeTypeOK, AgentTypeOK, FoundVenv,
         StepsTaken, VenvSafe, Runs, Root, Versions, upgradeVars, agentVars, hostVars, Guarded,
         UndoSteps, DatabaseUpgradeAssumption, ReleaseAgentAssumption, WritesHeld, MarkerHolds
  <1>5. ASSUME NEW r \in Releases, ReplaceFiles(r), UNCHANGED upgradeVars PROVE VenvSafe'
    BY <1>5, ActivateWalk, RunKinds, ClaimedIs DEF ReplaceFiles, At, UpgradeTypeOK, AgentTypeOK,
         FoundVenv, StepsTaken, VenvSafe, Runs, Root, Versions, upgradeVars, agentVars, hostVars,
         Guarded, UndoSteps, DatabaseUpgradeAssumption, ReleaseAgentAssumption, WritesHeld,
         MarkerHolds
  <1>6. ASSUME NEW r \in Releases, SwitchImage(r), UNCHANGED upgradeVars PROVE VenvSafe'
    BY <1>6, ActivateWalk, RunKinds, ClaimedIs DEF SwitchImage, At, UpgradeTypeOK, AgentTypeOK,
         FoundVenv, StepsTaken, VenvSafe, Runs, Root, Versions, upgradeVars, agentVars, hostVars,
         Guarded, UndoSteps, DatabaseUpgradeAssumption, ReleaseAgentAssumption, WritesHeld,
         MarkerHolds
  <1>7. ASSUME NEW r \in Releases, RemoveVenv(r), UNCHANGED upgradeVars PROVE VenvSafe'
    BY <1>7, ActivateWalk, RunKinds, ClaimedIs DEF RemoveVenv, At, UpgradeTypeOK, AgentTypeOK,
         FoundVenv, StepsTaken, VenvSafe, Runs, Root, Versions, upgradeVars, agentVars, hostVars,
         Guarded, UndoSteps, DatabaseUpgradeAssumption, ReleaseAgentAssumption, WritesHeld,
         MarkerHolds
  <1>8. ASSUME NEW r \in Releases, BeginActivation(r) \/ ReactivateActive(r) \/ SaveActivating(r) \/
       StopCollector(r), UNCHANGED upgradeVars PROVE VenvSafe'
    BY <1>8, ActivateWalk, RunKinds, ClaimedIs DEF BeginActivation, ReactivateActive,
         SaveActivating, StopCollector, At, UpgradeTypeOK, AgentTypeOK, FoundVenv, StepsTaken,
         VenvSafe, Runs, Root, Versions, upgradeVars, agentVars, hostVars, Guarded, UndoSteps,
         DatabaseUpgradeAssumption, ReleaseAgentAssumption, WritesHeld, MarkerHolds
  <1>9. ASSUME NEW r \in Releases, SaveActive(r) \/ ActivationFails(r), UNCHANGED upgradeVars PROVE
       VenvSafe'
    BY <1>9, ActivateWalk, RunKinds, ClaimedIs DEF SaveActive, ActivationFails, At, UpgradeTypeOK,
         AgentTypeOK, FoundVenv, StepsTaken, VenvSafe, Runs, Root, Versions, upgradeVars, agentVars,
         hostVars, Guarded, UndoSteps, DatabaseUpgradeAssumption, ReleaseAgentAssumption,
         WritesHeld, MarkerHolds
  <1>10. ASSUME NEW r \in Releases, ClaimCurrent(r), UNCHANGED upgradeVars PROVE VenvSafe'
    <2>1. current' # None /\ current'.release = r
      BY <1>10 DEF ClaimCurrent, DatabaseUpgradeAssumption, NoneAssumption, Claim
    <2>2. root.venv = FoundVenv(r) /\ backup[r] # None
      BY <1>10 DEF ClaimCurrent, At, StepsTaken, DatabaseUpgradeAssumption, ReleaseAgentAssumption
    <2> QED BY <1>10, <2>1, <2>2 DEF ClaimCurrent, VenvSafe, FoundVenv
  <1>11. ASSUME NEW r \in Releases, LinkVenv(r), UNCHANGED upgradeVars PROVE VenvSafe'
    <2>1. current # None /\ current.release = r /\ root.venv = None
      BY <1>11 DEF LinkVenv, At, StepsTaken, Guarded
    <2> QED BY <1>11, <2>1 DEF LinkVenv, VenvSafe, DatabaseUpgradeAssumption, ReleaseAgentAssumption
  <1>12. ASSUME NEW r \in Releases, ConfirmCurrent(r), UNCHANGED upgradeVars PROVE VenvSafe'
    <2>1. current # None /\ current.release = r
      BY <1>12 DEF ConfirmCurrent, At, StepsTaken, Guarded
    <2>2. current' # None /\ current'.release = r
      BY <1>12 DEF ConfirmCurrent, DatabaseUpgradeAssumption, NoneAssumption, Claim
    <2> QED BY <1>12, <2>1, <2>2 DEF ConfirmCurrent, VenvSafe
  <1>13. ASSUME NEW r \in Releases, BeginRollback(r), UNCHANGED upgradeVars PROVE VenvSafe'
    BY <1>13, RollbackWalk, RunKinds, ClaimedIs DEF BeginRollback, At, UpgradeTypeOK, AgentTypeOK,
         FoundVenv, StepsTaken, VenvSafe, Runs, Root, Versions, upgradeVars, agentVars, hostVars,
         Guarded, UndoSteps, DatabaseUpgradeAssumption, ReleaseAgentAssumption, WritesHeld,
         MarkerHolds
  <1>14. ASSUME NEW r \in Releases, UndoFiles(r), UNCHANGED upgradeVars PROVE VenvSafe'
    BY <1>14, RollbackWalk, RunKinds, ClaimedIs DEF UndoFiles, At, UpgradeTypeOK, AgentTypeOK,
         FoundVenv, StepsTaken, VenvSafe, Runs, Root, Versions, upgradeVars, agentVars, hostVars,
         Guarded, UndoSteps, DatabaseUpgradeAssumption, ReleaseAgentAssumption, WritesHeld,
         MarkerHolds
  <1>15. ASSUME NEW r \in Releases, UndoImage(r), UNCHANGED upgradeVars PROVE VenvSafe'
    BY <1>15, RollbackWalk, RunKinds, ClaimedIs DEF UndoImage, At, UpgradeTypeOK, AgentTypeOK,
         FoundVenv, StepsTaken, VenvSafe, Runs, Root, Versions, upgradeVars, agentVars, hostVars,
         Guarded, UndoSteps, DatabaseUpgradeAssumption, ReleaseAgentAssumption, WritesHeld,
         MarkerHolds
  <1>16. ASSUME NEW r \in Releases, UndoUnlink(r), UNCHANGED upgradeVars PROVE VenvSafe'
    BY <1>16, RollbackWalk, RunKinds, ClaimedIs DEF UndoUnlink, At, UpgradeTypeOK, AgentTypeOK,
         FoundVenv, StepsTaken, VenvSafe, Runs, Root, Versions, upgradeVars, agentVars, hostVars,
         Guarded, UndoSteps, DatabaseUpgradeAssumption, ReleaseAgentAssumption, WritesHeld,
         MarkerHolds
  <1>17. ASSUME NEW r \in Releases, UndoVenv(r), UNCHANGED upgradeVars PROVE VenvSafe'
    BY <1>17, RollbackWalk, RunKinds, ClaimedIs DEF UndoVenv, At, UpgradeTypeOK, AgentTypeOK,
         FoundVenv, StepsTaken, VenvSafe, Runs, Root, Versions, upgradeVars, agentVars, hostVars,
         Guarded, UndoSteps, DatabaseUpgradeAssumption, ReleaseAgentAssumption, WritesHeld,
         MarkerHolds
  <1>18. ASSUME NEW r \in Releases, SaveRolledBack(r), UNCHANGED upgradeVars PROVE VenvSafe'
    BY <1>18, RollbackWalk, RunKinds, ClaimedIs DEF SaveRolledBack, At, UpgradeTypeOK, AgentTypeOK,
         FoundVenv, StepsTaken, VenvSafe, Runs, Root, Versions, upgradeVars, agentVars, hostVars,
         Guarded, UndoSteps, DatabaseUpgradeAssumption, ReleaseAgentAssumption, WritesHeld,
         MarkerHolds
  <1>19. ASSUME NEW r \in Releases, RestoreCurrent(r), UNCHANGED upgradeVars PROVE VenvSafe'
    <2>1. current # None /\ current.release = r /\ root.code = backup[r].code /\ root.image = backup[r].image
          /\ root.venv = FoundVenv(r) /\ current' = Previous(r)
      BY <1>19 DEF RestoreCurrent, At, StepsTaken, UndoSteps, Previous
    <2>2. PICK S \in SUBSET Releases : Stacked(S)
      BY DEF Stack
    <2>3. r \in S /\ backup[r] \in Backup
      BY <2>1, <2>2, ClaimedIs DEF Stacked
    <2>4. CASE Previous(r) = None
      <3>1. Runs(root.code)
        BY <2>1, <2>2, <2>3, <2>4 DEF Stacked, Runs
      <3> QED BY <1>19, <2>1, <2>4, <3>1 DEF RestoreCurrent, VenvSafe, Runs, UpgradeTypeOK, AgentTypeOK, Root
    <2>5. CASE Previous(r) # None
      <3>1. backup[Previous(r).release].link = None => kept[Previous(r).release] \/ backup[r].link = None
        BY <2>2, <2>3, <2>5 DEF Stacked
      <3> QED BY <1>19, <2>1, <2>5, <3>1 DEF RestoreCurrent, VenvSafe, FoundVenv
    <2> QED BY <2>4, <2>5
  <1>20. ASSUME Rehearse \/ Freeze \/ StopWriters \/ FinalRestore PROVE VenvSafe'
    BY <1>20, ToolWalk, RunKinds, ClaimedIs DEF Rehearse, Freeze, StopWriters, FinalRestore,
         UpgradeTypeOK, AgentTypeOK, FoundVenv, StepsTaken, VenvSafe, Runs, Root, Versions,
         upgradeVars, agentVars, hostVars, Guarded, UndoSteps, DatabaseUpgradeAssumption,
         ReleaseAgentAssumption, WritesHeld, MarkerHolds
  <1>21. ASSUME KeepEnv \/ SaveSwitching \/ PatchEnv \/ StartNew PROVE VenvSafe'
    BY <1>21, ToolWalk, RunKinds, ClaimedIs DEF KeepEnv, SaveSwitching, PatchEnv, StartNew,
         UpgradeTypeOK, AgentTypeOK, FoundVenv, StepsTaken, VenvSafe, Runs, Root, Versions,
         upgradeVars, agentVars, hostVars, Guarded, UndoSteps, DatabaseUpgradeAssumption,
         ReleaseAgentAssumption, WritesHeld, MarkerHolds
  <1>22. ASSUME AwaitVerification \/ BeginUndo \/ SaveUndone \/ Reopen \/ StartWriters \/ ToolDies
       PROVE VenvSafe'
    BY <1>22, ToolWalk, RunKinds, ClaimedIs DEF AwaitVerification, BeginUndo, SaveUndone, Reopen,
         StartWriters, ToolDies, UpgradeTypeOK, AgentTypeOK, FoundVenv, StepsTaken, VenvSafe, Runs,
         Root, Versions, upgradeVars, agentVars, hostVars, Guarded, UndoSteps,
         DatabaseUpgradeAssumption, ReleaseAgentAssumption, WritesHeld, MarkerHolds
  <1>23. ASSUME RestoreEnv PROVE VenvSafe'
    <2>1. root'.code = root.code /\ root'.venv = root.venv
      BY <1>23 DEF RestoreEnv, UpgradeTypeOK, AgentTypeOK, Root
    <2>2. root'.image = root.image
      BY <1>23 DEF RestoreEnv, Step, UpgradeTypeOK, AgentTypeOK, Root, MarkerHolds, WritesHeld
    <2> QED BY <1>23, <2>1, <2>2 DEF RestoreEnv, VenvSafe, Runs, Versions, hostVars
  <1>24. ASSUME Write PROVE VenvSafe'
    BY <1>24, RunKinds, ClaimedIs DEF Write, UpgradeTypeOK, AgentTypeOK, FoundVenv, StepsTaken,
         VenvSafe, Runs, Root, Versions, upgradeVars, agentVars, hostVars, Guarded, UndoSteps,
         DatabaseUpgradeAssumption, ReleaseAgentAssumption, WritesHeld, MarkerHolds
  <1> QED BY <1>1, <1>2, <1>3, <1>4, <1>5, <1>6, <1>7, <1>8, <1>9, <1>10, <1>11, <1>12, <1>13,
       <1>14, <1>15, <1>16, <1>17, <1>18, <1>19, <1>20, <1>21, <1>22, <1>23, <1>24 DEF Next,
       AgentNext, Activate, Rollback, UpgradeNext

\* A step that touches no journal, backup, claim or virtualenv leaves the stack alone.
LEMMA StackQuiet ==
    ASSUME HostInv, UNCHANGED <<journal, backup, kept, current>>,
           run' = run \/ run'.at \notin {"backed", "journaled", "restored"}
    PROVE  Stack'
  <1>1. PICK S \in SUBSET Releases : Stacked(S)
    BY DEF HostInv, Stack
  <1>2. Stacked(S)'
    BY <1>1 DEF Stacked, Previous, FoundVenv
  <1> QED BY <1>2 DEF Stack

\* Activation pushes a release that was never claimed, rollback pops the one on top.
LEMMA StackNext == ASSUME DatabaseUpgradeAssumption, HostInv, Next PROVE Stack'
  <1> USE DEF HostInv
  <1>1. ASSUME NEW r \in Releases, StartDeploy(r), UNCHANGED upgradeVars PROVE Stack'
    BY <1>1, RunKinds DEF StartDeploy, UpgradeTypeOK, AgentTypeOK, Stack, Stacked, FoundVenv,
         Previous, StepsTaken, Moved, Released, upgradeVars, agentVars, hostVars, ToolSteps,
         Guarded, UndoSteps, DatabaseUpgradeAssumption, ReleaseAgentAssumption
  <1>2. ASSUME NEW r \in Releases, NEW completes \in BOOLEAN, Stage(r, completes), UNCHANGED
       upgradeVars PROVE Stack'
    BY <1>2, RunKinds DEF Stage, UpgradeTypeOK, AgentTypeOK, Stack, Stacked, FoundVenv, Previous,
         StepsTaken, Moved, Released, upgradeVars, agentVars, hostVars, ToolSteps, Guarded,
         UndoSteps, DatabaseUpgradeAssumption, ReleaseAgentAssumption
  <1>3. ASSUME CommandFails \/ AgentDies, UNCHANGED upgradeVars PROVE Stack'
    BY <1>3, FreeIs, RunKinds DEF CommandFails, AgentDies, UpgradeTypeOK, AgentTypeOK, Stack,
         Stacked, FoundVenv, Previous, StepsTaken, Moved, Released, upgradeVars, agentVars,
         hostVars, ToolSteps, Guarded, UndoSteps, DatabaseUpgradeAssumption, ReleaseAgentAssumption
  <1>4. ASSUME Coordinate, UNCHANGED upgradeVars PROVE Stack'
    BY <1>4, FreeIs, RunKinds DEF Coordinate, UpgradeTypeOK, AgentTypeOK, Stack, Stacked, FoundVenv,
         Previous, StepsTaken, Moved, Released, upgradeVars, agentVars, hostVars, ToolSteps,
         Guarded, UndoSteps, DatabaseUpgradeAssumption, ReleaseAgentAssumption
  <1>5. ASSUME NEW r \in Releases, ReactivateActive(r) \/ StopCollector(r), UNCHANGED upgradeVars
       PROVE Stack'
    BY <1>5, ActivateWalk, RunKinds DEF ReactivateActive, StopCollector, At, UpgradeTypeOK,
         AgentTypeOK, Stack, Stacked, FoundVenv, Previous, StepsTaken, Moved, Released, upgradeVars,
         agentVars, hostVars, ToolSteps, Guarded, UndoSteps, DatabaseUpgradeAssumption,
         ReleaseAgentAssumption
  <1>6. ASSUME NEW r \in Releases, ConfirmCurrent(r) \/ ActivationFails(r), UNCHANGED upgradeVars
       PROVE Stack'
    BY <1>6, ActivateWalk, RunKinds DEF ConfirmCurrent, ActivationFails, At, UpgradeTypeOK,
         AgentTypeOK, Stack, Stacked, FoundVenv, Previous, StepsTaken, Moved, Released, upgradeVars,
         agentVars, hostVars, ToolSteps, Guarded, UndoSteps, DatabaseUpgradeAssumption,
         ReleaseAgentAssumption
  <1>7. ASSUME NEW r \in Releases, BeginActivation(r), UNCHANGED upgradeVars PROVE Stack'
    <2>1. PICK S \in SUBSET Releases : Stacked(S)
      BY DEF Stack
    <2>2. r \notin S
      BY <1>7, <2>1 DEF BeginActivation, Stacked
    <2>3. \A s \in S : backup'[s] = backup[s]
      BY <1>7, <2>2 DEF BeginActivation, UpgradeTypeOK, AgentTypeOK
    <2>4. run'.of = r
      BY <1>7, ActivateWalk DEF UpgradeTypeOK, Moved
    <2>5. \A s \in S : Previous(s) # None => Previous(s).release \in S
      BY <2>1 DEF Stacked
    <2>6. Stacked(S)'
      BY <1>7, <2>1, <2>2, <2>3, <2>4, <2>5 DEF BeginActivation, Stacked, Previous, FoundVenv
    <2> QED BY <2>6 DEF Stack
  <1>8. ASSUME NEW r \in Releases, SaveActivating(r), UNCHANGED upgradeVars PROVE Stack'
    <2>1. PICK S \in SUBSET Releases : Stacked(S)
      BY DEF Stack
    <2>2. r \notin S
      BY <1>8, <2>1 DEF SaveActivating, At, Stacked
    <2>3. \A s \in S : journal'[s] = journal[s]
      BY <1>8, <2>2 DEF SaveActivating, UpgradeTypeOK, AgentTypeOK
    <2>4. run'.of = r
      BY <1>8, ActivateWalk DEF UpgradeTypeOK, Moved
    <2>5. Stacked(S)'
      BY <1>8, <2>1, <2>2, <2>3, <2>4 DEF SaveActivating, Stacked, Previous, FoundVenv
    <2> QED BY <2>5 DEF Stack
  <1>9. ASSUME NEW r \in Releases, ClaimCurrent(r), UNCHANGED upgradeVars PROVE Stack'
    <2>1. PICK S \in SUBSET Releases : Stacked(S)
      BY DEF Stack
    <2> DEFINE T == S \cup {r}
    <2>2. r \notin S /\ Previous(r) = current /\ backup[r] # None /\ journal[r] = "activating"
          /\ ~kept[r] /\ root.venv = FoundVenv(r) /\ root.code = backup[r].code /\ root.image = backup[r].image
      BY <1>9, <2>1 DEF ClaimCurrent, At, Stacked, StepsTaken, Previous, DatabaseUpgradeAssumption, ReleaseAgentAssumption
    <2>3. current'.release = r /\ run'.at = "claimed"
      BY <1>9, ActivateWalk DEF ClaimCurrent, UpgradeTypeOK, Moved
    <2>4. Previous(r) # None =>
             /\ Previous(r).release \in S
             /\ backup[Previous(r).release].link = None => kept[Previous(r).release] \/ backup[r].link = None
             /\ \A s \in S : Previous(s) # None => Previous(s).release # Previous(r).release
      <3>1. ASSUME current # None
            PROVE  /\ backup[current.release].link = None => kept[current.release] \/ backup[r].link = None
        BY <2>2, <3>1 DEF VenvSafe, FoundVenv, UpgradeTypeOK, AgentTypeOK, Backup, Root, DatabaseUpgradeAssumption, ReleaseAgentAssumption
      <3> QED BY <2>1, <2>2, <3>1 DEF Stacked
    <2>5. Previous(r) = None => backup[r].code = backup[r].image /\ backup[r].image = FoundVenv(r)
      BY <2>2 DEF VenvSafe, Runs
    <2>6. Stacked(T)'
      <3>1. \A s \in S : Previous(s) # None => Previous(s).release \in S /\ Previous(s).release # r
        BY <2>1, <2>2 DEF Stacked
      <3>2. UNCHANGED <<journal, backup, kept>>
        BY <1>9 DEF ClaimCurrent
      <3>3. \A s \in T : Previous(s)' = Previous(s) /\ FoundVenv(s)' = FoundVenv(s)
        BY <3>2 DEF Previous, FoundVenv
      <3>4. \A s \in T :
               /\ backup'[s] # None /\ journal'[s] \in {"activating", "active"}
               /\ backup'[s].link # None => ~kept'[s]
               /\ Previous(s)' # None =>
                     /\ Previous(s)'.release \in T
                     /\ current' # None => current'.release # Previous(s)'.release
                     /\ backup'[Previous(s)'.release].link = None =>
                           kept'[Previous(s)'.release] \/ backup'[s].link = None
               /\ Previous(s)' = None => backup'[s].code = backup'[s].image /\ backup'[s].image = FoundVenv(s)'
        BY <2>1, <2>2, <2>3, <2>4, <2>5, <3>1, <3>2, <3>3 DEF Stacked
      <3>5. \A s, t \in T : Previous(s)' # None /\ Previous(t)' # None
                               /\ Previous(s)'.release = Previous(t)'.release => s = t
        BY <2>1, <2>4, <3>3 DEF Stacked
      <3>6. (\A s, t \in T : Previous(s) # None /\ Previous(t) # None
                               /\ Previous(s).release = Previous(t).release => s = t)'
        BY <3>5
      <3> QED BY <2>3, <3>4, <3>6 DEF Stacked
    <2> QED BY <2>6 DEF Stack
  <1>10. ASSUME NEW r \in Releases, ReplaceFiles(r), UNCHANGED upgradeVars PROVE Stack'
    BY <1>10, ActivateWalk, StackQuiet DEF ReplaceFiles, UpgradeTypeOK, AgentTypeOK, Moved
  <1>11. ASSUME NEW r \in Releases, SwitchImage(r), UNCHANGED upgradeVars PROVE Stack'
    BY <1>11, ActivateWalk, StackQuiet DEF SwitchImage, UpgradeTypeOK, AgentTypeOK, Moved
  <1>12. ASSUME NEW r \in Releases, RemoveVenv(r), UNCHANGED upgradeVars PROVE Stack'
    <2>1. PICK S \in SUBSET Releases : Stacked(S)
      BY DEF Stack
    <2>2. current # None /\ current.release = r /\ root.venv = FoundVenv(r)
      BY <1>12 DEF RemoveVenv, At, StepsTaken, Guarded
    <2>3. backup[r].link # None => ~kept'[r]
      BY <1>12, <2>2, ClaimedIs DEF RemoveVenv, FoundVenv, UpgradeTypeOK, AgentTypeOK, Backup, DatabaseUpgradeAssumption, ReleaseAgentAssumption
    <2>4. \A s \in S \ {r} : kept'[s] = kept[s]
      BY <1>12 DEF RemoveVenv, UpgradeTypeOK, AgentTypeOK
    <2>5. \A s \in S : Previous(s) # None => Previous(s).release \in S \ {r}
      BY <2>1, <2>2 DEF Stacked
    <2>6. run'.at = "unlinked"
      BY <1>12, ActivateWalk DEF UpgradeTypeOK, Moved
    <2>7. Stacked(S)'
      BY <1>12, <2>1, <2>3, <2>4, <2>5, <2>6 DEF RemoveVenv, Stacked, Previous, FoundVenv
    <2> QED BY <2>7 DEF Stack
  <1>13. ASSUME NEW r \in Releases, LinkVenv(r), UNCHANGED upgradeVars PROVE Stack'
    BY <1>13, ActivateWalk, StackQuiet DEF LinkVenv, UpgradeTypeOK, AgentTypeOK, Moved
  <1>14. ASSUME NEW r \in Releases, SaveActive(r), UNCHANGED upgradeVars PROVE Stack'
    <2>1. PICK S \in SUBSET Releases : Stacked(S)
      BY DEF Stack
    <2>2. \A s \in S : journal'[s] \in {"activating", "active"}
      BY <1>14, <2>1 DEF SaveActive, Stacked, UpgradeTypeOK, AgentTypeOK
    <2>3. run'.at = "healthy"
      BY <1>14, ActivateWalk DEF UpgradeTypeOK, Moved
    <2>4. Stacked(S)'
      BY <1>14, <2>1, <2>2, <2>3 DEF SaveActive, Stacked, Previous, FoundVenv
    <2> QED BY <2>4 DEF Stack
  <1>15. ASSUME NEW r \in Releases, UndoFiles(r), UNCHANGED upgradeVars PROVE Stack'
    BY <1>15, RollbackWalk, RunKinds DEF UndoFiles, At, UpgradeTypeOK, AgentTypeOK, Stack, Stacked,
         FoundVenv, Previous, StepsTaken, Moved, Released, upgradeVars, agentVars, hostVars,
         ToolSteps, Guarded, UndoSteps, DatabaseUpgradeAssumption, ReleaseAgentAssumption
  <1>16. ASSUME NEW r \in Releases, UndoUnlink(r), UNCHANGED upgradeVars PROVE Stack'
    BY <1>16, RollbackWalk, RunKinds DEF UndoUnlink, At, UpgradeTypeOK, AgentTypeOK, Stack, Stacked,
         FoundVenv, Previous, StepsTaken, Moved, Released, upgradeVars, agentVars, hostVars,
         ToolSteps, Guarded, UndoSteps, DatabaseUpgradeAssumption, ReleaseAgentAssumption
  <1>17. ASSUME NEW r \in Releases, BeginRollback(r), UNCHANGED upgradeVars PROVE Stack'
    BY <1>17, RollbackWalk, StackQuiet DEF BeginRollback, UpgradeTypeOK, AgentTypeOK, Moved
  <1>18. ASSUME NEW r \in Releases, UndoImage(r), UNCHANGED upgradeVars PROVE Stack'
    BY <1>18, RollbackWalk, StackQuiet DEF UndoImage, UpgradeTypeOK, AgentTypeOK, Moved
  <1>19. ASSUME NEW r \in Releases, UndoVenv(r), UNCHANGED upgradeVars PROVE Stack'
    <2>1. PICK S \in SUBSET Releases : Stacked(S)
      BY DEF Stack
    <2>2. current # None /\ current.release = r
      BY <1>19 DEF UndoVenv, At, StepsTaken, UndoSteps
    <2>3. ~kept'[r] /\ \A s \in S \ {r} : kept'[s] = kept[s]
      BY <1>19 DEF UndoVenv, UpgradeTypeOK, AgentTypeOK
    <2>5. \A s \in S : Previous(s) # None => Previous(s).release \in S \ {r}
      BY <2>1, <2>2 DEF Stacked
    <2>6. run'.at = "restarted"
      BY <1>19, RollbackWalk DEF UpgradeTypeOK, AgentTypeOK, Moved
    <2>7. Stacked(S)'
      BY <1>19, <2>1, <2>3, <2>5, <2>6 DEF UndoVenv, Stacked, Previous, FoundVenv
    <2> QED BY <2>7 DEF Stack
  <1>20. ASSUME NEW r \in Releases, RestoreCurrent(r), UNCHANGED upgradeVars PROVE Stack'
    <2>1. PICK S \in SUBSET Releases : Stacked(S)
      BY DEF Stack
    <2> DEFINE T == S \ {r}
    <2>2. current # None /\ current.release = r /\ r \in S /\ current' = Previous(r)
      BY <1>20, <2>1 DEF RestoreCurrent, At, StepsTaken, UndoSteps, Stacked, Previous
    <2>3. \A s \in S : Previous(s) # None => Previous(s).release \in T
      BY <2>1, <2>2 DEF Stacked
    <2>4. \A s \in T : Previous(s) # None /\ Previous(r) # None => Previous(s).release # Previous(r).release
      BY <2>1, <2>2 DEF Stacked
    <2>5. run'.of = r
      BY <1>20, RollbackWalk DEF UpgradeTypeOK, AgentTypeOK, Moved
    <2>6. Stacked(T)'
      BY <1>20, <2>1, <2>2, <2>3, <2>4, <2>5 DEF RestoreCurrent, Stacked, Previous, FoundVenv
    <2> QED BY <2>6 DEF Stack
  <1>21. ASSUME NEW r \in Releases, SaveRolledBack(r), UNCHANGED upgradeVars PROVE Stack'
    <2>1. PICK S \in SUBSET Releases : Stacked(S)
      BY DEF Stack
    <2>2. r \notin S
      BY <1>21, <2>1 DEF SaveRolledBack, At, Stacked
    <2>3. \A s \in S : journal'[s] = journal[s]
      BY <1>21, <2>2 DEF SaveRolledBack, UpgradeTypeOK, AgentTypeOK
    <2>4. run'.at = "free"
      BY <1>21, RollbackWalk DEF UpgradeTypeOK, AgentTypeOK, Released
    <2>5. Stacked(S)'
      BY <1>21, <2>1, <2>3, <2>4 DEF SaveRolledBack, Stacked, Previous, FoundVenv
    <2> QED BY <2>5 DEF Stack
  <1>22. ASSUME Rehearse \/ Freeze \/ StopWriters \/ FinalRestore PROVE Stack'
    BY <1>22, ToolWalk, RunKinds DEF Rehearse, Freeze, StopWriters, FinalRestore, UpgradeTypeOK,
         AgentTypeOK, Stack, Stacked, FoundVenv, Previous, StepsTaken, Moved, Released, upgradeVars,
         agentVars, hostVars, ToolSteps, Guarded, UndoSteps, DatabaseUpgradeAssumption,
         ReleaseAgentAssumption
  <1>23. ASSUME KeepEnv \/ SaveSwitching \/ PatchEnv \/ StartNew PROVE Stack'
    BY <1>23, ToolWalk, RunKinds DEF KeepEnv, SaveSwitching, PatchEnv, StartNew, UpgradeTypeOK,
         AgentTypeOK, Stack, Stacked, FoundVenv, Previous, StepsTaken, Moved, Released, upgradeVars,
         agentVars, hostVars, ToolSteps, Guarded, UndoSteps, DatabaseUpgradeAssumption,
         ReleaseAgentAssumption
  <1>24. ASSUME RestoreEnv PROVE Stack'
    BY <1>24, ToolWalk, RunKinds DEF RestoreEnv, UpgradeTypeOK, AgentTypeOK, Stack, Stacked,
         FoundVenv, Previous, StepsTaken, Moved, Released, upgradeVars, agentVars, hostVars,
         ToolSteps, Guarded, UndoSteps, DatabaseUpgradeAssumption, ReleaseAgentAssumption
  <1>25. ASSUME AwaitVerification \/ BeginUndo \/ SaveUndone \/ Reopen \/ StartWriters \/ ToolDies
       PROVE Stack'
    BY <1>25, ToolWalk, RunKinds DEF AwaitVerification, BeginUndo, SaveUndone, Reopen, StartWriters,
         ToolDies, UpgradeTypeOK, AgentTypeOK, Stack, Stacked, FoundVenv, Previous, StepsTaken,
         Moved, Released, upgradeVars, agentVars, hostVars, ToolSteps, Guarded, UndoSteps,
         DatabaseUpgradeAssumption, ReleaseAgentAssumption
  <1>26. ASSUME Write PROVE Stack'
    BY <1>26, RunKinds DEF Write, UpgradeTypeOK, AgentTypeOK, Stack, Stacked, FoundVenv, Previous,
         StepsTaken, Moved, Released, upgradeVars, agentVars, hostVars, ToolSteps, Guarded,
         UndoSteps, DatabaseUpgradeAssumption, ReleaseAgentAssumption
  <1> QED BY <1>1, <1>2, <1>3, <1>4, <1>5, <1>6, <1>7, <1>8, <1>9, <1>10, <1>11, <1>12, <1>13,
       <1>14, <1>15, <1>16, <1>17, <1>18, <1>19, <1>20, <1>21, <1>22, <1>23, <1>24, <1>25, <1>26 DEF
       Next, AgentNext, Activate, Rollback, UpgradeNext

\* A command's answer reaches the coordinator that waits for it, and no other command begins meanwhile.
LEMMA ToldNext == ASSUME DatabaseUpgradeAssumption, HostInv, Next PROVE Told'
  <1> USE DEF HostInv
  <1>1. ASSUME NEW r \in Releases, StartDeploy(r), UNCHANGED upgradeVars PROVE Told'
    BY <1>1, RunKinds DEF StartDeploy, UpgradeTypeOK, AgentTypeOK, Told, Deploying, StepsTaken,
         Moved, Released, upgradeVars, agentVars, hostVars, Begin, ToolSteps, AgentSteps, Guarded,
         UndoSteps, Step, Enter, Ends, DatabaseUpgradeAssumption, ReleaseAgentAssumption, Answer,
         Requested, Receipt, Coordinator, Phases
  <1>2. ASSUME NEW r \in Releases, NEW completes \in BOOLEAN, Stage(r, completes), UNCHANGED
       upgradeVars PROVE Told'
    BY <1>2, RunKinds DEF Stage, UpgradeTypeOK, AgentTypeOK, Told, Deploying, StepsTaken, Moved,
         Released, upgradeVars, agentVars, hostVars, Begin, ToolSteps, AgentSteps, Guarded,
         UndoSteps, Step, Enter, Ends, DatabaseUpgradeAssumption, ReleaseAgentAssumption, Answer,
         Requested, Receipt, Coordinator, Phases
  <1>3. ASSUME CommandFails \/ AgentDies, UNCHANGED upgradeVars PROVE Told'
    BY <1>3, FreeIs, RunKinds DEF CommandFails, AgentDies, UpgradeTypeOK, AgentTypeOK, Told,
         Deploying, StepsTaken, Moved, Released, upgradeVars, agentVars, hostVars, Begin, ToolSteps,
         AgentSteps, Guarded, UndoSteps, Step, Enter, Ends, DatabaseUpgradeAssumption,
         ReleaseAgentAssumption, Answer, Requested, Receipt, Coordinator, Phases
  <1>4. ASSUME Coordinate, UNCHANGED upgradeVars PROVE Told'
    BY <1>4, FreeIs, RunKinds DEF Coordinate, UpgradeTypeOK, AgentTypeOK, Told, Deploying,
         StepsTaken, Moved, Released, upgradeVars, agentVars, hostVars, Begin, ToolSteps,
         AgentSteps, Guarded, UndoSteps, Step, Enter, Ends, DatabaseUpgradeAssumption,
         ReleaseAgentAssumption, Answer, Requested, Receipt, Coordinator, Phases
  <1>5. ASSUME NEW r \in Releases, ReplaceFiles(r), UNCHANGED upgradeVars PROVE Told'
    BY <1>5, ActivateWalk, RunKinds DEF ReplaceFiles, At, UpgradeTypeOK, AgentTypeOK, Told,
         Deploying, StepsTaken, Moved, Released, upgradeVars, agentVars, hostVars, Begin, ToolSteps,
         AgentSteps, Guarded, UndoSteps, Step, Enter, Ends, DatabaseUpgradeAssumption,
         ReleaseAgentAssumption, Answer, Requested, Receipt, Coordinator, Phases
  <1>6. ASSUME NEW r \in Releases, SwitchImage(r), UNCHANGED upgradeVars PROVE Told'
    BY <1>6, ActivateWalk, RunKinds DEF SwitchImage, At, UpgradeTypeOK, AgentTypeOK, Told,
         Deploying, StepsTaken, Moved, Released, upgradeVars, agentVars, hostVars, Begin, ToolSteps,
         AgentSteps, Guarded, UndoSteps, Step, Enter, Ends, DatabaseUpgradeAssumption,
         ReleaseAgentAssumption, Answer, Requested, Receipt, Coordinator, Phases
  <1>7. ASSUME NEW r \in Releases, RemoveVenv(r), UNCHANGED upgradeVars PROVE Told'
    BY <1>7, ActivateWalk, RunKinds DEF RemoveVenv, At, UpgradeTypeOK, AgentTypeOK, Told, Deploying,
         StepsTaken, Moved, Released, upgradeVars, agentVars, hostVars, Begin, ToolSteps,
         AgentSteps, Guarded, UndoSteps, Step, Enter, Ends, DatabaseUpgradeAssumption,
         ReleaseAgentAssumption, Answer, Requested, Receipt, Coordinator, Phases
  <1>8. ASSUME NEW r \in Releases, LinkVenv(r), UNCHANGED upgradeVars PROVE Told'
    BY <1>8, ActivateWalk, RunKinds DEF LinkVenv, At, UpgradeTypeOK, AgentTypeOK, Told, Deploying,
         StepsTaken, Moved, Released, upgradeVars, agentVars, hostVars, Begin, ToolSteps,
         AgentSteps, Guarded, UndoSteps, Step, Enter, Ends, DatabaseUpgradeAssumption,
         ReleaseAgentAssumption, Answer, Requested, Receipt, Coordinator, Phases
  <1>9. ASSUME NEW r \in Releases, BeginActivation(r) \/ ReactivateActive(r) \/ SaveActivating(r) \/
       ClaimCurrent(r) \/ StopCollector(r), UNCHANGED upgradeVars PROVE Told'
    BY <1>9, ActivateWalk, RunKinds DEF BeginActivation, ReactivateActive, SaveActivating,
         ClaimCurrent, StopCollector, At, UpgradeTypeOK, AgentTypeOK, Told, Deploying, StepsTaken,
         Moved, Released, upgradeVars, agentVars, hostVars, Begin, ToolSteps, AgentSteps, Guarded,
         UndoSteps, Step, Enter, Ends, DatabaseUpgradeAssumption, ReleaseAgentAssumption, Answer,
         Requested, Receipt, Coordinator, Phases
  <1>10. ASSUME NEW r \in Releases, SaveActive(r) \/ ConfirmCurrent(r) \/ ActivationFails(r),
       UNCHANGED upgradeVars PROVE Told'
    BY <1>10, ActivateWalk, RunKinds DEF SaveActive, ConfirmCurrent, ActivationFails, At,
         UpgradeTypeOK, AgentTypeOK, Told, Deploying, StepsTaken, Moved, Released, upgradeVars,
         agentVars, hostVars, Begin, ToolSteps, AgentSteps, Guarded, UndoSteps, Step, Enter, Ends,
         DatabaseUpgradeAssumption, ReleaseAgentAssumption, Answer, Requested, Receipt, Coordinator,
         Phases
  <1>11. ASSUME NEW r \in Releases, UndoFiles(r), UNCHANGED upgradeVars PROVE Told'
    BY <1>11, RollbackWalk, RunKinds DEF UndoFiles, At, UpgradeTypeOK, AgentTypeOK, Told, Deploying,
         StepsTaken, Moved, Released, upgradeVars, agentVars, hostVars, Begin, ToolSteps,
         AgentSteps, Guarded, UndoSteps, Step, Enter, Ends, DatabaseUpgradeAssumption,
         ReleaseAgentAssumption, Answer, Requested, Receipt, Coordinator, Phases
  <1>12. ASSUME NEW r \in Releases, UndoImage(r), UNCHANGED upgradeVars PROVE Told'
    BY <1>12, RollbackWalk, RunKinds DEF UndoImage, At, UpgradeTypeOK, AgentTypeOK, Told, Deploying,
         StepsTaken, Moved, Released, upgradeVars, agentVars, hostVars, Begin, ToolSteps,
         AgentSteps, Guarded, UndoSteps, Step, Enter, Ends, DatabaseUpgradeAssumption,
         ReleaseAgentAssumption, Answer, Requested, Receipt, Coordinator, Phases
  <1>13. ASSUME NEW r \in Releases, UndoUnlink(r), UNCHANGED upgradeVars PROVE Told'
    BY <1>13, RollbackWalk, RunKinds DEF UndoUnlink, At, UpgradeTypeOK, AgentTypeOK, Told,
         Deploying, StepsTaken, Moved, Released, upgradeVars, agentVars, hostVars, Begin, ToolSteps,
         AgentSteps, Guarded, UndoSteps, Step, Enter, Ends, DatabaseUpgradeAssumption,
         ReleaseAgentAssumption, Answer, Requested, Receipt, Coordinator, Phases
  <1>14. ASSUME NEW r \in Releases, UndoVenv(r), UNCHANGED upgradeVars PROVE Told'
    BY <1>14, RollbackWalk, RunKinds DEF UndoVenv, At, UpgradeTypeOK, AgentTypeOK, Told, Deploying,
         StepsTaken, Moved, Released, upgradeVars, agentVars, hostVars, Begin, ToolSteps,
         AgentSteps, Guarded, UndoSteps, Step, Enter, Ends, DatabaseUpgradeAssumption,
         ReleaseAgentAssumption, Answer, Requested, Receipt, Coordinator, Phases
  <1>15. ASSUME NEW r \in Releases, RestoreCurrent(r), UNCHANGED upgradeVars PROVE Told'
    BY <1>15, RollbackWalk, RunKinds DEF RestoreCurrent, At, UpgradeTypeOK, AgentTypeOK, Told,
         Deploying, StepsTaken, Moved, Released, upgradeVars, agentVars, hostVars, Begin, ToolSteps,
         AgentSteps, Guarded, UndoSteps, Step, Enter, Ends, DatabaseUpgradeAssumption,
         ReleaseAgentAssumption, Answer, Requested, Receipt, Coordinator, Phases
  <1>16. ASSUME NEW r \in Releases, SaveRolledBack(r), UNCHANGED upgradeVars PROVE Told'
    BY <1>16, RollbackWalk, RunKinds DEF SaveRolledBack, At, UpgradeTypeOK, AgentTypeOK, Told,
         Deploying, StepsTaken, Moved, Released, upgradeVars, agentVars, hostVars, Begin, ToolSteps,
         AgentSteps, Guarded, UndoSteps, Step, Enter, Ends, DatabaseUpgradeAssumption,
         ReleaseAgentAssumption, Answer, Requested, Receipt, Coordinator, Phases
  <1>17. ASSUME NEW r \in Releases, BeginRollback(r), UNCHANGED upgradeVars PROVE Told'
    <2>1. run.of = None /\ Requested("rollback", r)
      BY <1>17, RunKinds DEF BeginRollback, UpgradeTypeOK
    <2>2. CASE run' = run /\ (ci' = ci \/ ci' = Answer("rollback", "failed"))
      BY <1>17, <2>1, <2>2 DEF BeginRollback, Told, Answer, Deploying, UpgradeTypeOK, AgentTypeOK, Coordinator
    <2>3. CASE run' = run /\ journal[r] \in {"new", "staged", "rolled_back"} /\ ci' = Answer("rollback", "ok")
      BY <1>17, <2>1, <2>3 DEF BeginRollback, Told, Answer, Deploying, Requested, UpgradeTypeOK, AgentTypeOK, Coordinator
    <2>4. CASE ci' = ci /\ Moved("undoing", r, "rollback")
      BY <1>17, <2>1, <2>4 DEF BeginRollback, Told, Moved, Deploying, Requested, UpgradeTypeOK, AgentTypeOK, Coordinator
    <2> QED BY <1>17, <2>2, <2>3, <2>4, RollbackWalk DEF BeginRollback, UpgradeTypeOK, AgentTypeOK, Phases
  <1>18. ASSUME Rehearse \/ Freeze \/ StopWriters \/ FinalRestore PROVE Told'
    BY <1>18, ToolWalk, RunKinds DEF Rehearse, Freeze, StopWriters, FinalRestore, UpgradeTypeOK,
         AgentTypeOK, Told, Deploying, StepsTaken, Moved, Released, upgradeVars, agentVars,
         hostVars, Begin, ToolSteps, AgentSteps, Guarded, UndoSteps, Step, Enter, Ends,
         DatabaseUpgradeAssumption, ReleaseAgentAssumption, Answer, Requested, Receipt, Coordinator,
         Phases
  <1>19. ASSUME KeepEnv \/ SaveSwitching \/ PatchEnv \/ StartNew PROVE Told'
    BY <1>19, ToolWalk, RunKinds DEF KeepEnv, SaveSwitching, PatchEnv, StartNew, UpgradeTypeOK,
         AgentTypeOK, Told, Deploying, StepsTaken, Moved, Released, upgradeVars, agentVars,
         hostVars, Begin, ToolSteps, AgentSteps, Guarded, UndoSteps, Step, Enter, Ends,
         DatabaseUpgradeAssumption, ReleaseAgentAssumption, Answer, Requested, Receipt, Coordinator,
         Phases
  <1>20. ASSUME RestoreEnv PROVE Told'
    BY <1>20, ToolWalk, RunKinds DEF RestoreEnv, UpgradeTypeOK, AgentTypeOK, Told, Deploying,
         StepsTaken, Moved, Released, upgradeVars, agentVars, hostVars, Begin, ToolSteps,
         AgentSteps, Guarded, UndoSteps, Step, Enter, Ends, DatabaseUpgradeAssumption,
         ReleaseAgentAssumption, Answer, Requested, Receipt, Coordinator, Phases
  <1>21. ASSUME AwaitVerification \/ BeginUndo \/ SaveUndone \/ Reopen \/ StartWriters \/ ToolDies
       PROVE Told'
    BY <1>21, ToolWalk, RunKinds DEF AwaitVerification, BeginUndo, SaveUndone, Reopen, StartWriters,
         ToolDies, UpgradeTypeOK, AgentTypeOK, Told, Deploying, StepsTaken, Moved, Released,
         upgradeVars, agentVars, hostVars, Begin, ToolSteps, AgentSteps, Guarded, UndoSteps, Step,
         Enter, Ends, DatabaseUpgradeAssumption, ReleaseAgentAssumption, Answer, Requested, Receipt,
         Coordinator, Phases
  <1>22. ASSUME Write PROVE Told'
    BY <1>22, RunKinds DEF Write, UpgradeTypeOK, AgentTypeOK, Told, Deploying, StepsTaken, Moved,
         Released, upgradeVars, agentVars, hostVars, Begin, ToolSteps, AgentSteps, Guarded,
         UndoSteps, Step, Enter, Ends, DatabaseUpgradeAssumption, ReleaseAgentAssumption, Answer,
         Requested, Receipt, Coordinator, Phases
  <1> QED BY <1>1, <1>2, <1>3, <1>4, <1>5, <1>6, <1>7, <1>8, <1>9, <1>10, <1>11, <1>12, <1>13,
       <1>14, <1>15, <1>16, <1>17, <1>18, <1>19, <1>20, <1>21, <1>22 DEF Next, AgentNext, Activate,
       Rollback, UpgradeNext

LEMMA HostInvInit == ASSUME DatabaseUpgradeAssumption PROVE Init => HostInv
  <1> SUFFICES ASSUME Init PROVE HostInv
    OBVIOUS
  <1> USE DEF Init, AgentInit, Free
  <1>1. UpgradeTypeOK
    BY DEF UpgradeTypeOK, AgentTypeOK, Run, Root, Coordinator, Phases, MaintenancePhases, Volumes, Versions,
         DatabaseUpgradeAssumption, ReleaseAgentAssumption
  <1>2. MarkerHolds /\ WritesHeld
    BY DEF MarkerHolds, WritersStayStopped, NoMaintenance, WritesHeld, Volumes
  <1>3. StepsTaken /\ Told
    BY DEF StepsTaken, Told, Deploying, Guarded, UndoSteps
  <1>4. VenvSafe
    BY DEF VenvSafe, Runs, Versions
  <1>5. Stacked({})
    BY DEF Stacked
  <1>6. Stack
    BY <1>5 DEF Stack
  <1> QED BY <1>1, <1>2, <1>3, <1>4, <1>6 DEF HostInv

LEMMA HostInvNext == ASSUME DatabaseUpgradeAssumption PROVE HostInv /\ [Next]_vars => HostInv'
  <1> SUFFICES ASSUME HostInv, [Next]_vars PROVE HostInv'
    OBVIOUS
  <1>1. CASE Next
    BY <1>1, TypesNext, MarkerNext, WritesNext, StepsNext, VenvNext, StackNext, ToldNext DEF HostInv
  <1>2. CASE UNCHANGED vars
    <2> USE <1>2 DEF vars, agentVars, upgradeVars
    <2>1. UpgradeTypeOK' /\ MarkerHolds' /\ WritesHeld'
      BY DEF HostInv, UpgradeTypeOK, AgentTypeOK, MarkerHolds, WritersStayStopped, NoMaintenance, WritesHeld
    <2>2. StepsTaken' /\ Told'
      BY DEF HostInv, StepsTaken, FoundVenv, Told, Deploying
    <2>3. VenvSafe' /\ Stack'
      BY StackQuiet DEF HostInv, VenvSafe, Runs
    <2> QED BY <2>1, <2>2, <2>3 DEF HostInv
  <1> QED BY <1>1, <1>2

\* What TLC checks of the host is in the invariant; the claim of a mixed host is on the stack.
LEMMA HostInvMeans ==
    ASSUME DatabaseUpgradeAssumption, HostInv
    PROVE  UpgradeTypeOK /\ MixedIsUndoable /\ NoWriteLost /\ WritersStayStopped
  <1>1. MixedIsUndoable
    <2> SUFFICES ASSUME ~(\E v \in Versions : Runs(v))
                 PROVE  /\ current # None /\ journal[current.release] \in {"activating", "active"}
                        /\ backup[current.release] # None
      BY DEF MixedIsUndoable
    <2>1. current # None
      BY DEF HostInv, VenvSafe
    <2> QED BY <2>1, ClaimedIs DEF DatabaseUpgradeAssumption, NoneAssumption
  <1> QED BY <1>1 DEF HostInv, WritesHeld, NoWriteLost, MarkerHolds

LEMMA HostInvariance == ASSUME DatabaseUpgradeAssumption PROVE Spec => []HostInv
  BY HostInvInit, HostInvNext, PTL DEF Spec

\* The agent, the coordinator, the maintenance tool and the host keep their types, for every
\* number of releases and writes.
THEOREM HostTypes == ASSUME DatabaseUpgradeAssumption PROVE Spec => []UpgradeTypeOK
  BY HostInvariance, HostInvMeans, PTL

\* Wherever a release, a rollback or a database upgrade dies, the host can be put back from its
\* files, no accepted write is lost, and nothing writes while a cutover counts on it
\* (agent.py:activate, rollback, require_database_rollback_compatible; upgrade.py).
THEOREM HostRecoverable ==
    ASSUME DatabaseUpgradeAssumption PROVE Spec => [](MixedIsUndoable /\ NoWriteLost /\ WritersStayStopped)
  BY HostInvariance, HostInvMeans, PTL

-----------------------------------------------------------------------------
\* A receipt is written when the coordinator has an answer, which is still true of the host.
LEMMA ReceiptStep ==
    ASSUME DatabaseUpgradeAssumption, HostInv, [Next]_vars PROVE ReceiptIsTrue
  <1>1. CASE Coordinate
    <2>1. ci.of \in Releases /\ ci.of # None
      BY <1>1 DEF Coordinate, HostInv, Told, DatabaseUpgradeAssumption, ReleaseAgentAssumption
    <2>2. ci'.receipt = "active" => ci'.receipt = ci.receipt \/ (ci.waits = "activate" /\ ci.reply = "ok")
      BY <1>1 DEF Coordinate, Receipt, HostInv, UpgradeTypeOK, AgentTypeOK, Coordinator, Deploying
    <2>3. ci'.receipt = "rolled_back" => ci'.receipt = ci.receipt \/ (ci.waits = "rollback" /\ ci.reply = "ok")
      BY <1>1 DEF Coordinate, Receipt, HostInv, UpgradeTypeOK, AgentTypeOK, Coordinator, Deploying
    <2> QED BY <2>1, <2>2, <2>3 DEF ReceiptIsTrue, HostInv, Told
  <1>2. CASE \E r \in Releases : StartDeploy(r)
    BY <1>2 DEF StartDeploy, ReceiptIsTrue
  <1>3. CASE ci' = ci
    BY <1>3 DEF ReceiptIsTrue
  <1>4. CASE \E action \in {"stage", "activate", "rollback"}, outcome \in {"ok", "failed"} :
                ci' = Answer(action, outcome) \/ ci' = [ci EXCEPT !.reply = outcome]
    BY <1>4 DEF Answer, ReceiptIsTrue, HostInv, UpgradeTypeOK, AgentTypeOK, Coordinator
  <1>5. run.asked \in {"nothing", "activate", "rollback"} /\ (run.of # None => run.asked # "nothing")
    BY RunKinds DEF HostInv, UpgradeTypeOK, Free
  <1>6. ASSUME NEW r \in Releases, Activate(r) \/ Rollback(r) PROVE ReceiptIsTrue
    <2>1. journal[r] \in Phases /\ r # None
      BY DEF HostInv, UpgradeTypeOK, AgentTypeOK, DatabaseUpgradeAssumption, ReleaseAgentAssumption
    <2>2. CASE Activate(r)
      BY <1>3, <1>4, <1>5, <2>1, <2>2 DEF Activate, BeginActivation, ReactivateActive, SaveActivating, ClaimCurrent,
           StopCollector, ReplaceFiles, SwitchImage, RemoveVenv, LinkVenv, SaveActive, ConfirmCurrent,
           ActivationFails, At
    <2>3. CASE Rollback(r)
      BY <1>3, <1>4, <1>5, <2>1, <2>3 DEF Rollback, BeginRollback, UndoFiles, UndoImage, UndoUnlink, UndoVenv,
           RestoreCurrent, SaveRolledBack, At, Phases
    <2> QED BY <1>6, <2>2, <2>3
  <1>7. CASE (\E r \in Releases, completes \in BOOLEAN : Stage(r, completes)) \/ CommandFails \/ AgentDies
    BY <1>4, <1>5, <1>7 DEF Stage, CommandFails, AgentDies
  <1>8. CASE UpgradeNext \/ Write \/ UNCHANGED vars
    BY <1>3, <1>8 DEF UpgradeNext, Rehearse, Freeze, StopWriters, FinalRestore, KeepEnv, SaveSwitching, PatchEnv,
         StartNew, AwaitVerification, BeginUndo, RestoreEnv, SaveUndone, Reopen, StartWriters, ToolDies, Write,
         hostVars, agentVars, vars
  <1> QED BY <1>1, <1>2, <1>6, <1>7, <1>8 DEF Next, AgentNext

\* A rollback is recorded after its last step, under the lock it did the others under.
LEMMA RollbackStep ==
    ASSUME DatabaseUpgradeAssumption, HostInv, [Next]_vars PROVE RollbackRestores
  <1> SUFFICES ASSUME NEW r \in Releases, journal[r] # "rolled_back", journal'[r] = "rolled_back"
               PROVE  /\ root.code = backup[r].code /\ root.image = backup[r].image
                      /\ root.venv = FoundVenv(r) /\ current = backup[r].previous
    BY DEF RollbackRestores, FoundVenv
  <1>1. SaveRolledBack(r)
    BY DEF Next, AgentNext, Activate, Rollback, UpgradeNext, StartDeploy, Stage, CommandFails, Coordinate, AgentDies,
         BeginActivation, ReactivateActive, SaveActivating, ClaimCurrent, StopCollector, ReplaceFiles, SwitchImage,
         RemoveVenv, LinkVenv, SaveActive, ConfirmCurrent, ActivationFails, BeginRollback, UndoFiles, UndoImage,
         UndoUnlink, UndoVenv, RestoreCurrent, SaveRolledBack, Rehearse, Freeze, StopWriters, FinalRestore, KeepEnv,
         SaveSwitching, PatchEnv, StartNew, AwaitVerification, BeginUndo, RestoreEnv, SaveUndone, Reopen,
         StartWriters, ToolDies, Write, hostVars, agentVars, vars, HostInv, UpgradeTypeOK, AgentTypeOK
  <1> QED BY <1>1 DEF SaveRolledBack, At, HostInv, StepsTaken, UndoSteps

\* What the release tools report is true of the host when they report it (agent.py, release.py).
THEOREM HostReports ==
    ASSUME DatabaseUpgradeAssumption PROVE Spec => [][ReceiptIsTrue /\ RollbackRestores]_vars
  <1>1. ASSUME HostInv, [Next]_vars PROVE [ReceiptIsTrue /\ RollbackRestores]_vars
    BY <1>1, ReceiptStep, RollbackStep
  <1> QED BY <1>1, HostInvariance, PTL DEF Spec

-----------------------------------------------------------------------------
(* The additive migration.                                                  *)

\* A command past a step has what the step left: the backup, the schema, the file, the baseline.
Past ==
    /\ at # "idle" => owner \in Releases
    /\ at \in {"backed-up", "running", "verified", "copied", "listed"} => stamped[owner]
    /\ at \in {"verified", "copied", "listed"} => column = "exact" /\ recorded
    /\ at \in {"copied", "listed"} => file = "exact"
    /\ at = "listed" => baseline

\* A container that runs, perhaps without its command, has a validated backup behind it.
Backed == container # Nobody => container \in Releases /\ stamped[container]

MigrationInv == Migration!TypeOK /\ Past /\ Backed /\ Migration!BaselineIsReal /\ Migration!CompleteIsReal

-----------------------------------------------------------------------------
\* Before the first command nothing is journalled and nothing is claimed.
LEMMA MigrationInvInit == Migration!Init => MigrationInv
  BY DEF Migration!Init, MigrationInv, Migration!TypeOK, Migration!Steps, Past, Backed,
       Migration!BaselineIsReal, Migration!CompleteIsReal

\* Staging a release, and the steps up to the container.
LEMMA PrepareInv ==
    ASSUME MigrationInv, NEW r \in Releases, Migration!Plan(r) \/ Migration!Begin(r) \/ Migration!Backup(r) \/ Migration!StartSql(r)
    PROVE  MigrationInv'
  <1> USE DEF MigrationInv, Migration!TypeOK, Past, Backed, Migration!BaselineIsReal, Migration!CompleteIsReal, Migration!Steps, Migration!journals,
              Migration!command, Migration!database, Migration!host
  <1>1. CASE Migration!Plan(r)
    BY <1>1 DEF Migration!Plan
  <1>2. CASE Migration!Begin(r)
    BY <1>2 DEF Migration!Begin, Migration!GoIdle
  <1>3. CASE Migration!Backup(r)
    BY <1>3 DEF Migration!Backup
  <1>4. CASE Migration!StartSql(r)
    BY <1>4 DEF Migration!StartSql
  <1> QED BY <1>1, <1>2, <1>3, <1>4

\* The database commits the statements, whether or not their command is still there.
LEMMA TransactionInv == ASSUME MigrationInv, Migration!Transaction PROVE MigrationInv'
  BY DEF MigrationInv, Migration!TypeOK, Past, Backed, Migration!BaselineIsReal,
       Migration!CompleteIsReal, Migration!Transaction, Migration!Consistent,
         Migration!journals, Migration!command, Migration!host

\* The steps after the container, and the death of the command or of the container.
LEMMA FinishInv ==
    ASSUME MigrationInv, NEW r \in Releases, Migration!Verify(r) \/ Migration!InstallFile(r) \/ Migration!ListBaseline(r) \/ Migration!Complete(r)
    PROVE  MigrationInv'
  <1> USE DEF MigrationInv, Migration!TypeOK, Past, Backed, Migration!BaselineIsReal, Migration!CompleteIsReal, Migration!Steps, Migration!journals,
              Migration!database, Migration!host
  <1>1. CASE Migration!Verify(r)
    BY <1>1 DEF Migration!Verify, Migration!GoIdle
  <1>2. CASE Migration!InstallFile(r)
    BY <1>2 DEF Migration!InstallFile
  <1>3. CASE Migration!ListBaseline(r)
    BY <1>3 DEF Migration!ListBaseline
  <1>4. CASE Migration!Complete(r)
    BY <1>4 DEF Migration!Complete, Migration!GoIdle
  <1> QED BY <1>1, <1>2, <1>3, <1>4

LEMMA DeathInv == ASSUME MigrationInv, Migration!ContainerStops \/ Migration!Dies PROVE MigrationInv'
  BY DEF MigrationInv, Migration!TypeOK, Past, Backed, Migration!BaselineIsReal,
       Migration!CompleteIsReal, Migration!Steps, Migration!ContainerStops, Migration!Dies,
         Migration!GoIdle, Migration!journals, Migration!command, Migration!database, Migration!host

LEMMA MigrationInvNext == MigrationInv /\ [Migration!Next]_(Migration!vars) => MigrationInv'
  <1> SUFFICES ASSUME MigrationInv, [Migration!Next]_(Migration!vars) PROVE MigrationInv'
    OBVIOUS
  <1>1. CASE UNCHANGED Migration!vars
    BY <1>1 DEF MigrationInv, Migration!TypeOK, Past, Backed, Migration!BaselineIsReal,
         Migration!CompleteIsReal, Migration!vars, Migration!journals,
                Migration!command, Migration!database, Migration!host
  <1>2. CASE Migration!Next
    BY <1>2, PrepareInv, TransactionInv, FinishInv, DeathInv DEF Migration!Next
  <1> QED BY <1>1, <1>2

LEMMA MigrationInvariance == Migration!Spec => []MigrationInv
  BY MigrationInvInit, MigrationInvNext, PTL DEF Migration!Spec

-----------------------------------------------------------------------------
\* The journals, the command, the database and the host keep their types.
THEOREM MigrationTypes == Migration!Spec => []Migration!TypeOK
  <1>1. MigrationInv => Migration!TypeOK
    BY DEF MigrationInv
  <1> QED BY <1>1, MigrationInvariance, PTL

\* The baseline and a completed journal tell the truth about the database and the runtime's
\* file, though the three stores share no transaction (additive_migrations.py).
THEOREM MigrationClaims == Migration!Spec => [](Migration!BaselineIsReal /\ Migration!CompleteIsReal)
  <1>1. MigrationInv => Migration!BaselineIsReal /\ Migration!CompleteIsReal
    BY DEF MigrationInv
  <1> QED BY <1>1, MigrationInvariance, PTL

\* The schema changes only behind a validated backup, also by a container that outlives
\* its command.
LEMMA MigrationStepBacked == ASSUME MigrationInv, [Migration!Next]_(Migration!vars) PROVE [Migration!BackupBeforeSchema]_(Migration!vars)
  <1> SUFFICES ASSUME Migration!Next, column' # column PROVE \E r \in Releases : stamped[r]
    BY DEF Migration!BackupBeforeSchema
  <1>1. Migration!Transaction
    BY DEF Migration!Next, Migration!Plan, Migration!Begin, Migration!Backup, Migration!StartSql,
         Migration!Verify, Migration!InstallFile, Migration!ListBaseline, Migration!Complete,
           Migration!ContainerStops, Migration!Dies, Migration!database
  <1> QED
    BY <1>1 DEF MigrationInv, Backed, Migration!Transaction

THEOREM MigrationBackedUp == Migration!Spec => [][Migration!BackupBeforeSchema]_(Migration!vars)
  BY MigrationInvariance, MigrationStepBacked, PTL DEF Migration!Spec

-----------------------------------------------------------------------------
(* The installer of the release tools beside the commands it installs.      *)

\* Nobody puts a configuration there that is more than one migration behind.
Near(config) == config # None => config \in {protected - 1, protected}

\* A script that replaces files holds the lock; what it has placed is still there, and
\* neither what it places nor what it would put back is an old baseline.
ScriptOK(s) ==
    /\ script[s].pc \in Setup!ScriptHolds <=> lock = s
    /\ script[s].pc \notin Setup!Replacing => script[s].at = 1
    /\ script[s].pc \in Setup!Replacing =>
        /\ script[s].at > 1 => disk.helper = Setup!Wanted(s).helper
        /\ script[s].at > 2 => disk.agent = Setup!Wanted(s).agent
        /\ script[s].at > 3 => disk.config = Setup!Wanted(s).config
        /\ script[s].pc = "replacing" => script[s].target.config = protected
        /\ Near(script[s].previous.config)

\* What a command has checked under the lock is still so.
CommandOK(c) ==
    /\ execution[c].pc \in Setup!CommandHolds <=> lock = c
    /\ execution[c].pc \in {"started", "read"} \cup Setup!CommandHolds => execution[c].code # None
    /\ execution[c].pc \in {"read"} \cup Setup!CommandHolds => execution[c].config # None
    /\ execution[c].pc \in {"checked", "loaded", "copied"} => disk.helper = execution[c].code
    /\ execution[c].pc \in {"loaded", "copied"} => execution[c].helper = execution[c].code
    /\ execution[c].pc = "copied" => disk.config = execution[c].config /\ protected = execution[c].config + 1
                                     /\ execution[c].config < MaxMigrations

SetupInv ==
    /\ Setup!TypeOK /\ Setup!BaselineIsCurrent
    /\ \A s \in Scripts : ScriptOK(s)
    /\ \A c \in Commands : CommandOK(c)

\* The records of a script and of a command, their fields, and what a step makes of them.
LEMMA RunFields ==
    ASSUME Setup!TypeOK, NEW s \in Scripts
    PROVE  /\ script[s] \in Setup!Run /\ script[s].target \in Setup!Disk /\ script[s].previous \in Setup!Disk
           /\ script[s].at \in 1..4 /\ script[s].temporary \in BOOLEAN
           /\ script[s].pc \in {"idle", "ready", "locked", "replacing", "restoring"}
  <1>1. script[s] \in Setup!Run
    BY DEF Setup!TypeOK
  <1> QED BY <1>1 DEF Setup!Run, Setup!ScriptHolds, Setup!Replacing

LEMMA RunUpdates ==
    ASSUME NEW r \in Setup!Run
    PROVE  /\ \A d \in Setup!Disk : [r EXCEPT !.pc = "ready", !.target = d] \in Setup!Run
           /\ \A d \in Setup!Disk : [r EXCEPT !.pc = "replacing", !.previous = d] \in Setup!Run
           /\ [r EXCEPT !.pc = "locked"] \in Setup!Run /\ [r EXCEPT !.temporary = TRUE] \in Setup!Run
           /\ r.at \in 1..3 => [r EXCEPT !.at = @ + 1, !.temporary = FALSE] \in Setup!Run
           /\ [r EXCEPT !.pc = "restoring", !.at = 1, !.temporary = FALSE] \in Setup!Run
  <1> USE DEF Setup!Run, Setup!ScriptHolds, Setup!Replacing
  <1>1. \A d \in Setup!Disk : [r EXCEPT !.pc = "ready", !.target = d] \in Setup!Run
    OBVIOUS
  <1>2. \A d \in Setup!Disk : [r EXCEPT !.pc = "replacing", !.previous = d] \in Setup!Run
    OBVIOUS
  <1>3. [r EXCEPT !.pc = "locked"] \in Setup!Run /\ [r EXCEPT !.temporary = TRUE] \in Setup!Run
    OBVIOUS
  <1>4. ASSUME r.at \in 1..3 PROVE [r EXCEPT !.at = @ + 1, !.temporary = FALSE] \in Setup!Run
    <2> DEFINE n == r.at + 1
    <2>1. n \in 1..4
      BY <1>4
    <2> HIDE DEF n
    <2>2. [r EXCEPT !.at = n] \in Setup!Run
      BY <2>1
    <2>3. [[r EXCEPT !.at = n] EXCEPT !.temporary = FALSE] \in Setup!Run
      BY <2>2
    <2> QED BY <2>3 DEF n
  <1>5. [r EXCEPT !.pc = "restoring", !.at = 1, !.temporary = FALSE] \in Setup!Run
    <2>2. [r EXCEPT !.at = 1] \in Setup!Run
      OBVIOUS
    <2>3. [[r EXCEPT !.at = 1] EXCEPT !.pc = "restoring"] \in Setup!Run
      BY <2>2
    <2>4. [[[r EXCEPT !.at = 1] EXCEPT !.pc = "restoring"] EXCEPT !.temporary = FALSE] \in Setup!Run
      BY <2>3
    <2> QED BY <2>4
  <1> QED BY <1>1, <1>2, <1>3, <1>4, <1>5

LEMMA ExecutionFields ==
    ASSUME Setup!TypeOK, NEW c \in Commands
    PROVE  /\ execution[c] \in Setup!Execution /\ execution[c].code \in Packages \cup {None}
           /\ execution[c].config \in 0..MaxMigrations \cup {None}
              /\ execution[c].helper \in Packages \cup {None}
           /\ execution[c].pc \in {"idle", "started", "read", "locked", "checked", "loaded", "copied"}
  <1>1. execution[c] \in Setup!Execution
    BY DEF Setup!TypeOK
  <1> QED BY <1>1 DEF Setup!Execution, Setup!CommandHolds

LEMMA ExecutionUpdates ==
    ASSUME NEW r \in Setup!Execution
    PROVE  /\ \A p \in Packages \cup {None} : /\ [r EXCEPT !.pc = "started", !.code = p] \in Setup!Execution
                                           /\ [r EXCEPT !.pc = "loaded", !.helper = p] \in Setup!Execution
           /\ \A x \in 0..MaxMigrations \cup {None} : [r EXCEPT !.pc = "read", !.config = x] \in Setup!Execution
           /\ \A x \in {"locked", "checked", "copied"} : [r EXCEPT !.pc = x] \in Setup!Execution
  BY DEF Setup!Execution, Setup!CommandHolds

LEMMA SetupInvInit == Setup!BootstrapAssumption /\ Setup!Init => SetupInv
  <1> SUFFICES ASSUME Setup!BootstrapAssumption, Setup!Init PROVE SetupInv
    OBVIOUS
  <1>1. Setup!Nothing \in Setup!Disk
    BY DEF Setup!Nothing, Setup!Disk
  <1>2. Setup!NoScript \in Setup!Run /\ Setup!NoCommand \in Setup!Execution
    BY <1>1 DEF Setup!NoScript, Setup!Run, Setup!NoCommand, Setup!Execution
  <1>3. Setup!TypeOK
    BY <1>1, <1>2 DEF Setup!BootstrapAssumption, Setup!Init, Setup!TypeOK
  <1>4. Setup!BaselineIsCurrent
    BY DEF Setup!Init, Setup!BaselineIsCurrent, Setup!Nothing
  <1>5. \A s \in Scripts : ScriptOK(s)
    BY DEF Setup!Init, ScriptOK, Setup!NoScript, Setup!ScriptHolds, Setup!Replacing,
         Setup!BootstrapAssumption
  <1>6. \A c \in Commands : CommandOK(c)
    BY DEF Setup!Init, CommandOK, Setup!NoCommand, Setup!CommandHolds, Setup!BootstrapAssumption
  <1> QED BY <1>3, <1>4, <1>5, <1>6 DEF SetupInv

\* A step of one actor, which changes the lock only if it is free or its own, and the files
\* only if it is its own, disturbs nobody else.
LEMMA OthersStay ==
    ASSUME Setup!BootstrapAssumption, SetupInv, NEW a \in Scripts \cup Commands,
           lock' = lock \/ (lock \in {None, a} /\ lock' \in {None, a}),
           (disk' = disk /\ protected' = protected) \/ lock = a
    PROVE  /\ \A t \in Scripts : t # a /\ script'[t] = script[t] => ScriptOK(t)'
           /\ \A d \in Commands : d # a /\ execution'[d] = execution[d] => CommandOK(d)'
  <1>1. ASSUME NEW t \in Scripts, t # a, script'[t] = script[t] PROVE ScriptOK(t)'
    <2>1. (lock' = t <=> lock = t) /\ (lock = t => disk' = disk /\ protected' = protected) /\ ScriptOK(t)
      BY <1>1 DEF SetupInv, Setup!BootstrapAssumption
    <2> QED BY <1>1, <2>1 DEF ScriptOK, Setup!Wanted, Near, Setup!Replacing, Setup!ScriptHolds
  <1>2. ASSUME NEW d \in Commands, d # a, execution'[d] = execution[d] PROVE CommandOK(d)'
    <2>1. (lock' = d <=> lock = d) /\ (lock = d => disk' = disk /\ protected' = protected) /\ CommandOK(d)
      BY <1>2 DEF SetupInv, Setup!BootstrapAssumption
    <2> QED BY <1>2, <2>1 DEF CommandOK, Setup!CommandHolds
  <1> QED BY <1>1, <1>2

\* The same, for a step of a script and for one of a command.
LEMMA ScriptMoves ==
    ASSUME Setup!BootstrapAssumption, SetupInv, NEW s \in Scripts, Setup!TypeOK', ScriptOK(s)',
           Setup!BaselineIsCurrent',
           \A t \in Scripts : t # s => script'[t] = script[t], execution' = execution,
           lock' = lock \/ (lock \in {None, s} /\ lock' \in {None, s}),
           (disk' = disk /\ protected' = protected) \/ lock = s
    PROVE  SetupInv'
  BY OthersStay DEF SetupInv, Setup!BootstrapAssumption

LEMMA CommandMoves ==
    ASSUME Setup!BootstrapAssumption, SetupInv, NEW c \in Commands, Setup!TypeOK', CommandOK(c)',
           Setup!BaselineIsCurrent',
           \A d \in Commands : d # c => execution'[d] = execution[d], script' = script,
           lock' = lock \/ (lock \in {None, c} /\ lock' \in {None, c}),
           (disk' = disk /\ protected' = protected) \/ lock = c
    PROVE  SetupInv'
  BY OthersStay DEF SetupInv, Setup!BootstrapAssumption

-----------------------------------------------------------------------------
\* The end of a script, at whatever point.
LEMMA EndScriptInv ==
    ASSUME Setup!BootstrapAssumption, SetupInv, NEW s \in Scripts, Setup!EndScript(s), disk' = disk,
           protected' = protected,
           execution' = execution, left' \subseteq {"helper", "agent", "config"}
    PROVE  SetupInv'
  <1>1. Setup!TypeOK'
    BY DEF SetupInv, Setup!TypeOK, Setup!EndScript, Setup!NoScript, Setup!Nothing, Setup!Disk, Setup!Run
  <1>2. ScriptOK(s)'
    BY DEF SetupInv, Setup!TypeOK, ScriptOK, Setup!EndScript, Setup!NoScript, Setup!ScriptHolds,
         Setup!Replacing, Setup!BootstrapAssumption
  <1>3. \A t \in Scripts : t # s => script'[t] = script[t]
    BY DEF SetupInv, Setup!TypeOK, Setup!EndScript
  <1>4. lock' = lock \/ (lock \in {None, s} /\ lock' \in {None, s})
    BY DEF Setup!EndScript
  <1>5. Setup!BaselineIsCurrent'
    BY DEF SetupInv, Setup!BaselineIsCurrent
  <1> QED BY <1>1, <1>2, <1>3, <1>4, <1>5, ScriptMoves

LEMMA BeginScriptInv ==
    ASSUME Setup!BootstrapAssumption, SetupInv, NEW s \in Scripts, Setup!Start(s)
             \/ Setup!TakeScriptLock(s) \/ Setup!ScriptEnds(s) PROVE SetupInv'
  <1> USE DEF Setup!TypeOK, ScriptOK, Near, Setup!BaselineIsCurrent, Setup!Replacing, Setup!ScriptHolds,
      Setup!Wanted, Setup!BootstrapAssumption
  <1>1. CASE Setup!Start(s)
    <2>1. \A p \in Packages : [helper |-> p, agent |-> p, config |-> protected] \in Setup!Disk
      BY DEF Setup!Disk, SetupInv
    <2>2. PICK p \in Packages :
            script' = [script EXCEPT ![s] = [@ EXCEPT !.pc = "ready",
                                 !.target = [helper |-> p, agent |-> p, config |-> protected]]]
      BY <1>1 DEF Setup!Start
    <2>3. [script[s] EXCEPT !.pc = "ready", !.target = [helper |-> p, agent |-> p, config |-> protected]] \in Setup!Run
      BY <2>1, RunFields, RunUpdates DEF SetupInv
    <2>4. Setup!TypeOK'
      BY <1>1, <2>2, <2>3 DEF Setup!Start, SetupInv
    <2>5. script'[s].pc = "ready" /\ script'[s].at = script[s].at /\ ScriptOK(s)
      BY <1>1, <2>2, RunFields DEF SetupInv, Setup!Run
    <2>6. ScriptOK(s)'
      BY <1>1, <2>5 DEF Setup!Start
    <2>7. (\A t \in Scripts : t # s => script'[t] = script[t]) /\ Setup!BaselineIsCurrent'
      BY <1>1, <2>2 DEF Setup!Start, SetupInv
    <2> QED BY <1>1, <2>4, <2>6, <2>7, ScriptMoves DEF Setup!Start
  <1>2. CASE Setup!TakeScriptLock(s) /\ lock = None
    <2>0. /\ script' = [script EXCEPT ![s].pc = "locked"] /\ lock' = s /\ script[s].pc = "ready"
          /\ UNCHANGED <<disk, left, protected, execution>>
      BY <1>2 DEF Setup!TakeScriptLock
    <2>a. [script[s] EXCEPT !.pc = "locked"] \in Setup!Run
      BY RunFields, RunUpdates DEF SetupInv
    <2>1. Setup!TypeOK'
      BY <2>0, <2>a DEF SetupInv
    <2>b. script'[s].pc = "locked" /\ script'[s].at = script[s].at /\ ScriptOK(s)
      BY <2>0, RunFields DEF SetupInv, Setup!Run
    <2>2. ScriptOK(s)'
      BY <2>0, <2>b
    <2>3. \A t \in Scripts : t # s => script'[t] = script[t]
      BY <1>2 DEF Setup!TakeScriptLock, SetupInv
    <2>4. Setup!BaselineIsCurrent'
      BY <1>2 DEF Setup!TakeScriptLock, SetupInv
    <2> QED BY <1>2, <2>1, <2>2, <2>3, <2>4, ScriptMoves DEF Setup!TakeScriptLock
  <1>3. CASE (Setup!TakeScriptLock(s) /\ lock # None) \/ Setup!ScriptEnds(s)
    <2>1. Setup!EndScript(s) /\ UNCHANGED <<disk, left, protected, execution>>
      BY <1>3 DEF Setup!TakeScriptLock, Setup!ScriptEnds
    <2> QED BY <2>1, EndScriptInv DEF SetupInv
  <1> QED BY <1>1, <1>2, <1>3

LEMMA RecheckInv ==
    ASSUME Setup!BootstrapAssumption, SetupInv, NEW s \in Scripts, Setup!Recheck(s) PROVE SetupInv'
  <1> USE DEF Setup!TypeOK, ScriptOK, Near, Setup!BaselineIsCurrent, Setup!Replacing, Setup!ScriptHolds,
      Setup!Wanted, Setup!BootstrapAssumption
  <1>1. CASE Setup!EndScript(s)
    BY <1>1, EndScriptInv DEF SetupInv, Setup!Recheck
  <1>2. CASE ~Setup!EndScript(s)
    <2>1. /\ script[s].pc = "locked" /\ script[s].target.config = protected
          /\ script' = [script EXCEPT ![s].pc = "replacing", ![s].previous = disk]
          /\ UNCHANGED <<disk, left, protected, lock, execution>>
      BY <1>2 DEF Setup!Recheck
    <2>2. script[s].at = 1 /\ ScriptOK(s)
      BY <2>1 DEF SetupInv
    <2>a. [script[s] EXCEPT !.pc = "replacing", !.previous = disk] \in Setup!Run
      BY RunFields, RunUpdates DEF SetupInv
    <2>3. Setup!TypeOK'
      BY <2>1, <2>a DEF SetupInv
    <2>4. script'[s].pc = "replacing" /\ script'[s].at = 1 /\ script'[s].target = script[s].target
          /\ script'[s].previous = disk
      BY <2>1, <2>2 DEF SetupInv
    <2>5. ScriptOK(s)'
      BY <2>1, <2>2, <2>4 DEF SetupInv
    <2>6. (\A t \in Scripts : t # s => script'[t] = script[t]) /\ Setup!BaselineIsCurrent'
      BY <2>1 DEF SetupInv
    <2> QED BY <2>1, <2>3, <2>5, <2>6, ScriptMoves
  <1> QED BY <1>1, <1>2

LEMMA WriteInv ==
    ASSUME Setup!BootstrapAssumption, SetupInv, NEW s \in Scripts, Setup!WriteTemporary(s) PROVE SetupInv'
  <1> USE DEF Setup!BaselineIsCurrent
  <1>1. Setup!TypeOK' /\ \A t \in Scripts : t # s => script'[t] = script[t]
    <2>1. Setup!File(s) \in {"helper", "agent", "config"}
      BY DEF Setup!WriteTemporary, Setup!Busy, Setup!File, Setup!Order
    <2>2. [script[s] EXCEPT !.temporary = TRUE] \in Setup!Run
      BY RunFields, RunUpdates DEF SetupInv
    <2> QED BY <2>1, <2>2 DEF SetupInv, Setup!TypeOK, Setup!WriteTemporary
  <1>2. ScriptOK(s)'
    <2>1. /\ script'[s].pc = script[s].pc /\ script'[s].at = script[s].at
          /\ script'[s].target = script[s].target /\ script'[s].previous = script[s].previous
      BY DEF SetupInv, Setup!TypeOK, Setup!WriteTemporary
    <2> QED BY <2>1 DEF SetupInv, ScriptOK, Setup!WriteTemporary, Setup!Wanted, Near
  <1>3. Setup!BaselineIsCurrent'
    BY DEF SetupInv, Setup!WriteTemporary
  <1> QED BY <1>1, <1>2, <1>3, ScriptMoves DEF Setup!WriteTemporary

LEMMA PutInv ==
    ASSUME Setup!BootstrapAssumption, SetupInv, NEW s \in Scripts, Setup!PutFile(s) PROVE SetupInv'
  <1> DEFINE f == Setup!File(s) w == Setup!Wanted(s)
  <1>1. /\ script[s].pc \in Setup!Replacing /\ script[s].at \in 1..3 /\ ScriptOK(s) /\ lock = s
        /\ UNCHANGED <<protected, lock, execution>>
    BY DEF SetupInv, Setup!PutFile, Setup!Busy, ScriptOK, Setup!Replacing, Setup!ScriptHolds
  <1>2. /\ w \in Setup!Disk /\ disk \in Setup!Disk /\ f \in {"helper", "agent", "config"}
           /\ w[f] \in {w.helper, w.agent, w.config}
        /\ (script[s].at = 1 /\ f = "helper") \/ (script[s].at = 2 /\ f = "agent")
           \/ (script[s].at = 3 /\ f = "config")
    BY <1>1, RunFields DEF SetupInv, Setup!TypeOK, Setup!Wanted, Setup!File, Setup!Order
  <1>3. /\ disk' \in Setup!Disk
        /\ disk'.helper = IF f = "helper" THEN w.helper ELSE disk.helper
        /\ disk'.agent = IF f = "agent" THEN w.agent ELSE disk.agent
        /\ disk'.config = IF f = "config" THEN w.config ELSE disk.config
    BY <1>2 DEF Setup!PutFile, Setup!Disk
  <1>4. /\ script'[s].pc = script[s].pc /\ script'[s].at = script[s].at + 1
        /\ script'[s].target = script[s].target /\ script'[s].previous = script[s].previous
        /\ \A t \in Scripts : t # s => script'[t] = script[t]
    BY DEF SetupInv, Setup!TypeOK, Setup!PutFile
  <1>5. Setup!TypeOK'
    <2>1. [script[s] EXCEPT !.at = @ + 1, !.temporary = FALSE] \in Setup!Run
      BY <1>1, RunFields, RunUpdates DEF SetupInv
    <2> QED BY <1>1, <1>3, <2>1 DEF SetupInv, Setup!TypeOK, Setup!PutFile
  <1>6. ScriptOK(s)'
    <2>1. Setup!Wanted(s)' = w
      BY <1>4 DEF Setup!Wanted
    <2> QED BY <1>1, <1>2, <1>3, <1>4, <2>1 DEF ScriptOK, Near, Setup!Replacing, Setup!ScriptHolds
  <1>7. Setup!BaselineIsCurrent'
    <2>1. Near(w.config)
      BY <1>1 DEF ScriptOK, Setup!Wanted, Near, SetupInv, Setup!TypeOK, Setup!Replacing
    <2> QED BY <1>1, <1>3, <2>1 DEF SetupInv, Setup!BaselineIsCurrent, Near
  <1> QED BY <1>1, <1>4, <1>5, <1>6, <1>7, ScriptMoves

LEMMA RaisesInv ==
    ASSUME Setup!BootstrapAssumption, SetupInv, NEW s \in Scripts, Setup!Raises(s) PROVE SetupInv'
  <1> USE DEF Setup!BaselineIsCurrent
  <1>0. left' \subseteq {"helper", "agent", "config"}
    BY DEF Setup!Raises, SetupInv, Setup!TypeOK
  <1>1. CASE script[s].pc = "replacing"
    <2>1. /\ script' = [script EXCEPT ![s].pc = "restoring", ![s].at = 1, ![s].temporary = FALSE]
          /\ UNCHANGED <<disk, protected, execution, lock>>
      BY <1>1 DEF Setup!Raises
    <2>a. [script[s] EXCEPT !.pc = "restoring", !.at = 1, !.temporary = FALSE] \in Setup!Run
      BY RunFields, RunUpdates DEF SetupInv
    <2>2. Setup!TypeOK'
      BY <1>0, <2>1, <2>a DEF SetupInv, Setup!TypeOK
    <2>3. /\ script'[s].pc = "restoring" /\ script'[s].at = 1 /\ script'[s].previous = script[s].previous
          /\ \A t \in Scripts : t # s => script'[t] = script[t]
      BY <2>1 DEF SetupInv, Setup!TypeOK
    <2>4. ScriptOK(s)'
      BY <1>1, <2>1, <2>3 DEF SetupInv, ScriptOK, Near, Setup!ScriptHolds, Setup!Replacing
    <2>5. Setup!BaselineIsCurrent'
      BY <2>1 DEF SetupInv
    <2> QED BY <2>1, <2>2, <2>3, <2>4, <2>5, ScriptMoves
  <1>2. CASE script[s].pc # "replacing"
    <2>1. Setup!EndScript(s) /\ UNCHANGED <<disk, protected, execution>>
      BY <1>2 DEF Setup!Raises
    <2> QED BY <1>0, <2>1, EndScriptInv
  <1> QED BY <1>1, <1>2

-----------------------------------------------------------------------------
LEMMA EndCommandInv ==
    ASSUME Setup!BootstrapAssumption, SetupInv, NEW c \in Commands, Setup!EndCommand(c), disk' = disk,
           protected' = protected,
           script' = script, left' = left
    PROVE  SetupInv'
  <1>1. Setup!TypeOK'
    BY DEF SetupInv, Setup!TypeOK, Setup!EndCommand, Setup!NoCommand, Setup!Execution
  <1>2. CommandOK(c)'
    BY DEF SetupInv, Setup!TypeOK, CommandOK, Setup!EndCommand, Setup!NoCommand, Setup!CommandHolds,
         Setup!BootstrapAssumption
  <1>3. \A d \in Commands : d # c => execution'[d] = execution[d]
    BY DEF SetupInv, Setup!TypeOK, Setup!EndCommand
  <1>4. lock' = lock \/ (lock \in {None, c} /\ lock' \in {None, c})
    BY DEF Setup!EndCommand
  <1>5. Setup!BaselineIsCurrent'
    BY DEF SetupInv, Setup!BaselineIsCurrent
  <1> QED BY <1>1, <1>2, <1>3, <1>4, <1>5, CommandMoves

\* A command that has not come to its migration reads the files and takes the lock.
LEMMA ReadInv ==
    ASSUME Setup!BootstrapAssumption, SetupInv, NEW c \in Commands,
           \/ Setup!Launch(c) \/ Setup!ReadConfig(c) \/ Setup!TakeCommandLock(c) \/ Setup!CheckHelper(c)
              \/ Setup!LoadHelper(c) \/ Setup!CommandEnds(c)
    PROVE  SetupInv'
  <1> USE DEF Setup!CommandHolds
  <1>0. disk.helper \in Packages \cup {None} /\ disk.agent \in Packages \cup {None}
        /\ disk.config \in 0..MaxMigrations \cup {None}
    BY DEF Setup!Disk, SetupInv, Setup!TypeOK
  <1>1. CASE Setup!EndCommand(c)
    BY <1>1, EndCommandInv DEF Setup!TakeCommandLock, Setup!CheckHelper, Setup!CommandEnds,
         Setup!Launch, Setup!ReadConfig, Setup!LoadHelper
  <1>a. CommandOK(c) /\ execution \in [Commands -> Setup!Execution] /\ execution[c] \in Setup!Execution
    BY ExecutionFields DEF SetupInv, Setup!TypeOK
  <1>2. ASSUME NEW r \in Setup!Execution, execution' = [execution EXCEPT ![c] = r],
               UNCHANGED <<disk, left, protected, script>>,
               CommandOK(c)', lock' = lock \/ (lock = None /\ lock' = c)
        PROVE  SetupInv'
    <2>1. Setup!TypeOK'
      BY <1>2 DEF SetupInv, Setup!TypeOK
    <2>2. (\A d \in Commands : d # c => execution'[d] = execution[d]) /\ Setup!BaselineIsCurrent'
      BY <1>2 DEF SetupInv, Setup!TypeOK, Setup!BaselineIsCurrent
    <2> QED BY <1>2, <2>1, <2>2, CommandMoves
  <1>3. CASE Setup!Launch(c)
    <2> DEFINE r == [execution[c] EXCEPT !.pc = "started", !.code = disk.agent]
    <2>1. r \in Setup!Execution /\ execution' = [execution EXCEPT ![c] = r]
      BY <1>0, <1>a, <1>3, ExecutionUpdates DEF Setup!Launch
    <2>2. CommandOK(c)'
      BY <1>a, <1>3, <2>1 DEF Setup!Launch, CommandOK, Setup!Execution
    <2> QED BY <1>2, <1>3, <2>1, <2>2 DEF Setup!Launch
  <1>4. CASE Setup!ReadConfig(c)
    <2> DEFINE r == [execution[c] EXCEPT !.pc = "read", !.config = disk.config]
    <2>1. r \in Setup!Execution /\ execution' = [execution EXCEPT ![c] = r]
      BY <1>0, <1>a, <1>4, ExecutionUpdates DEF Setup!ReadConfig
    <2>2. CommandOK(c)'
      BY <1>a, <1>4, <2>1 DEF Setup!ReadConfig, CommandOK, Setup!Execution
    <2> QED BY <1>2, <1>4, <2>1, <2>2 DEF Setup!ReadConfig
  <1>5. CASE Setup!LoadHelper(c)
    <2> DEFINE r == [execution[c] EXCEPT !.pc = "loaded", !.helper = disk.helper]
    <2>1. r \in Setup!Execution /\ execution' = [execution EXCEPT ![c] = r]
      BY <1>0, <1>a, <1>5, ExecutionUpdates DEF Setup!LoadHelper
    <2>2. CommandOK(c)'
      BY <1>a, <1>5, <2>1 DEF Setup!LoadHelper, CommandOK, Setup!Execution
    <2> QED BY <1>2, <1>5, <2>1, <2>2 DEF Setup!LoadHelper
  <1>6. CASE Setup!TakeCommandLock(c) /\ ~Setup!EndCommand(c)
    <2> DEFINE r == [execution[c] EXCEPT !.pc = "locked"]
    <2>1. r \in Setup!Execution /\ execution' = [execution EXCEPT ![c] = r]
      BY <1>a, <1>6, ExecutionUpdates DEF Setup!TakeCommandLock
    <2>2. CommandOK(c)'
      BY <1>a, <1>6, <2>1 DEF Setup!TakeCommandLock, CommandOK, Setup!Execution, Setup!BootstrapAssumption
    <2> QED BY <1>2, <1>6, <2>1, <2>2 DEF Setup!TakeCommandLock
  <1>7. CASE Setup!CheckHelper(c) /\ ~Setup!EndCommand(c)
    <2> DEFINE r == [execution[c] EXCEPT !.pc = "checked"]
    <2>1. r \in Setup!Execution /\ execution' = [execution EXCEPT ![c] = r]
      BY <1>a, <1>7, ExecutionUpdates DEF Setup!CheckHelper
    <2>2. CommandOK(c)'
      BY <1>a, <1>7, <2>1 DEF Setup!CheckHelper, CommandOK, Setup!Execution, Setup!BootstrapAssumption
    <2> QED BY <1>2, <1>7, <2>1, <2>2 DEF Setup!CheckHelper
  <1> QED BY <1>1, <1>3, <1>4, <1>5, <1>6, <1>7 DEF Setup!CommandEnds

LEMMA MigrateInv ==
    ASSUME Setup!BootstrapAssumption, SetupInv, NEW c \in Commands, Setup!InstallMigration(c)
             \/ Setup!ListMigration(c)
    PROVE  SetupInv'
  <1> USE DEF Setup!CommandHolds
  <1>1. CASE Setup!InstallMigration(c) /\ ~Setup!EndCommand(c)
    <2>1. /\ execution[c].pc = "loaded" /\ disk.config = execution[c].config
             /\ execution[c].config < MaxMigrations
          /\ protected' = execution[c].config + 1 /\ execution' = [execution EXCEPT ![c].pc = "copied"]
          /\ UNCHANGED <<disk, left, script, lock>>
             /\ protected \in {execution[c].config, execution[c].config + 1}
      BY <1>1 DEF Setup!InstallMigration
    <2>2. execution[c].config \in 0..MaxMigrations /\ CommandOK(c) /\ MaxMigrations \in Nat /\ lock = c
      BY <2>1, ExecutionFields DEF SetupInv, CommandOK, Setup!BootstrapAssumption
    <2>a. [execution[c] EXCEPT !.pc = "copied"] \in Setup!Execution
      BY ExecutionFields, ExecutionUpdates DEF SetupInv
    <2>3. Setup!TypeOK'
      BY <2>1, <2>2, <2>a DEF SetupInv, Setup!TypeOK
    <2>4. CommandOK(c)' /\ \A d \in Commands : d # c => execution'[d] = execution[d]
      BY <2>1, <2>2 DEF SetupInv, Setup!TypeOK, CommandOK
    <2>5. Setup!BaselineIsCurrent'
      BY <2>1, <2>2 DEF Setup!BaselineIsCurrent
    <2> QED BY <2>1, <2>2, <2>3, <2>4, <2>5, CommandMoves
  <1>2. CASE Setup!InstallMigration(c) /\ Setup!EndCommand(c)
    <2>1. protected' = protected
      BY <1>2 DEF Setup!InstallMigration, Setup!EndCommand, SetupInv, Setup!TypeOK, Setup!NoCommand
    <2> QED BY <1>2, <2>1, EndCommandInv DEF Setup!InstallMigration
  <1>3. CASE Setup!ListMigration(c)
    <2>1. /\ execution[c].pc = "copied" /\ disk' = [disk EXCEPT !.config = execution[c].config + 1]
          /\ Setup!EndCommand(c) /\ UNCHANGED <<left, protected, script>>
      BY <1>3 DEF Setup!ListMigration
    <2>2. /\ execution[c].config \in 0..MaxMigrations /\ CommandOK(c) /\ MaxMigrations \in Nat /\ lock = c
          /\ protected = execution[c].config + 1 /\ execution[c].config < MaxMigrations
      BY <2>1, ExecutionFields DEF SetupInv, CommandOK, Setup!BootstrapAssumption
    <2>3. disk' \in Setup!Disk /\ disk'.config = protected
      BY <2>1, <2>2 DEF SetupInv, Setup!TypeOK, Setup!Disk
    <2>4. Setup!TypeOK'
      BY <2>1, <2>3 DEF SetupInv, Setup!TypeOK, Setup!EndCommand, Setup!NoCommand, Setup!Execution
    <2>5. CommandOK(c)' /\ \A d \in Commands : d # c => execution'[d] = execution[d]
      BY <2>1, <2>2 DEF SetupInv, Setup!TypeOK, CommandOK, Setup!EndCommand, Setup!NoCommand,
           Setup!BootstrapAssumption
    <2>6. Setup!BaselineIsCurrent'
      BY <2>1, <2>3 DEF Setup!BaselineIsCurrent
    <2> QED BY <2>1, <2>2, <2>4, <2>5, <2>6, CommandMoves DEF Setup!EndCommand
  <1> QED BY <1>1, <1>2, <1>3

LEMMA SetupInvNext == Setup!BootstrapAssumption /\ SetupInv /\ [Setup!Next]_(Setup!vars) => SetupInv'
  <1> SUFFICES ASSUME Setup!BootstrapAssumption, SetupInv, [Setup!Next]_(Setup!vars) PROVE SetupInv'
    OBVIOUS
  <1>1. CASE UNCHANGED Setup!vars \/ Setup!Inspect
    <2>1. UNCHANGED <<disk, protected, lock, script, execution>>
            /\ left' \subseteq {"helper", "agent", "config"}
      BY <1>1 DEF SetupInv, Setup!TypeOK, Setup!vars, Setup!Inspect
    <2> QED BY <2>1 DEF SetupInv, Setup!TypeOK, ScriptOK, CommandOK, Near, Setup!Wanted,
         Setup!BaselineIsCurrent
  <1>2. CASE Setup!Next
    BY <1>1, <1>2, BeginScriptInv, RecheckInv, WriteInv, PutInv, RaisesInv, ReadInv, MigrateInv DEF
         Setup!Next
  <1> QED BY <1>1, <1>2

LEMMA SetupWhole == SetupInv => Setup!HelperIsPinned /\ Setup!InstallationsAreWhole
  <1> SUFFICES ASSUME SetupInv PROVE Setup!HelperIsPinned /\ Setup!InstallationsAreWhole
    OBVIOUS
  <1>1. Setup!HelperIsPinned
    BY DEF SetupInv, CommandOK, Setup!HelperIsPinned
  <1>2. ASSUME NEW s \in Scripts, script[s].pc \in Setup!Replacing, script[s].at = 4
        PROVE  disk = Setup!Wanted(s)
    <2>1. disk.helper = Setup!Wanted(s).helper /\ disk.agent = Setup!Wanted(s).agent
            /\ disk.config = Setup!Wanted(s).config
      BY <1>2 DEF SetupInv, ScriptOK
    <2>2. disk \in Setup!Disk /\ Setup!Wanted(s) \in Setup!Disk
      BY RunFields DEF SetupInv, Setup!TypeOK, Setup!Wanted
    <2> QED BY <2>1, <2>2 DEF Setup!Disk
  <1> QED BY <1>1, <1>2 DEF Setup!InstallationsAreWhole

\* A script, a command and the files keep their types, for every number of packages,
\* scripts, commands and migrations.
THEOREM SetupTypes == ASSUME Setup!BootstrapAssumption PROVE Setup!Spec => []Setup!TypeOK
  <1>1. SetupInv => Setup!TypeOK
    BY DEF SetupInv
  <1> QED BY <1>1, SetupInvInit, SetupInvNext, PTL DEF Setup!Spec

\* However installers, release commands and deaths interleave, the helper a command runs is the
\* one its executor pins, an installer leaves one package or what it found, and the baseline
\* is that of the host, but for one migration that was not listed (bootstrap.py, agent.py).
THEOREM SetupSound ==
    ASSUME Setup!BootstrapAssumption
    PROVE  Setup!Spec => [](Setup!HelperIsPinned /\ Setup!InstallationsAreWhole /\ Setup!BaselineIsCurrent)
  <1>1. SetupInv => Setup!HelperIsPinned /\ Setup!InstallationsAreWhole /\ Setup!BaselineIsCurrent
    BY SetupWhole DEF SetupInv
  <1> QED BY <1>1, SetupInvInit, SetupInvNext, PTL DEF Setup!Spec

-----------------------------------------------------------------------------
(* Sessions.                                                                *)

\* What the proofs take of the types.
Typed ==
    /\ version \in Nat /\ device \in Nat /\ made \in Nat /\ device <= made
    /\ DOMAIN session = Browsers /\ DOMAIN change = Browsers
    /\ \A b \in Browsers :
         /\ session[b].kind \in {"anonymous", "password", "pending", "in"}
         /\ session[b].version \in Nat /\ session[b].device \in Nat

\* A session is bound to the password it showed; one that is signed in, and not outdated by a
\* newer version, to the authenticator it used.
Bound ==
    \A b \in Browsers :
      /\ session[b].version <= version
      /\ session[b].kind # "anonymous" => session[b].proved = session[b].hash
      /\ session[b].kind = "in" => session[b].device # 0
      /\ session[b].kind = "in" /\ session[b].version = version => session[b].device = device

LoginInv == Typed /\ Bound

-----------------------------------------------------------------------------
\* Every browser is anonymous in the initial state.
LEMMA LoginInvInit == Login!Init => LoginInv
  BY DEF Login!Init, LoginInv, Typed, Bound, Login!Anonymous, Login!NoChange

\* One session replaced by a well-bound one, the user's rows as they were.
Fits(s) ==
    /\ s.kind \in {"anonymous", "password", "pending", "in"}
    /\ s.version \in Nat /\ s.device \in Nat /\ s.version <= version
    /\ s.kind # "anonymous" => s.proved = s.hash
    /\ s.kind = "in" => s.device # 0
    /\ s.kind = "in" /\ s.version = version => s.device = device

LEMMA BecomeInv ==
    ASSUME LoginInv, NEW b \in Browsers, NEW s, Fits(s), Login!Become(b, s),
           UNCHANGED <<version, device>>, made' \in Nat, made' >= made
    PROVE  LoginInv'
  <1>1. DOMAIN session' = Browsers /\ DOMAIN change' = Browsers
        /\ session'[b] = s /\ \A q \in Browsers : q # b => session'[q] = session[q]
    BY DEF Login!Become, LoginInv, Typed
  <1> QED
    BY <1>1 DEF LoginInv, Typed, Bound, Fits

\* Nothing of the sessions or of what they are compared with changes.
LEMMA SameInv ==
    ASSUME LoginInv, UNCHANGED <<version, device, made, session>>, DOMAIN change' = Browsers
    PROVE  LoginInv'
  BY DEF LoginInv, Typed, Bound

\* A higher version: every session is outdated, whatever happens to the authenticator.
LEMMA NewerInv ==
    ASSUME LoginInv, version' = version + 1, device' \in {device, 0}, UNCHANGED <<made, session, change>>
    PROVE  LoginInv'
  BY DEF LoginInv, Typed, Bound

-----------------------------------------------------------------------------
\* The steps that sign in.
LEMMA SignInInv ==
    ASSUME LoginInv, NEW b \in Browsers,
           Login!CheckPassword(b) \/ Login!BeginLogin(b) \/ Login!PendingIdentity(b) \/ Login!VerifyExpired(b)
             \/ Login!Restart(b) \/ Login!VerifyToken(b) \/ Login!VerifyRecovery(b) \/ Login!VerifyFails(b)
    PROVE  LoginInv'
  <1> USE DEF LoginInv, Typed, Bound
  <1>1. CASE Login!CheckPassword(b)
    <2> DEFINE s == [Login!Anonymous EXCEPT !.kind = "password", !.hash = password, !.proved = password]
    <2>1. Fits(s)
      BY DEF Fits, Login!Anonymous
    <2> QED
      BY <1>1, <2>1, BecomeInv DEF Login!CheckPassword, Login!profile, Login!factor
  <1>2. CASE Login!BeginLogin(b)
    <2> DEFINE s == [session[b] EXCEPT !.kind = "pending", !.version = version]
    <2>1. s.kind = "pending" /\ s.version = version /\ s.device = session[b].device
          /\ s.proved = session[b].proved /\ s.hash = session[b].hash
      OBVIOUS
    <2>2. Fits(s)
      BY <1>2, <2>1 DEF Fits, Login!BeginLogin
    <2> QED
      BY <1>2, <2>2, BecomeInv DEF Login!BeginLogin, Login!profile, Login!factor
  <1>3. CASE Login!PendingIdentity(b)
    <2>1. UNCHANGED <<version, device, made, change>>
          /\ (session' = session \/ session' = [session EXCEPT ![b] = Login!Anonymous])
      BY <1>3 DEF Login!PendingIdentity, Login!profile, Login!factor
    <2> QED
      BY <2>1 DEF Login!Anonymous
  <1>4. CASE Login!VerifyExpired(b) \/ Login!Restart(b)
    <2>1. Fits(Login!Anonymous)
      BY DEF Fits, Login!Anonymous
    <2> QED
      BY <1>4, <2>1, BecomeInv DEF Login!VerifyExpired, Login!Restart, Login!profile, Login!factor
  <1>5. CASE Login!VerifyToken(b) \/ Login!VerifyRecovery(b)
    <2> DEFINE s == [session[b] EXCEPT !.kind = "in", !.version = version, !.hash = password, !.device = device]
    <2>1. Login!Become(b, s) /\ UNCHANGED <<version, device, made>>
      BY <1>5 DEF Login!VerifyToken, Login!VerifyRecovery, Login!SignedIn, Login!profile, Login!factor
    <2>2. session[b].kind = "pending" /\ session[b].hash = password /\ device # 0
      BY <1>5 DEF Login!VerifyToken, Login!VerifyRecovery, Login!Challenged, Login!Valid
    <2>3. Fits(s)
      BY <2>2 DEF Fits
    <2> QED
      BY <2>1, <2>3, BecomeInv
  <1>6. CASE Login!VerifyFails(b)
    BY <1>6, SameInv DEF Login!VerifyFails, Login!factor
  <1> QED BY <1>1, <1>2, <1>3, <1>4, <1>5, <1>6

\* The first authenticator: nobody is signed in with none.
LEMMA EnrolInv == ASSUME LoginInv, NEW b \in Browsers, Login!VerifyEnrols(b) PROVE LoginInv'
  <1> DEFINE s == [session[b] EXCEPT !.kind = "in", !.version = version, !.hash = password, !.device = made + 1]
  <1>1. Login!Become(b, s) /\ device = 0 /\ device' = made + 1 /\ made' = made + 1 /\ version' = version
        /\ session[b].kind = "pending" /\ session[b].hash = password
    BY DEF Login!VerifyEnrols, Login!SignedIn, Login!Challenged, Login!Valid
  <1>2. DOMAIN session' = Browsers /\ DOMAIN change' = Browsers
        /\ session'[b] = s /\ \A q \in Browsers : q # b => session'[q] = session[q]
    BY <1>1 DEF Login!Become, LoginInv, Typed
  <1>3. s.kind = "in" /\ s.version = version /\ s.device = made + 1 /\ s.proved = s.hash
    BY <1>1 DEF LoginInv, Bound
  <1> HIDE DEF s
  <1> QED
    BY <1>1, <1>2, <1>3 DEF LoginInv, Typed, Bound

\* A later request, and the replacement of the authenticator.
LEMMA LaterInv ==
    ASSUME LoginInv, NEW b \in Browsers,
           Login!Request(b) \/ Login!MfaExpires(b) \/ Login!ChangeBegins(b) \/ Login!ChangeFails(b)
    PROVE  LoginInv'
  <1> USE DEF LoginInv, Typed, Bound
  <1>1. CASE Login!Request(b)
    <2>1. Fits(Login!Anonymous)
      BY DEF Fits, Login!Anonymous
    <2> QED
      BY <1>1, <2>1, BecomeInv DEF Login!Request, Login!profile, Login!factor
  <1>2. CASE Login!MfaExpires(b)
    <2> DEFINE s == [session[b] EXCEPT !.kind = "pending", !.device = 0]
    <2>1. session[b].kind = "in"
      BY <1>2 DEF Login!MfaExpires, Login!Live
    <2>2. Fits(s)
      BY <2>1 DEF Fits
    <2> QED
      BY <1>2, <2>2, BecomeInv DEF Login!MfaExpires, Login!profile, Login!factor
  <1>3. CASE Login!ChangeBegins(b)
    <2>1. made' = made + 1 /\ UNCHANGED <<version, device, session>> /\ DOMAIN change' = Browsers
      BY <1>3 DEF Login!ChangeBegins, Login!profile
    <2> QED
      BY <2>1
  <1>4. CASE Login!ChangeFails(b)
    BY <1>4, SameInv DEF Login!ChangeFails, Login!factor
  <1> QED BY <1>1, <1>2, <1>3, <1>4

\* The replacement raises the version, so that only the session that made it is not outdated.
LEMMA ChangeEndsInv == ASSUME LoginInv, NEW b \in Browsers, Login!ChangeEnds(b) PROVE LoginInv'
  <1> DEFINE s == [session[b] EXCEPT !.version = Login!NextVersion, !.device = change[b].device]
  <1>1. Login!Become(b, s) /\ device' = change[b].device /\ version' = version + 1 /\ made' = made
        /\ session[b].kind = "in" /\ change[b].device = made /\ made > device
    BY DEF Login!ChangeEnds, Login!Live, Login!Replacing, Login!NextVersion
  <1>2. DOMAIN session' = Browsers /\ DOMAIN change' = Browsers
        /\ session'[b] = s /\ \A q \in Browsers : q # b => session'[q] = session[q]
    BY <1>1 DEF Login!Become, LoginInv, Typed
  <1>3. s.kind = "in" /\ s.version = version + 1 /\ s.device = made /\ s.proved = s.hash
    BY <1>1 DEF LoginInv, Typed, Bound, Login!NextVersion
  <1> HIDE DEF s
  <1> QED
    BY <1>1, <1>2, <1>3 DEF LoginInv, Typed, Bound

\* The administration, and the clock.
LEMMA AdministrationInv ==
    ASSUME LoginInv, Login!ApplyUserChange \/ Login!RevokeSessions \/ Login!RecoverMfa \/ Login!Tick
    PROVE  LoginInv'
  <1>1. CASE Login!ApplyUserChange
    BY <1>1, NewerInv DEF Login!ApplyUserChange, Login!factor
  <1>2. CASE Login!RevokeSessions
    BY <1>2, NewerInv DEF Login!RevokeSessions, Login!factor
  <1>3. CASE Login!RecoverMfa
    BY <1>3, NewerInv DEF Login!RecoverMfa
  <1>4. CASE Login!Tick
    BY <1>4, SameInv DEF Login!Tick, Login!factor, LoginInv, Typed
  <1> QED BY <1>1, <1>2, <1>3, <1>4

LEMMA LoginInvNext == LoginInv /\ [Login!Next]_(Login!vars) => LoginInv'
  <1> SUFFICES ASSUME LoginInv, [Login!Next]_(Login!vars) PROVE LoginInv'
    OBVIOUS
  <1>1. CASE UNCHANGED Login!vars
    BY <1>1, SameInv DEF Login!vars, Login!profile, Login!factor, LoginInv, Typed
  <1>2. CASE Login!Next
    BY <1>2, SignInInv, EnrolInv, LaterInv, ChangeEndsInv, AdministrationInv
      DEF Login!Next, Login!SignIn, Login!Verify
  <1> QED BY <1>1, <1>2

LEMMA LoginInvariance == Login!Spec => []LoginInv
  BY LoginInvInit, LoginInvNext, PTL DEF Login!Spec

-----------------------------------------------------------------------------
\* A session whose requests are answered showed the present password and the present
\* authenticator, however signing in and the administration interleave (authentication.py,
\* middleware.py).
THEOREM LiveSessionsFresh == Login!Spec => []Login!LiveSessionsAreFresh
  <1>1. LoginInv => Login!LiveSessionsAreFresh
    BY DEF LoginInv, Bound, Login!LiveSessionsAreFresh, Login!Live
  <1> QED BY <1>1, LoginInvariance, PTL

-----------------------------------------------------------------------------
(* Codes.  The proof needs the disjointness of recovery codes and time      *)
(* steps, which SessionsAssumption states.                                  *)

Unused(d) == \A t \in Codes \cup Login!Steps : uses[<<t, d>>] = 0

CodeTypes ==
    /\ DOMAIN uses = Login!Tokens /\ DOMAIN change = Browsers
    /\ codes \subseteq Codes /\ now \in Login!Steps /\ last \in Nat
    /\ version \in Nat \ {0} /\ made \in 0..MaxDevices /\ device \in 0..made
    /\ \A b \in Browsers : change[b].version \in Nat /\ change[b].device \in 0..made

\* The present authenticator's codes that would still be accepted were not; an authenticator
\* that was only begun, by a change that is not outdated, accepted none.
CodesLeft ==
    /\ \A x \in Login!Tokens : uses[x] \in {0, 1}
    /\ \A d \in 0..MaxDevices : d > made => Unused(d)
    /\ device # 0 => \A n \in Login!Steps : n > last => uses[<<n, device>>] = 0
    /\ device # 0 => \A c \in codes : uses[<<c, device>>] = 0
    /\ \A b \in Browsers :
         /\ change[b].version <= version
         /\ change[b].version = version /\ change[b].device = made /\ made > device => Unused(made)

CInv == CodeTypes /\ CodesLeft

\* What is counted the first time.
LEMMA CountedOnce ==
    ASSUME CInv, NEW t \in Codes \cup Login!Steps, NEW d \in 0..MaxDevices, uses[<<t, d>>] = 0, Login!Counted(t, d)
    PROVE  /\ DOMAIN uses' = Login!Tokens
           /\ uses'[<<t, d>>] = 1
           /\ \A x \in Login!Tokens : x # <<t, d>> => uses'[x] = uses[x]
           /\ \A x \in Login!Tokens : uses'[x] \in {0, 1}
  BY DEF CInv, CodeTypes, CodesLeft, Login!Counted, Login!Tokens

LEMMA CodesInit == ASSUME Login!SessionsAssumption PROVE Login!Init => CInv
  BY DEF Login!SessionsAssumption, Login!Init, CInv, CodeTypes, CodesLeft, Unused, Login!Steps,
       Login!Tokens, Login!NoChange

\* An authenticator is enrolled: its number is new.
LEMMA EnrolCodes ==
    ASSUME Login!SessionsAssumption, CInv, NEW b \in Browsers, Login!VerifyEnrols(b)
    PROVE  CInv'
  <1> USE DEF CInv, CodeTypes
  <1>1. /\ made' = made + 1 /\ device' = made + 1 /\ last' = now /\ codes' = Codes
        /\ made + 1 \in 0..MaxDevices /\ version' = version /\ now' = now
    BY DEF Login!SessionsAssumption, Login!VerifyEnrols
  <1>2. now \in Codes \cup Login!Steps /\ uses[<<now, made + 1>>] = 0
    BY <1>1 DEF CodesLeft, Unused
  <1>3. Login!Counted(now, made + 1)
    BY DEF Login!VerifyEnrols
  <1>4. /\ DOMAIN uses' = Login!Tokens
        /\ \A x \in Login!Tokens : x # <<now, made + 1>> => uses'[x] = uses[x]
        /\ \A x \in Login!Tokens : uses'[x] \in {0, 1}
    BY <1>1, <1>2, <1>3, CountedOnce
  <1>5. DOMAIN change' = Browsers /\ \A q \in Browsers : change'[q] \in {change[q], Login!NoChange}
    BY DEF Login!VerifyEnrols, Login!SignedIn, Login!Become
  <1>6. \A t \in Codes \cup Login!Steps, d \in 0..MaxDevices :
           <<t, d>> \in Login!Tokens /\ (d # made + 1 \/ t # now => uses'[<<t, d>>] = uses[<<t, d>>])
    BY <1>4 DEF Login!Tokens
  <1>7. \A c \in Codes : c # now
    BY DEF Login!SessionsAssumption, Login!Steps
  <1>8. CodeTypes'
    BY <1>1, <1>4, <1>5 DEF Login!NoChange, Login!Steps
  <1>9. CodesLeft'
    BY <1>1, <1>4, <1>5, <1>6, <1>7 DEF CodesLeft, Unused, Login!NoChange, Login!Steps
  <1> QED BY <1>8, <1>9

\* A time step or a recovery code of the present authenticator.
LEMMA FactorCodes ==
    ASSUME Login!SessionsAssumption, CInv, NEW b \in Browsers, Login!VerifyToken(b) \/ Login!VerifyRecovery(b)
    PROVE  CInv'
  <1> USE DEF CInv, CodeTypes
  <1>1. UNCHANGED <<version, device, made, now>> /\ device # 0 /\ device \in 0..MaxDevices
    BY DEF Login!SessionsAssumption, Login!VerifyToken, Login!VerifyRecovery, Login!factor, Login!profile
  <1>2. DOMAIN change' = Browsers /\ \A q \in Browsers : change'[q] \in {change[q], Login!NoChange}
    BY DEF Login!VerifyToken, Login!VerifyRecovery, Login!SignedIn, Login!Become
  <1>3. Codes \cap Login!Steps = {}
    BY DEF Login!SessionsAssumption, Login!Steps
  <1>4. CASE Login!VerifyToken(b)
    <2>1. now > last /\ last' = now /\ codes' = codes /\ Login!Counted(now, device)
      BY <1>4 DEF Login!VerifyToken, Login!Rows, Login!profile
    <2>2. uses[<<now, device>>] = 0
      BY <1>1, <2>1 DEF CodesLeft
    <2>3. /\ DOMAIN uses' = Login!Tokens
          /\ \A x \in Login!Tokens : x # <<now, device>> => uses'[x] = uses[x]
          /\ \A x \in Login!Tokens : uses'[x] \in {0, 1}
      BY <1>1, <2>1, <2>2, CountedOnce
    <2>4. \A t \in Codes \cup Login!Steps, d \in 0..MaxDevices :
             d # device \/ t # now => uses'[<<t, d>>] = uses[<<t, d>>]
      BY <2>3 DEF Login!Tokens
    <2>5. CodeTypes'
      BY <1>1, <1>2, <2>1, <2>3 DEF Login!NoChange, Login!Steps
    <2>6. CodesLeft'
      BY <1>1, <1>2, <1>3, <2>1, <2>3, <2>4 DEF CodesLeft, Unused, Login!NoChange, Login!Steps
    <2> QED BY <2>5, <2>6
  <1>5. CASE Login!VerifyRecovery(b)
    <2>1. PICK c \in codes : codes' = codes \ {c} /\ last' = last /\ Login!Counted(c, device)
      BY <1>5 DEF Login!VerifyRecovery, Login!Rows, Login!factor
    <2>2. uses[<<c, device>>] = 0 /\ c \in Codes
      BY <1>1, <2>1 DEF CodesLeft
    <2>3. /\ DOMAIN uses' = Login!Tokens
          /\ \A x \in Login!Tokens : x # <<c, device>> => uses'[x] = uses[x]
          /\ \A x \in Login!Tokens : uses'[x] \in {0, 1}
      BY <1>1, <2>1, <2>2, CountedOnce
    <2>4. \A t \in Codes \cup Login!Steps, d \in 0..MaxDevices :
             d # device \/ t # c => uses'[<<t, d>>] = uses[<<t, d>>]
      BY <2>3 DEF Login!Tokens
    <2>5. CodeTypes'
      BY <1>1, <1>2, <2>1, <2>3 DEF Login!NoChange, Login!Steps
    <2>6. CodesLeft'
      BY <1>1, <1>2, <1>3, <2>1, <2>2, <2>3, <2>4 DEF CodesLeft, Unused, Login!NoChange, Login!Steps
    <2> QED BY <2>5, <2>6
  <1> QED BY <1>4, <1>5

\* The replacement: its number is new when it begins, and nothing was accepted for it since.
LEMMA ChangeBeginsCodes ==
    ASSUME Login!SessionsAssumption, CInv, NEW b \in Browsers, Login!ChangeBegins(b)
    PROVE  CInv'
  <1> USE DEF CInv, CodeTypes
  <1>1. /\ made' = made + 1 /\ UNCHANGED <<version, device, now, codes>> /\ last' = now
        /\ made + 1 \in 0..MaxDevices /\ device # 0 /\ device \in 0..MaxDevices
        /\ now > last /\ Login!Counted(now, device)
    BY DEF Login!SessionsAssumption, Login!ChangeBegins, Login!profile
  <1>2. uses[<<now, device>>] = 0
    BY <1>1 DEF CodesLeft
  <1>3. /\ DOMAIN uses' = Login!Tokens
        /\ \A x \in Login!Tokens : x # <<now, device>> => uses'[x] = uses[x]
        /\ \A x \in Login!Tokens : uses'[x] \in {0, 1}
    BY <1>1, <1>2, CountedOnce
  <1>4. \A t \in Codes \cup Login!Steps, d \in 0..MaxDevices :
           d # device \/ t # now => uses'[<<t, d>>] = uses[<<t, d>>]
    BY <1>3 DEF Login!Tokens
  <1>5. DOMAIN change' = Browsers
        /\ change'[b] = [device |-> made + 1, version |-> version, hash |-> password]
        /\ \A q \in Browsers : q # b => change'[q] = change[q]
    BY DEF Login!ChangeBegins
  <1>6. CodeTypes'
    BY <1>1, <1>3, <1>5 DEF Login!Steps
  <1>7. Codes \cap Login!Steps = {}
    BY DEF Login!SessionsAssumption, Login!Steps
  <1>8. CodesLeft'
    BY <1>1, <1>3, <1>4, <1>5, <1>7 DEF CodesLeft, Unused, Login!Steps
  <1> QED BY <1>6, <1>8

LEMMA ChangeEndsCodes ==
    ASSUME Login!SessionsAssumption, CInv, NEW b \in Browsers, Login!ChangeEnds(b)
    PROVE  CInv'
  <1> USE DEF CInv, CodeTypes
  <1>1. /\ device' = made /\ made' = made /\ now' = now /\ last' = now /\ codes' = Codes
        /\ version' = version + 1 /\ made > device /\ Login!Counted(now, made)
        /\ made \in 0..MaxDevices
    BY DEF Login!ChangeEnds, Login!Replacing, Login!NextVersion
  <1>2. Unused(made)
    BY <1>1 DEF Login!ChangeEnds, Login!Replacing, CodesLeft
  <1>3. /\ DOMAIN uses' = Login!Tokens
        /\ \A x \in Login!Tokens : x # <<now, made>> => uses'[x] = uses[x]
        /\ \A x \in Login!Tokens : uses'[x] \in {0, 1}
    BY <1>1, <1>2, CountedOnce DEF Unused
  <1>4. \A t \in Codes \cup Login!Steps, d \in 0..MaxDevices :
           d # made \/ t # now => uses'[<<t, d>>] = uses[<<t, d>>]
    BY <1>3 DEF Login!Tokens
  <1>5. DOMAIN change' = Browsers /\ \A q \in Browsers : change'[q] \in {change[q], Login!NoChange}
    BY DEF Login!ChangeEnds, Login!Become
  <1>6. Codes \cap Login!Steps = {}
    BY DEF Login!SessionsAssumption, Login!Steps
  <1>7. CodeTypes'
    BY <1>1, <1>3, <1>5 DEF Login!NoChange, Login!Steps
  <1>8. CodesLeft'
    BY <1>1, <1>2, <1>3, <1>4, <1>5, <1>6 DEF CodesLeft, Unused, Login!NoChange, Login!Steps
  <1> QED BY <1>7, <1>8

\* Steps that accept no code: the version may grow, the authenticator may go.
LEMMA QuietCodes ==
    ASSUME Login!SessionsAssumption, CInv, UNCHANGED <<made, uses>>, now' \in Login!Steps,
           \/ UNCHANGED <<version, device, last, codes>>
           \/ version' = version + 1 /\ UNCHANGED <<device, last, codes>>
           \/ version' = version + 1 /\ device' = 0 /\ last' = 0 /\ codes' = {},
           DOMAIN change' = Browsers, \A q \in Browsers : change'[q] \in {change[q], Login!NoChange}
    PROVE  CInv'
  <1> USE DEF CInv, CodeTypes
  <1>1. CodeTypes'
    BY DEF Login!NoChange
  <1>2. CodesLeft'
    BY DEF CodesLeft, Unused, Login!NoChange
  <1> QED BY <1>1, <1>2

LEMMA CodesNext == ASSUME Login!SessionsAssumption PROVE CInv /\ [Login!Next]_(Login!vars) => CInv'
  <1> SUFFICES ASSUME CInv, [Login!Next]_(Login!vars) PROVE CInv'
    OBVIOUS
  <1> USE DEF Login!profile, Login!factor
  <1>0. now \in Login!Steps /\ DOMAIN change = Browsers
    BY DEF CInv, CodeTypes
  <1>1. CASE \E b \in Browsers : Login!CheckPassword(b) \/ Login!BeginLogin(b) \/ Login!VerifyExpired(b)
                                 \/ Login!Restart(b) \/ Login!Request(b) \/ Login!MfaExpires(b)
    <2>1. UNCHANGED <<made, uses, now, version, device, last, codes>>
          /\ DOMAIN change' = Browsers /\ \A q \in Browsers : change'[q] \in {change[q], Login!NoChange}
      BY <1>0, <1>1 DEF Login!CheckPassword, Login!BeginLogin, Login!VerifyExpired, Login!Request,
           Login!Restart, Login!MfaExpires, Login!Become
    <2> QED
      BY <1>0, <2>1, QuietCodes
  <1>2. CASE \E b \in Browsers : Login!PendingIdentity(b) \/ Login!VerifyFails(b) \/ Login!ChangeFails(b)
    BY <1>0, <1>2, QuietCodes DEF Login!PendingIdentity, Login!VerifyFails, Login!ChangeFails
  <1>3. CASE Login!ApplyUserChange \/ Login!RevokeSessions \/ Login!RecoverMfa
    BY <1>0, <1>3, QuietCodes DEF Login!ApplyUserChange, Login!RevokeSessions, Login!RecoverMfa
  <1>4. CASE Login!Tick
    <2>1. now' \in Login!Steps
      BY <1>0, <1>4 DEF Login!Tick, Login!Steps
    <2> QED
      BY <1>0, <1>4, <2>1, QuietCodes DEF Login!Tick
  <1>5. CASE UNCHANGED Login!vars
    BY <1>0, <1>5, QuietCodes DEF Login!vars
  <1> QED
    BY <1>1, <1>2, <1>3, <1>4, <1>5, EnrolCodes, FactorCodes, ChangeBeginsCodes, ChangeEndsCodes
       DEF Login!Next, Login!SignIn, Login!Verify

LEMMA CodesMean == CInv => Login!CodesAreUsedOnce
  BY DEF CInv, CodeTypes, CodesLeft, Login!CodesAreUsedOnce

\* No code is accepted twice, by whichever browser and for whichever purpose, nor a code of
\* an authenticator that was replaced or recovered (authentication.py).
THEOREM CodesOnce == ASSUME Login!SessionsAssumption PROVE Login!Spec => []Login!CodesAreUsedOnce
  BY CodesMean, CodesInit, CodesNext, PTL DEF Login!Spec

-----------------------------------------------------------------------------
LEMMA Bounds ==
    ASSUME Login!SessionsAssumption
    PROVE  /\ MaxPasswords \in Nat /\ MaxPasswords > 0 /\ MaxVersions \in Nat /\ MaxVersions > 0
           /\ MaxDevices \in Nat /\ MaxDevices > 0 /\ MaxTime \in Nat /\ MaxTime > 0
  BY DEF Login!SessionsAssumption

\* A code that is counted has its type; a session that is replaced has its own.
LEMMA CountedType ==
    ASSUME Login!TypeOK, NEW t \in Codes \cup Login!Steps, NEW d \in 0..MaxDevices, Login!Counted(t, d)
    PROVE  uses' \in [Login!Tokens -> 0..2]
  BY DEF Login!Counted, Login!TypeOK, Login!Tokens

LEMMA BecomeType ==
    ASSUME Login!TypeOK, NEW b \in Browsers, NEW s \in Login!Session, Login!Become(b, s), Login!SessionsAssumption
    PROVE  /\ session' \in [Browsers -> Login!Session]
           /\ change' \in [Browsers -> [device : 0..MaxDevices, version : 0..MaxVersions, hash : 0..MaxPasswords]]
  BY DEF Login!Become, Login!TypeOK, Login!NoChange, Login!SessionsAssumption

\* One browser's request.
LEMMA RequestType ==
    ASSUME Login!SessionsAssumption, Login!TypeOK, NEW b \in Browsers,
           \/ Login!SignIn(b) \/ Login!Request(b) \/ Login!MfaExpires(b) \/ Login!ChangeBegins(b) \/ Login!ChangeEnds(b) \/ Login!ChangeFails(b)
    PROVE  Login!TypeOK'
  <1> USE Bounds DEF Login!user, Login!profile, Login!factor, Login!Steps
  <1>1. /\ Login!Anonymous \in Login!Session /\ session[b] \in Login!Session
        /\ password \in 0..MaxPasswords /\ version \in 0..MaxVersions
    BY DEF Login!Anonymous, Login!Session, Login!TypeOK
  <1>2. CASE Login!CheckPassword(b)
    <2>1. [Login!Anonymous EXCEPT !.kind = "password", !.hash = password, !.proved = password] \in Login!Session
      BY <1>1 DEF Login!Session, Login!Anonymous
    <2> QED BY <1>2, <2>1, BecomeType DEF Login!CheckPassword, Login!TypeOK
  <1>3. CASE Login!BeginLogin(b)
    <2>1. [session[b] EXCEPT !.kind = "pending", !.version = version] \in Login!Session
      BY <1>1 DEF Login!Session
    <2> QED BY <1>3, <2>1, BecomeType DEF Login!BeginLogin, Login!TypeOK
  <1>4. CASE Login!PendingIdentity(b)
    BY <1>1, <1>4 DEF Login!PendingIdentity, Login!TypeOK
  <1>5. CASE Login!VerifyExpired(b) \/ Login!Restart(b) \/ Login!Request(b)
    BY <1>1, <1>5, BecomeType DEF Login!VerifyExpired, Login!Restart, Login!Request, Login!TypeOK
  <1>6. ASSUME NEW d \in 0..MaxDevices, Login!SignedIn(b, d)
        PROVE  /\ session' \in [Browsers -> Login!Session]
               /\ change' \in [Browsers -> [device : 0..MaxDevices, version : 0..MaxVersions, hash : 0..MaxPasswords]]
    <2>1. [session[b] EXCEPT !.kind = "in", !.version = version, !.hash = password, !.device = d] \in Login!Session
      BY <1>1 DEF Login!Session
    <2> QED BY <1>6, <2>1, BecomeType DEF Login!SignedIn
  <1>7. CASE Login!VerifyEnrols(b)
    <2>1. made + 1 \in 0..MaxDevices /\ now \in Codes \cup Login!Steps
      BY <1>7 DEF Login!VerifyEnrols, Login!TypeOK
    <2> QED BY <1>6, <1>7, <2>1, CountedType DEF Login!VerifyEnrols, Login!TypeOK
  <1>8. CASE Login!VerifyToken(b)
    <2>1. device \in 0..MaxDevices /\ now \in Codes \cup Login!Steps
      BY DEF Login!TypeOK
    <2> QED BY <1>6, <1>8, <2>1, CountedType DEF Login!VerifyToken, Login!TypeOK
  <1>9. CASE Login!VerifyRecovery(b)
    <2>1. PICK c \in codes : codes' = codes \ {c} /\ Login!Counted(c, device) /\ Login!SignedIn(b, device)
      BY <1>9 DEF Login!VerifyRecovery, Login!Rows
    <2>2. device \in 0..MaxDevices /\ c \in Codes \cup Login!Steps
      BY <2>1 DEF Login!TypeOK
    <2> QED BY <1>6, <1>9, <2>1, <2>2, CountedType DEF Login!VerifyRecovery, Login!TypeOK
  <1>10. CASE Login!VerifyFails(b) \/ Login!ChangeFails(b)
    BY <1>10 DEF Login!VerifyFails, Login!ChangeFails, Login!TypeOK
  <1>11. CASE Login!MfaExpires(b)
    <2>1. 0 \in 0..MaxDevices
      OBVIOUS
    <2>2. [session[b] EXCEPT !.kind = "pending", !.device = 0] \in Login!Session
      BY <1>1, <2>1 DEF Login!Session
    <2> QED BY <1>11, <2>2, BecomeType DEF Login!MfaExpires, Login!TypeOK
  <1>12. CASE Login!ChangeBegins(b)
    <2>1. device \in 0..MaxDevices /\ now \in Codes \cup Login!Steps
      BY DEF Login!TypeOK
    <2> QED BY <1>12, <2>1, CountedType DEF Login!ChangeBegins, Login!TypeOK
  <1>13. CASE Login!ChangeEnds(b)
    <2>1. change[b].device \in 0..MaxDevices /\ change[b].device = made /\ now \in Codes \cup Login!Steps
          /\ Login!NextVersion \in 0..MaxVersions
      BY <1>13 DEF Login!ChangeEnds, Login!Replacing, Login!NextVersion, Login!TypeOK
    <2>2. [session[b] EXCEPT !.version = Login!NextVersion, !.device = change[b].device] \in Login!Session
      BY <1>1, <2>1 DEF Login!Session, Login!TypeOK
    <2> QED BY <1>13, <2>1, <2>2, CountedType, BecomeType DEF Login!ChangeEnds, Login!NextVersion,
         Login!TypeOK
  <1> QED BY <1>2, <1>3, <1>4, <1>5, <1>7, <1>8, <1>9, <1>10, <1>11, <1>12, <1>13
       DEF Login!SignIn, Login!Verify

LEMMA LoginTypesNext == ASSUME Login!SessionsAssumption PROVE Login!TypeOK /\ [Login!Next]_(Login!vars) => Login!TypeOK'
  <1> SUFFICES ASSUME Login!TypeOK, [Login!Next]_(Login!vars) PROVE Login!TypeOK'
    OBVIOUS
  <1> USE Bounds DEF Login!user, Login!profile, Login!factor, Login!Steps
  <1>1. CASE Login!ApplyUserChange \/ Login!RevokeSessions
    BY <1>1 DEF Login!ApplyUserChange, Login!RevokeSessions, Login!TypeOK
  <1>3. CASE Login!RecoverMfa
    BY <1>3 DEF Login!RecoverMfa, Login!TypeOK
  <1>4. CASE Login!Tick
    <2>1. now' \in Login!Steps
      BY <1>4 DEF Login!Tick, Login!TypeOK
    <2>2. locked' \in BOOLEAN
      BY <1>4 DEF Login!Tick
    <2> QED BY <1>4, <2>1, <2>2 DEF Login!Tick, Login!TypeOK
  <1>2. CASE UNCHANGED Login!vars
    BY <1>2 DEF Login!vars, Login!TypeOK
  <1> QED BY <1>1, <1>2, <1>3, <1>4, RequestType DEF Login!Next

LEMMA LoginTypesInit == ASSUME Login!SessionsAssumption, Login!Init PROVE Login!TypeOK
  <1> USE Bounds DEF Login!Init, Login!TypeOK
  <1>1. Login!Anonymous \in Login!Session
    BY DEF Login!Anonymous, Login!Session
  <1>2. Login!NoChange \in [device : 0..MaxDevices, version : 0..MaxVersions, hash : 0..MaxPasswords]
    BY DEF Login!NoChange
  <1>3. Login!Unread \in [codes : SUBSET Codes, last : Login!Steps]
    BY DEF Login!Unread, Login!Steps
  <1>4.  password \in 1..MaxPasswords /\ version \in 1..MaxVersions /\ codes \subseteq Codes
    OBVIOUS
  <1>5. device \in 0..MaxDevices /\ last \in Login!Steps /\ made \in device..MaxDevices /\ now \in Login!Steps
    BY DEF Login!Steps
  <1>6. /\ session \in [Browsers -> Login!Session]
    /\ read \in [Browsers -> [codes : SUBSET Codes, last : Login!Steps]]
    /\ change \in [Browsers -> [device : 0..MaxDevices, version : 0..MaxVersions, hash : 0..MaxPasswords]]
    BY <1>1, <1>2, <1>3
  <1>7. uses \in [Login!Tokens -> 0..2]
    OBVIOUS
  <1> QED BY <1>4, <1>5, <1>6, <1>7

\* The user's rows, the sessions and the history keep their types.
THEOREM LoginTypes == ASSUME Login!SessionsAssumption PROVE Login!Spec => []Login!TypeOK
  BY LoginTypesInit, LoginTypesNext, PTL DEF Login!Spec

-----------------------------------------------------------------------------
(* Users and invitations.                                                   *)

\* The types the proofs rest on: who a request is from, and what it asks.
RequestTypes ==
    /\ request \in [Clients -> Access!Request]
    /\ invitation \in [Tokens -> Access!Invitation]

\* A request that accepts an invitation holds its row: no other does, and nobody is admitted
\* on it yet.
HoldsRow ==
    \A r \in Clients : request[r].kind = "accept" =>
       /\ request[r].token \in Tokens
       /\ admitted[request[r].token] = 0
       /\ \A q \in Clients : request[q].kind = "accept" /\ request[q].token = request[r].token => q = r

\* An invitation that admitted somebody is accepted for good.
Spent ==
    /\ admitted \in [Tokens -> {0, 1}]
    /\ \A t \in Tokens : admitted[t] = 1 => invitation[t].state = "accepted"

\* The lock of the administrator changes: one request at a time is past its check.
OneChanges == \A q, r \in Clients : Access!Changes(q) /\ Access!Changes(r) => q = r

AccessInv == RequestTypes /\ HoldsRow /\ Spent /\ OneChanges

-----------------------------------------------------------------------------
\* What a request is, by its kind.
LEMMA RequestKinds ==
    ASSUME NEW q \in Access!Request
    PROVE  /\ q.kind \in {"idle", "administer", "change", "accept"}
           /\ q.kind = "accept" => q.by \in Users /\ q.token \in Tokens
           /\ q.kind \in {"administer", "change"} => q.by \in Users
  BY DEF Access!Request, Access!NoRequest

\* No request and no invitation is prepared in the initial state.
LEMMA AccessInvInit == Access!Init => AccessInv
  <1> SUFFICES ASSUME Access!Init PROVE AccessInv
    OBVIOUS
  <1>1. RequestTypes
    BY DEF Access!Init, RequestTypes, Access!Request, Access!NoRequest, Access!Invitation
  <1>2. HoldsRow
    BY DEF Access!Init, HoldsRow, Access!NoRequest
  <1>3. Spent
    BY DEF Access!Init, Spent
  <1>4. OneChanges
    BY DEF Access!Init, OneChanges, Access!Changes, Access!NoRequest
  <1> QED BY <1>1, <1>2, <1>3, <1>4 DEF AccessInv

\* A client that is answered, whatever it asked.
LEMMA AnswerInv ==
    ASSUME RequestTypes, HoldsRow, NEW r \in Clients, Access!Answer(r)
    PROVE  /\ request' \in [Clients -> Access!Request]
           /\ request'[r].kind = "idle"
           /\ \A q \in Clients : request'[q].kind \in {"accept", "change"} => q # r /\ request'[q] = request[q]
  BY DEF RequestTypes, Access!Answer, Access!NoRequest, Access!Request

\* A client that is answered takes nobody's lock.
LEMMA AnswerChanges ==
    ASSUME RequestTypes, HoldsRow, OneChanges, NEW r \in Clients, Access!Answer(r)
    PROVE  OneChanges'
  BY AnswerInv DEF OneChanges, Access!Changes

\* The administration's requests: only a deletion writes an invitation, which stays accepted.
LEMMA AdministerInv ==
    ASSUME AccessInv, NEW r \in Clients, NEW u \in Users,
           \/ Access!BeginAdminister(r, u) \/ Access!TakeLock(r)
           \/ Access!SaveUser(r, u) \/ Access!DeleteUser(r, u)
    PROVE  AccessInv'
  <1>1. CASE Access!BeginAdminister(r, u)
    <2>1. request' \in [Clients -> Access!Request]
      BY <1>1 DEF Access!BeginAdminister, AccessInv, RequestTypes, Access!Request
    <2> QED
      BY <1>1, <2>1 DEF Access!BeginAdminister, AccessInv, RequestTypes, HoldsRow, Spent, OneChanges, Access!Changes
  <1>4. CASE Access!TakeLock(r)
    <2>1. request[r] \in Access!Request /\ request[r].kind = "administer"
      BY <1>4 DEF Access!TakeLock, AccessInv, RequestTypes
    <2>2. [request[r] EXCEPT !.kind = "change"] \in Access!Request
          /\ [request[r] EXCEPT !.kind = "change"].kind = "change"
      BY <2>1 DEF Access!Request, Access!NoRequest
    <2>3. request' \in [Clients -> Access!Request] /\ request'[r].kind = "change"
          /\ \A q \in Clients : q # r => request'[q] = request[q]
      BY <1>4, <2>2 DEF Access!TakeLock, AccessInv, RequestTypes
    <2>4. OneChanges'
      BY <1>4, <2>3 DEF Access!TakeLock, OneChanges, Access!Changes
    <2> QED
      BY <1>4, <2>3, <2>4 DEF Access!TakeLock, AccessInv, RequestTypes, HoldsRow, Spent
  <1>2. CASE Access!SaveUser(r, u)
    <2>1. Access!Answer(r) /\ UNCHANGED <<invitation, admitted>>
      BY <1>2 DEF Access!SaveUser
    <2> QED
      BY <2>1, AnswerInv, AnswerChanges DEF AccessInv, RequestTypes, HoldsRow, Spent
  <1>3. CASE Access!DeleteUser(r, u)
    <2>1. Access!Answer(r) /\ UNCHANGED admitted
      BY <1>3 DEF Access!DeleteUser
    <2>2. invitation' \in [Tokens -> Access!Invitation]
          /\ \A t \in Tokens : invitation[t].state = "accepted" => invitation'[t].state = "accepted"
      BY <1>3 DEF Access!DeleteUser, AccessInv, RequestTypes, Access!Invitation
    <2> QED
      BY <2>1, <2>2, AnswerInv, AnswerChanges DEF AccessInv, RequestTypes, HoldsRow, Spent
  <1> QED BY <1>1, <1>2, <1>3, <1>4

\* The invitation: its row is taken when nobody else has it.
LEMMA BeginAcceptInv ==
    ASSUME AccessInv, NEW r \in Clients, NEW u \in Users, NEW t \in Tokens, Access!BeginAccept(r, u, t)
    PROVE  AccessInv'
  <1>1. request' \in [Clients -> Access!Request]
        /\ request'[r] = [kind |-> "accept", by |-> u, token |-> t]
        /\ \A q \in Clients : q # r => request'[q] = request[q]
    BY DEF Access!BeginAccept, AccessInv, RequestTypes, Access!Request
  <1>2. admitted[t] = 0
    BY DEF Access!BeginAccept, AccessInv, Spent
  <1>3. \A q \in Clients : request[q].kind = "accept" => request[q].token # t
    BY DEF Access!BeginAccept, Access!RowFree
  <1>4. OneChanges'
    BY <1>1 DEF AccessInv, OneChanges, Access!Changes
  <1> QED
    BY <1>1, <1>2, <1>3, <1>4 DEF Access!BeginAccept, AccessInv, RequestTypes, HoldsRow, Spent

LEMMA AcceptInv == ASSUME AccessInv, NEW r \in Clients, Access!Accept(r) PROVE AccessInv'
  <1> DEFINE t == request[r].token
  <1>1. t \in Tokens /\ admitted[t] = 0
    BY DEF Access!Accept, AccessInv, HoldsRow
  <1>2. admitted' = [admitted EXCEPT ![t] = 1]
    BY <1>1 DEF Access!Accept, AccessInv, Spent
  <1>3. invitation' = [invitation EXCEPT ![t].state = "accepted"]
    BY DEF Access!Accept
  <1>4. invitation' \in [Tokens -> Access!Invitation]
        /\ invitation'[t].state = "accepted"
        /\ \A s \in Tokens : s # t => invitation'[s] = invitation[s]
    BY <1>1, <1>3 DEF AccessInv, RequestTypes, Access!Invitation
  <1>5. Access!Answer(r)
    BY DEF Access!Accept
  <1>6. \A q \in Clients : request'[q].kind = "accept" => request'[q].token # t
    BY <1>5, AnswerInv DEF AccessInv, HoldsRow, Access!Accept
  <1> HIDE DEF t
  <1>7. RequestTypes'
    BY <1>4, <1>5, AnswerInv DEF AccessInv, RequestTypes
  <1>8. HoldsRow'
    <2> SUFFICES ASSUME NEW q \in Clients, request'[q].kind = "accept"
                 PROVE  /\ request'[q].token \in Tokens
                        /\ admitted'[request'[q].token] = 0
                        /\ \A o \in Clients : request'[o].kind = "accept"
                                              /\ request'[o].token = request'[q].token => o = q
      BY DEF HoldsRow
    <2>1. \A o \in Clients : request'[o].kind = "accept" => request'[o] = request[o]
      BY <1>5, AnswerInv DEF AccessInv
    <2> QED
      BY <2>1, <1>2, <1>6 DEF AccessInv, HoldsRow, Spent
  <1>9. Spent'
    BY <1>1, <1>2, <1>4 DEF AccessInv, Spent
  <1> QED
    BY <1>5, <1>7, <1>8, <1>9, AnswerChanges DEF AccessInv

\* Preparing an invitation and its expiry leave accepted ones alone.
LEMMA InvitationInv ==
    ASSUME AccessInv, NEW t \in Tokens, Access!Invite(t) \/ Access!InvitationExpires(t)
    PROVE  AccessInv'
  <1>1. invitation' \in [Tokens -> Access!Invitation]
    <2>1. CASE Access!Invite(t)
      <3>1. PICK u \in Users : invitation' = [invitation EXCEPT ![t].target = u, ![t].state = "open"]
        BY <2>1 DEF Access!Invite
      <3> QED
        BY <3>1 DEF AccessInv, RequestTypes, Access!Invitation
    <2>2. CASE Access!InvitationExpires(t)
      BY <2>2 DEF Access!InvitationExpires, AccessInv, RequestTypes, Access!Invitation
    <2> QED BY <2>1, <2>2
  <1>2. \A s \in Tokens : invitation[s].state = "accepted" => invitation'[s] = invitation[s]
    BY DEF Access!Invite, Access!InvitationExpires, AccessInv, RequestTypes, Access!Invitation
  <1> QED
    BY <1>1, <1>2
       DEF Access!Invite, Access!InvitationExpires, AccessInv, RequestTypes, HoldsRow, Spent, OneChanges, Access!Changes

LEMMA RequestEndsInv == ASSUME AccessInv, NEW r \in Clients, Access!RequestEnds(r) PROVE AccessInv'
  BY AnswerInv, AnswerChanges DEF Access!RequestEnds, AccessInv, RequestTypes, HoldsRow, Spent

\* The administration command, offboarding and reactivating write neither requests nor invitations.
LEMMA CommandInv == ASSUME AccessInv, UNCHANGED <<invitation, request, admitted>> PROVE AccessInv'
  BY DEF AccessInv, RequestTypes, HoldsRow, Spent, OneChanges, Access!Changes

LEMMA AccessInvNext == AccessInv /\ [Access!Next]_(Access!vars) => AccessInv'
  <1> SUFFICES ASSUME AccessInv, [Access!Next]_(Access!vars) PROVE AccessInv'
    OBVIOUS
  <1>1. CASE \E r \in Clients : Access!RequestEnds(r) \/ Access!Accept(r)
    BY <1>1, RequestEndsInv, AcceptInv
  <1>2. CASE \E r \in Clients, u \in Users :
               \/ Access!BeginAdminister(r, u) \/ Access!TakeLock(r)
               \/ Access!SaveUser(r, u) \/ Access!DeleteUser(r, u)
    BY <1>2, AdministerInv
  <1>3. CASE \E r \in Clients, u \in Users, t \in Tokens : Access!BeginAccept(r, u, t)
    BY <1>3, BeginAcceptInv
  <1>4. CASE \E u \in Users : Access!SetPortfolio(u)
               \/ \E c \in Customers : Access!Grant(u, c) \/ Access!SupportAccess(u, c) \/ Access!WindowEnds(u, c)
    BY <1>4, CommandInv DEF Access!SetPortfolio, Access!Grant, Access!SupportAccess, Access!WindowEnds
  <1>5. CASE \E t \in Tokens : Access!Invite(t) \/ Access!InvitationExpires(t)
    BY <1>5, InvitationInv
  <1>6. CASE UNCHANGED Access!vars
    BY <1>6, CommandInv DEF Access!vars
  <1>7. CASE \E c \in Customers : Access!Offboard(c) \/ Access!Reactivate(c)
    BY <1>7, CommandInv DEF Access!Offboard, Access!Reactivate
  <1>8. CASE \E r \in Clients : Access!TakeLock(r)
    <2>1. PICK r \in Clients : Access!TakeLock(r)
      BY <1>8
    <2>2. request[r].by \in Users
      BY <2>1, RequestKinds DEF Access!TakeLock, AccessInv, RequestTypes
    <2> QED BY <2>1, <2>2, AdministerInv
  <1> QED
    BY <1>1, <1>2, <1>3, <1>4, <1>5, <1>6, <1>7, <1>8 DEF Access!Next

LEMMA AccessInvariance == Access!Spec => []AccessInv
  BY AccessInvInit, AccessInvNext, PTL DEF Access!Spec

\* The memberships, the users and the active customers, which the requests and the command write.
Rows ==
    /\ people \in [Users -> Access!User]
    /\ member \in [Users \X Customers -> Access!Member]
    /\ serving \subseteq Customers

LEMMA RowTypes == ASSUME AccessInv, Rows, [Access!Next]_(Access!vars) PROVE Rows'
  <1> USE DEF Rows, Access!User, Access!Member, Access!MemberRoles, Access!NoMember, Access!Inactive
  <1>1. CASE UNCHANGED <<people, member, serving>>
    BY <1>1
  <1>2. CASE \E r \in Clients, u \in Users : Access!SaveUser(r, u)
    <2> PICK r \in Clients, u \in Users : Access!SaveUser(r, u)
      BY <1>2
    <2>1. PICK admin \in BOOLEAN, active \in BOOLEAN,
               role \in {"operator", "viewer"}, granted \in SUBSET serving :
            /\ people' = [people EXCEPT ![u] = [exists |-> TRUE, active |-> active, superuser |-> admin,
                                            portfolio |-> admin, external |-> FALSE]]
            /\ member' = Access!Granted(u, role, granted)
      BY DEF Access!SaveUser
    <2>2. people' \in [Users -> Access!User]
      BY <2>1
    <2>3. Access!Granted(u, role, granted) \in [Users \X Customers -> Access!Member]
      BY DEF Access!Granted
    <2> QED
      BY <2>1, <2>2, <2>3 DEF Access!SaveUser
  <1>3. CASE \E r \in Clients, u \in Users : Access!DeleteUser(r, u)
    <2>1. PICK u \in Users :
            /\ people' = [people EXCEPT ![u] = Access!Gone]
            /\ member' = [m \in Users \X Customers |-> IF m[1] = u THEN Access!NoMember ELSE member[m]]
            /\ serving' = serving
      BY <1>3 DEF Access!DeleteUser
    <2> QED
      BY <2>1 DEF Access!Gone
  <1>4. CASE \E u \in Users : Access!SetPortfolio(u)
    BY <1>4 DEF Access!SetPortfolio
  <1>5. CASE \E u \in Users, c \in Customers : Access!Grant(u, c) \/ Access!SupportAccess(u, c) \/ Access!WindowEnds(u, c)
    <2>1. PICK u \in Users, c \in Customers : Access!Grant(u, c) \/ Access!SupportAccess(u, c) \/ Access!WindowEnds(u, c)
      BY <1>5
    <2>2. people' = people /\ serving' = serving /\ <<u, c>> \in Users \X Customers
      BY <2>1 DEF Access!Grant, Access!SupportAccess, Access!WindowEnds
    <2>3. \E m \in Access!Member : member' = [member EXCEPT ![<<u, c>>] = m]
      <3>1. member[<<u, c>>] \in Access!Member
        BY <2>2
      <3>2. CASE Access!Grant(u, c)
        <4>1. CASE \E role \in Access!MemberRoles :
                     member' = [member EXCEPT ![<<u, c>>].role = role, ![<<u, c>>].active = TRUE]
          <5>1. PICK role \in Access!MemberRoles :
                  member' = [member EXCEPT ![<<u, c>>].role = role, ![<<u, c>>].active = TRUE]
            BY <4>1
          <5> DEFINE k == <<u, c>>
                     granting == [member EXCEPT ![k] = [@ EXCEPT !.role = role]]
          <5>2. member' = [granting EXCEPT ![k] = [@ EXCEPT !.active = TRUE]]
            BY <5>1
          <5>3. granting[k] = [member[k] EXCEPT !.role = role]
            BY <2>2
          <5>4. [granting[k] EXCEPT !.active = TRUE] \in Access!Member
            BY <3>1, <5>3
          <5>5. member' = [member EXCEPT ![k] = [granting[k] EXCEPT !.active = TRUE]]
            BY <2>2, <5>2
          <5> HIDE DEF granting
          <5> QED BY <5>4, <5>5
        <4>2. CASE member' = [member EXCEPT ![<<u, c>>] = Access!Inactive(@.window)]
          BY <3>1, <4>2
        <4> QED BY <3>2, <4>1, <4>2 DEF Access!Grant
      <3>3. CASE Access!SupportAccess(u, c)
        BY <3>3 DEF Access!SupportAccess
      <3>4. CASE Access!WindowEnds(u, c)
        <4>1. member' = [member EXCEPT ![<<u, c>>] = [@ EXCEPT !.window = "over"]]
          BY <3>4 DEF Access!WindowEnds
        <4> QED BY <3>1, <4>1
      <3> QED BY <2>1, <3>2, <3>3, <3>4
    <2> QED
      BY <2>2, <2>3
  <1>6. CASE \E r \in Clients : Access!Accept(r)
    <2>1. PICK r \in Clients : Access!Accept(r)
      BY <1>6
    <2>2. request[r].by \in Users /\ request[r].token \in Tokens
      BY <2>1, RequestKinds DEF Access!Accept, AccessInv, RequestTypes
    <2>3. invitation[request[r].token].customer \in Customers
      BY <2>2 DEF AccessInv, RequestTypes, Access!Invitation
    <2> DEFINE u == request[r].by
               m == <<u, invitation[request[r].token].customer>>
    <2>4. people' = [people EXCEPT ![u].external = TRUE]
          /\ member' = [member EXCEPT ![m] = [role |-> "customer", active |-> TRUE, window |-> "none"]]
      BY <2>1 DEF Access!Accept
    <2>5. u \in Users /\ m \in Users \X Customers
      BY <2>2, <2>3
    <2> HIDE DEF u, m
    <2>6. serving' = serving
      BY <2>1 DEF Access!Accept
    <2> QED
      BY <2>4, <2>5, <2>6
  <1>7. CASE \E c \in Customers : Access!Offboard(c) \/ Access!Reactivate(c)
    <2>1. CASE \E c \in Customers : Access!Reactivate(c)
      BY <2>1 DEF Access!Reactivate
    <2>2. CASE \E c \in Customers : Access!Offboard(c)
      <3>1. PICK c \in Customers :
              /\ member' = [m \in Users \X Customers |->
                              IF m[2] = c THEN Access!Inactive(member[m].window) ELSE member[m]]
              /\ serving' = serving \ {c} /\ people' = people
        BY <2>2 DEF Access!Offboard
      <3>2. \A m \in Users \X Customers : member[m] \in Access!Member /\ Access!Inactive(member[m].window) \in Access!Member
        OBVIOUS
      <3> QED
        BY <3>1, <3>2
    <2> QED
      BY <1>7, <2>1, <2>2
  <1> QED
    BY <1>1, <1>2, <1>3, <1>4, <1>5, <1>6, <1>7
       DEF Access!Next, Access!vars, Access!RequestEnds, Access!BeginAdminister, Access!TakeLock, Access!BeginAccept,
           Access!Invite, Access!InvitationExpires

LEMMA RowsInit == Access!Init => Rows
  BY DEF Rows, Access!Init, Access!User, Access!Member, Access!MemberRoles, Access!NoMember, Access!Inactive

LEMMA RowsMean == AccessInv /\ Rows => Access!TypeOK
  BY DEF AccessInv, Rows, RequestTypes, Spent, Access!TypeOK

\* Users, memberships, invitations, requests and the history keep their types.
THEOREM AccessTypes == Access!Spec => []Access!TypeOK
  BY RowsMean, RowsInit, RowTypes, AccessInvariance, PTL DEF Access!Spec

-----------------------------------------------------------------------------
\* A one-use token lets its user in once, however many requests present it (portal.py).
THEOREM AdmittedOnce == Access!Spec => []Access!InvitationAdmitsOnce
  <1>1. AccessInv => Access!InvitationAdmitsOnce
    BY DEF AccessInv, Spent, Access!InvitationAdmitsOnce
  <1> QED BY <1>1, AccessInvariance, PTL

\* The administrator who saves or deletes a user still is one afterwards.
LEMMA ActorRemains ==
    ASSUME AccessInv, NEW r \in Clients, NEW u \in Users, Access!SaveUser(r, u) \/ Access!DeleteUser(r, u),
           ~Access!Stripped(r)
    PROVE  \E a \in Users : Access!Admin(a)'
  <1> DEFINE a == request[r].by
  <1>1. a \in Users
    BY RequestKinds DEF AccessInv, RequestTypes, Access!SaveUser, Access!DeleteUser, Access!Changes
  <1>2. Access!Admin(a)
    BY DEF Access!SaveUser, Access!DeleteUser, Access!Stripped
  <1> HIDE DEF a
  <1>3. CASE Access!DeleteUser(r, u)
    <2>1. a # u /\ people' = [people EXCEPT ![u] = Access!Gone]
      BY <1>3 DEF Access!DeleteUser, a
    <2> QED
      BY <1>1, <1>2, <2>1 DEF Access!Admin
  <1>4. CASE Access!SaveUser(r, u)
    <2>1. PICK admin \in BOOLEAN, active \in BOOLEAN :
            /\ u = a => active /\ admin
            /\ people' = [people EXCEPT ![u] = [exists |-> TRUE, active |-> active, superuser |-> admin,
                                            portfolio |-> admin, external |-> FALSE]]
      BY <1>4 DEF Access!SaveUser, a
    <2> QED
      BY <1>1, <1>2, <2>1 DEF Access!Admin
  <1> QED BY <1>3, <1>4

\* A request gets past its check as an administrator's, and no change of another one comes
\* between: it would need the lock.
LEMMA StripsNobody ==
    ASSUME AccessInv, Access!Next, NEW r \in Clients, Access!Stripped(r)', ~Access!Stripped(r),
           ~\E u \in Users : Access!SetPortfolio(u), ~\E q \in Clients : Access!Accept(q)
    PROVE  FALSE
  <1>1. CASE \E q \in Clients, u \in Users : Access!SaveUser(q, u) \/ Access!DeleteUser(q, u)
    <2>1. PICK q \in Clients : Access!Answer(q) /\ Access!Changes(q)
      BY <1>1 DEF Access!SaveUser, Access!DeleteUser
    <2>2. q # r /\ request'[r] = request[r]
      BY <2>1, AnswerInv DEF AccessInv, Access!Stripped, Access!Changes
    <2> QED
      BY <2>1, <2>2 DEF AccessInv, OneChanges, Access!Stripped, Access!Changes
  <1>2. CASE \E q \in Clients : Access!TakeLock(q)
    <2>1. PICK q \in Clients : Access!TakeLock(q)
      BY <1>2
    <2>2. request' = [request EXCEPT ![q].kind = "change"] /\ people' = people /\ Access!Admin(request[q].by)
      BY <2>1 DEF Access!TakeLock, Access!StillAdmin
    <2>3. request[q] \in Access!Request /\ request[q].kind = "administer" /\ q \in DOMAIN request
      BY <2>1 DEF Access!TakeLock, AccessInv, RequestTypes
    <2>4. request'[q].by = request[q].by
      BY <2>2, <2>3 DEF Access!Request, Access!NoRequest
    <2>5. q # r => request'[r] = request[r]
      BY <2>2 DEF AccessInv, RequestTypes
    <2> QED
      BY <2>2, <2>4, <2>5 DEF Access!Stripped, Access!Changes, Access!Admin
  <1>3. CASE \E q \in Clients : Access!RequestEnds(q)
    BY <1>3, AnswerInv DEF Access!RequestEnds, AccessInv, Access!Stripped, Access!Changes, Access!Admin
  <1>4. CASE \E q \in Clients, u \in Users :
               Access!BeginAdminister(q, u) \/ \E t \in Tokens : Access!BeginAccept(q, u, t)
    BY <1>4 DEF Access!BeginAdminister, Access!BeginAccept, AccessInv, RequestTypes, Access!Stripped, Access!Changes, Access!Admin
  <1>5. CASE UNCHANGED <<people, request>>
    BY <1>5 DEF Access!Stripped, Access!Changes, Access!Admin
  <1> QED
    BY <1>1, <1>2, <1>3, <1>4, <1>5
       DEF Access!Next, Access!Grant, Access!SupportAccess, Access!WindowEnds,
           Access!Invite, Access!InvitationExpires, Access!Offboard, Access!Reactivate

\* Every other step leaves the users alone, or is one of the two exceptions.
LEMMA StepKeepsAdministrator == ASSUME AccessInv, [Access!Next]_(Access!vars) PROVE [Access!AdministratorRemains]_(Access!vars)
  <1> SUFFICES ASSUME Access!Next, ~\E u \in Users : Access!SetPortfolio(u), ~\E r \in Clients : Access!Accept(r)
               PROVE  Access!AdministratorRemains
    BY DEF Access!AdministratorRemains
  <1>1. ASSUME \E u \in Users : Access!Admin(u), ~(\E u \in Users : Access!Admin(u))'
        PROVE  \E r \in Clients : Access!Stripped(r)
    <2>1. CASE \E r \in Clients, u \in Users : Access!SaveUser(r, u) \/ Access!DeleteUser(r, u)
      BY <1>1, <2>1, ActorRemains
    <2>2. CASE people' = people
      BY <1>1, <2>2 DEF Access!Admin
    <2> QED
      BY <2>1, <2>2
         DEF Access!Next, Access!RequestEnds, Access!BeginAdminister, Access!TakeLock, Access!BeginAccept, Access!Grant,
             Access!SupportAccess, Access!WindowEnds, Access!Invite, Access!InvitationExpires, Access!Offboard, Access!Reactivate
  <1> QED
    BY <1>1, StripsNobody DEF Access!AdministratorRemains

\* The web never leaves the installation without an administrator, whoever removes whom at
\* the same time (user_administration.py and its guarded functions).
THEOREM AdministratorStays == Access!Spec => [][Access!AdministratorRemains]_(Access!vars)
  BY AccessInvariance, StepKeepsAdministrator, PTL DEF Access!Spec

-----------------------------------------------------------------------------
(* The setup of the activation worker.                                      *)

\* What an installer has done when it is at a step, and what it and the worker are about to write.
WorkerInv ==
    /\ Worker!TypeOK /\ Worker!RolesArePreserved /\ Worker!BackupsAreOriginals /\ Worker!UnitIsLast
    /\ installer.at = "copying env" => named = "given"
    /\ installer.at \notin {"idle", "env"} => copies["env"] # Worker!Absent
    /\ installer.at = "copying hba" => hba = "original"
    /\ installer.at \notin {"idle", "env", "copying env", "hba"} => copies["hba"] # Worker!Absent
    /\ installer.at = "put" => Given \cup approved \subseteq installer.roles
    /\ installer.at = "switch" => "list" \in installed
    /\ installer.at \in {"activation", "rule", "writing", "signal", "unit"} => named = "kept"
    /\ installer.at \in {"rule", "writing", "signal", "unit"} => "activation.env" \in installed
    /\ installer.at \in {"writing", "signal", "unit"} => hba # "original"
    /\ adder.at = "merging" => Given \cup approved \subseteq adder.roles
    /\ adder.at # "off" => "unit" \in installed
    /\ "list" \notin installed => approved = {}

LEMMA WorkerInit == ASSUME Worker!WorkerSetupAssumption PROVE Worker!Init => WorkerInv
  <1> SUFFICES ASSUME Worker!Init PROVE WorkerInv
    OBVIOUS
  <1>1. installs \in 0..MaxInstalls /\ copies \in [Worker!Files -> {Worker!Absent}]
    BY DEF Worker!WorkerSetupAssumption, Worker!Init
  <1>2. Worker!TypeOK
    BY <1>1 DEF Worker!Init, Worker!Ended, Worker!Resting, Worker!Steps, Worker!TypeOK
  <1>3. \A f \in Worker!Files : copies[f] = "absent"
    BY <1>1 DEF Worker!Absent
  <1> QED BY <1>2, <1>3 DEF Worker!Init, Worker!Ended, Worker!Resting, WorkerInv,
          Worker!RolesArePreserved, Worker!BackupsAreOriginals, Worker!UnitIsLast

\* The installer moves on, or ends, without a change to what it installs.
LEMMA InstallerStep ==
    ASSUME WorkerInv, Worker!WorkerSetupAssumption,
           Worker!Begin \/ Worker!ReadRoles \/ Worker!HasRule \/ Worker!Dies
    PROVE  WorkerInv'
  <1>1. CASE Worker!Begin
    <2>1. installs' \in 0..MaxInstalls
      BY <1>1 DEF Worker!Begin, WorkerInv, Worker!TypeOK, Worker!WorkerSetupAssumption
    <2> QED BY <1>1, <2>1 DEF Worker!Begin, WorkerInv, Worker!TypeOK, Worker!RolesArePreserved,
            Worker!Steps, Worker!BackupsAreOriginals, Worker!UnitIsLast, Worker!Ended
  <1>2. CASE Worker!ReadRoles
    <2>1. Worker!Union \subseteq Arns /\ Given \cup approved \subseteq Worker!Union
      BY <1>2 DEF Worker!ReadRoles, Worker!Union, WorkerInv, Worker!TypeOK, Worker!RolesArePreserved,
         Worker!WorkerSetupAssumption
    <2> QED BY <1>2, <2>1 DEF Worker!ReadRoles, WorkerInv, Worker!TypeOK, Worker!RolesArePreserved,
            Worker!BackupsAreOriginals, Worker!UnitIsLast, Worker!Steps
  <1>3. CASE Worker!HasRule
    BY <1>3 DEF Worker!HasRule, WorkerInv, Worker!TypeOK, Worker!RolesArePreserved,
       Worker!BackupsAreOriginals, Worker!UnitIsLast, Worker!Steps
  <1>4. CASE Worker!Dies
    BY <1>4 DEF Worker!Dies, WorkerInv, Worker!TypeOK, Worker!RolesArePreserved,
       Worker!BackupsAreOriginals, Worker!UnitIsLast, Worker!Steps, Worker!Ended
  <1> QED BY <1>1, <1>2, <1>3, <1>4

\* A file is copied as it was before the installer changed it.
LEMMA CopyStep ==
    ASSUME WorkerInv, NEW f \in Worker!Files, NEW copying, NEW after,
           \/ f = "env" /\ copying = "copying env" /\ after = "hba"
           \/ f = "hba" /\ copying = "copying hba" /\ after = "read",
           Worker!Copy(f, copying, after)
    PROVE  WorkerInv'
  <1>1. PICK to \in {copying, after}, c \in {copies[f], "cut", "original"} :
          /\ installer' = [installer EXCEPT !.at = to] /\ copies' = [copies EXCEPT ![f] = c]
          /\ c = "absent" => to = copying
          /\ to = copying => copies[f] = "absent" /\ c = "cut"
    <2>1. copies = [copies EXCEPT ![f] = copies[f]] /\ copies[f] # "changed"
      BY DEF WorkerInv, Worker!TypeOK, Worker!BackupsAreOriginals
    <2>2. installer.at = copying => Worker!AsFound(f) = "original"
      BY DEF Worker!AsFound, WorkerInv
    <2> QED BY <2>1, <2>2 DEF Worker!Copy, Worker!Absent
  <1>2. \A g \in Worker!Files : copies'[g] = IF g = f THEN c ELSE copies[g]
    BY <1>1 DEF WorkerInv, Worker!TypeOK
  <1>3. /\ installer' \in [at : Worker!Steps, roles : SUBSET Arns, whole : BOOLEAN] /\ installer'.at = to
        /\ copies' \in [Worker!Files -> {Worker!Absent, "cut", "original", "changed"}]
    BY <1>1 DEF WorkerInv, Worker!TypeOK, Worker!Steps
  <1>4. /\ Worker!TypeOK' /\ Worker!RolesArePreserved' /\ Worker!UnitIsLast'
        /\ UNCHANGED <<named, list, hba, loaded, installed, adder, approved>>
    BY <1>3 DEF Worker!Copy, WorkerInv, Worker!TypeOK, Worker!RolesArePreserved, Worker!UnitIsLast
  <1>5. c # "changed" /\ (copies[f] # "absent" => c # "absent")
    BY <1>1 DEF WorkerInv, Worker!BackupsAreOriginals
  <1>6. Worker!BackupsAreOriginals'
    BY <1>2, <1>4, <1>5 DEF WorkerInv, Worker!BackupsAreOriginals, Worker!Files, Worker!Absent
  <1>7. installer.at \in {f, copying}
    BY DEF Worker!Copy
  <1>8. CASE f = "env"
    BY <1>1, <1>2, <1>3, <1>4, <1>6, <1>7, <1>8 DEF WorkerInv, Worker!BackupsAreOriginals, Worker!Absent,
       Worker!TypeOK, Worker!Files
  <1>9. CASE f = "hba"
    BY <1>1, <1>2, <1>3, <1>4, <1>6, <1>7, <1>9 DEF WorkerInv, Worker!BackupsAreOriginals, Worker!Absent,
       Worker!TypeOK, Worker!Files
  <1> QED BY <1>8, <1>9 DEF Worker!Files

\* The installer changes a file of the host.
LEMMA InstallStep ==
    ASSUME WorkerInv,
           \/ Worker!Put \/ Worker!Switch \/ Worker!Activate \/ Worker!Truncate \/ Worker!WriteRule
           \/ Worker!Signal \/ Worker!InstallUnit
    PROVE  WorkerInv'
  <1>1. CASE Worker!Put
    BY <1>1 DEF Worker!Put, WorkerInv, Worker!TypeOK, Worker!RolesArePreserved,
       Worker!BackupsAreOriginals, Worker!UnitIsLast, Worker!Steps
  <1>2. CASE Worker!Switch
    BY <1>2 DEF Worker!Switch, WorkerInv, Worker!TypeOK, Worker!RolesArePreserved,
       Worker!BackupsAreOriginals, Worker!UnitIsLast, Worker!Steps
  <1>3. CASE Worker!Activate
    BY <1>3 DEF Worker!Activate, WorkerInv, Worker!TypeOK, Worker!RolesArePreserved,
       Worker!BackupsAreOriginals, Worker!UnitIsLast, Worker!Steps
  <1>4. CASE Worker!Truncate \/ Worker!WriteRule \/ Worker!Signal
    BY <1>4 DEF Worker!Truncate, Worker!WriteRule, Worker!Signal, WorkerInv, Worker!TypeOK,
       Worker!RolesArePreserved, Worker!BackupsAreOriginals, Worker!UnitIsLast, Worker!Steps
  <1>5. CASE Worker!InstallUnit
    BY <1>5 DEF Worker!InstallUnit, WorkerInv, Worker!TypeOK, Worker!RolesArePreserved,
       Worker!BackupsAreOriginals, Worker!UnitIsLast, Worker!Steps, Worker!Ended
  <1> QED BY <1>1, <1>2, <1>3, <1>4, <1>5

LEMMA AdderStep ==
    ASSUME WorkerInv,
           Worker!Enable \/ (\E r \in Arns : Worker!MergeReads(r)) \/ Worker!MergeWrites \/ Worker!Restart
    PROVE  WorkerInv'
  <1>1. CASE Worker!Enable \/ Worker!Restart
    BY <1>1 DEF Worker!Enable, Worker!Restart, Worker!Resting, WorkerInv, Worker!TypeOK,
       Worker!RolesArePreserved, Worker!BackupsAreOriginals, Worker!UnitIsLast
  <1>2. ASSUME NEW r \in Arns, Worker!MergeReads(r) PROVE WorkerInv'
    BY <1>2 DEF Worker!MergeReads, WorkerInv, Worker!TypeOK, Worker!RolesArePreserved,
       Worker!BackupsAreOriginals, Worker!UnitIsLast
  <1>3. CASE Worker!MergeWrites
    BY <1>3 DEF Worker!MergeWrites, Worker!Resting, WorkerInv, Worker!TypeOK,
       Worker!RolesArePreserved, Worker!BackupsAreOriginals, Worker!UnitIsLast
  <1> QED BY <1>1, <1>2, <1>3

LEMMA WorkerNext ==
    ASSUME Worker!WorkerSetupAssumption
    PROVE  WorkerInv /\ [Worker!Next]_(Worker!vars) => WorkerInv'
  <1> SUFFICES ASSUME WorkerInv, [Worker!Next]_(Worker!vars) PROVE WorkerInv'
    OBVIOUS
  <1>1. CASE UNCHANGED Worker!vars
    BY <1>1 DEF Worker!vars, WorkerInv, Worker!TypeOK, Worker!RolesArePreserved,
       Worker!BackupsAreOriginals, Worker!UnitIsLast
  <1>2. CASE Worker!Copy("env", "copying env", "hba") \/ Worker!Copy("hba", "copying hba", "read")
    BY <1>2, CopyStep DEF Worker!Files
  <1> QED BY <1>1, <1>2, InstallerStep, InstallStep, AdderStep DEF Worker!Next

\* Installers of the worker that die anywhere and run again, beside a worker that adds roles: the
\* collector keeps its roles and the added ones, the backups are of the original files, and the
\* unit is there only when all it needs is (install.py).
THEOREM WorkerSound ==
    ASSUME Worker!WorkerSetupAssumption
    PROVE  Worker!Spec => [](/\ Worker!RolesArePreserved /\ Worker!BackupsAreOriginals
                             /\ Worker!UnitIsLast)
  <1>1. WorkerInv => Worker!RolesArePreserved /\ Worker!BackupsAreOriginals /\ Worker!UnitIsLast
    BY DEF WorkerInv
  <1> QED BY <1>1, WorkerInit, WorkerNext, PTL DEF Worker!Spec
=============================================================================
