--------------------------- MODULE DatabaseUpgrade ---------------------------
(***************************************************************************)
(* The PostgreSQL major upgrade tool (deploy/postgres-maintenance/         *)
(* upgrade.py) on the same host as the release agent: it shares the host   *)
(* lock, .env and the services with it, and tells it through the marker     *)
(* file to keep away between its commands.                                 *)
(***************************************************************************)
EXTENDS ReleaseAgent

CONSTANT MaxWrites   \* bound: writes the services make

DatabaseUpgradeAssumption == ReleaseAgentAssumption /\ NoneAssumption /\ MaxWrites \in Nat

VARIABLES
    data,      \* data[v]: number of writes volume v holds, or None while it does not exist
    accepted,  \* writes the database has accepted
    served,    \* the volume the db container runs on, or None while it is stopped
    original   \* original.env: the settings the cutover saved, or None

upgradeVars == <<data, accepted, served, original>>
vars == <<agentVars, marker, upgradeVars>>

\* The commands that hold the lock: the tool's, which are of no release, and the agent's.
ToolSteps == {"freezing", "frozen", "compared", "kept", "switching", "patched", "verified",
              "returning", "returned", "reopening"}
UndoSteps == {"undoing", "uncopied", "unimaged", "relinking", "restarted", "restored"}
AgentSteps == {"backed", "journaled"} \cup Guarded \cup UndoSteps
Run == {Free} \cup [at : ToolSteps, of : {None}, asked : {"nothing"}]
              \cup [at : AgentSteps, of : Releases, asked : {"activate", "rollback"}]

UpgradeTypeOK ==
    /\ AgentTypeOK /\ run \in Run
    /\ data \in [Volumes -> (0..MaxWrites) \cup {None}] /\ accepted \in 0..MaxWrites
    /\ served \in Volumes \cup {None}
    /\ original \in [image : Versions] \cup {None}

Init ==
    /\ AgentInit
    /\ data = [v \in Volumes |-> IF v = OldVolume THEN 0 ELSE None]
    /\ accepted = 0 /\ served = OldVolume /\ original = None

Enter(step) == run = Free /\ run' = [Free EXCEPT !.at = step]
Step(from, to) == run.at = from /\ run' = [run EXCEPT !.at = to]
Ends(from) == run.at = from /\ run' = Free

hostVars == <<journal, built, backup, kept, current, ci>>

Write ==
    /\ writers # {} /\ served # None /\ accepted < MaxWrites
    /\ data' = [data EXCEPT ![served] = @ + 1] /\ accepted' = accepted + 1
    /\ UNCHANGED <<agentVars, marker, served, original>>

-----------------------------------------------------------------------------
\* The rehearsal restores a dump into a volume of its own; the source is only read.
Rehearse ==
    /\ run = Free /\ marker = "none" /\ served = OldVolume
    /\ marker' = "rehearsed"
    /\ UNCHANGED <<agentVars, upgradeVars>>

\* Cutover.  The marker is written before the writers stop.
Freeze ==
    /\ Enter("freezing") /\ marker = "rehearsed" /\ served = OldVolume
    /\ marker' = "frozen"
    /\ UNCHANGED <<hostVars, root, writers, upgradeVars>>

StopWriters ==
    /\ Step("freezing", "frozen")
    /\ writers' = {}
    /\ UNCHANGED <<hostVars, root, marker, upgradeVars>>

\* The final dump, restored into the new volume and compared with the source.
FinalRestore ==
    /\ data[NewVolume] = None
    /\ Step("frozen", "compared")
    /\ data' = [data EXCEPT ![NewVolume] = data[OldVolume]]
    /\ UNCHANGED <<hostVars, root, writers, marker, accepted, served, original>>

KeepEnv ==
    /\ original = None
    /\ Step("compared", "kept")
    /\ original' = [image |-> root.image]
    /\ UNCHANGED <<hostVars, root, writers, marker, data, accepted, served>>

SaveSwitching ==
    /\ Step("kept", "switching")
    /\ marker' = "switching"
    /\ UNCHANGED <<hostVars, root, writers, upgradeVars>>

PatchEnv ==
    /\ Step("switching", "patched")
    /\ served' = None /\ root' = [root EXCEPT !.db = NewVolume]
    /\ UNCHANGED <<hostVars, writers, marker, data, accepted, original>>

StartNew ==
    /\ Step("patched", "verified")
    /\ served' = NewVolume
    /\ UNCHANGED <<hostVars, root, writers, marker, data, accepted, original>>

AwaitVerification ==
    /\ Ends("verified")
    /\ marker' = "awaiting-verification"
    /\ UNCHANGED <<hostVars, root, writers, upgradeVars>>

-----------------------------------------------------------------------------
\* Rollback, allowed only while the writers are known not to have been let back.
BeginUndo ==
    /\ Enter("returning") /\ marker \in {"frozen", "switching", "awaiting-verification"}
    /\ writers' = {}
    /\ UNCHANGED <<hostVars, root, marker, upgradeVars>>

RestoreEnv ==
    /\ Step("returning", "returned")
    /\ IF original = None THEN UNCHANGED <<root, served>>
       ELSE /\ root' = [root EXCEPT !.db = OldVolume, !.image = original.image]
            /\ served' = OldVolume
    /\ UNCHANGED <<hostVars, writers, marker, data, accepted, original>>

SaveUndone ==
    /\ Ends("returned")
    /\ marker' = "rolled-back"
    /\ UNCHANGED <<hostVars, root, writers, upgradeVars>>

\* The boundary is recorded before a writer starts.
Reopen ==
    /\ Enter("reopening") /\ marker \in {"awaiting-verification", "rolled-back"}
    /\ marker' = "writers-reopened"
    /\ UNCHANGED <<hostVars, root, writers, upgradeVars>>

StartWriters ==
    /\ Ends("reopening")
    /\ writers' = {"app", "collector"}
    /\ UNCHANGED <<hostVars, root, marker, upgradeVars>>

\* A command of the tool fails, a comparison differs, or the tool is killed.
ToolDies ==
    /\ run # Free /\ run.of = None /\ run' = Free
    /\ UNCHANGED <<hostVars, root, writers, marker, upgradeVars>>

UpgradeNext ==
    \/ Rehearse \/ Freeze \/ StopWriters \/ FinalRestore \/ KeepEnv \/ SaveSwitching
    \/ PatchEnv \/ StartNew \/ AwaitVerification \/ BeginUndo \/ RestoreEnv \/ SaveUndone
    \/ Reopen \/ StartWriters \/ ToolDies

Next == (AgentNext /\ UNCHANGED upgradeVars) \/ UpgradeNext \/ Write

Spec == Init /\ [][Next]_vars

-----------------------------------------------------------------------------
\* No accepted write is ever lost: the volume that .env names holds every write the
\* database accepted, through cutovers and rollbacks that die half way and through a
\* release rolled back after the cutover, whose backup still holds the old volume's name.
NoWriteLost == data[root.db] = accepted

\* While the maintenance phase promises stopped writers, the release agent starts none:
\* nothing writes to the old volume between the final dump and the reopening.
WritersStayStopped ==
    marker \in {"switching", "awaiting-verification", "rolled-back"} => writers = {}
=============================================================================
