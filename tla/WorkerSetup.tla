---------------------------- MODULE WorkerSetup -----------------------------
(***************************************************************************)
(* The setup of the activation worker on the host (deploy/                 *)
(* onboarding-worker/install.py): it moves the collector's allowlist to a  *)
(* directory the worker may write, lets the worker into PostgreSQL and     *)
(* installs its unit.  A run may die anywhere and be repeated, also when   *)
(* the worker is up and adds roles to the list (activation.py:199-233).    *)
(***************************************************************************)
EXTENDS Naturals

CONSTANTS
    Roles,
    Given,      \* the allowlist before the setup
    MaxRuns     \* bound: runs of the installer

WorkerSetupAssumption == Given \subseteq Roles /\ MaxRuns \in Nat

VARIABLES
    named,      \* the allowlist that collector.env names: "given" or "kept"
    kept,       \* the roles in approved-roles.json of the worker's directory
    copy,       \* the backups of collector.env and pg_hba.conf
    hba,        \* pg_hba.conf: "cut" where a run died while it wrote it
    loaded,     \* PostgreSQL has read the rule
    ready,      \* the files that are installed for the worker
    run,        \* where the installer is, the roles and whether the pg_hba.conf it read is whole
    worker,     \* where the worker is, and the role it adds to those it has read
    approved,   \* roles the worker added while no installer was about to write the list
    runs

vars == <<named, kept, copy, hba, loaded, ready, run, worker, approved, runs>>

Absent == "absent"
Files == {"env", "hba"}
Steps == {"idle", "env", "copying env", "hba", "copying hba", "read", "put", "switch", "activation",
          "rule", "writing", "signal", "unit"}
Ended == [at |-> "idle", roles |-> {}, whole |-> TRUE]
Resting == [at |-> "off", roles |-> {}]

TypeOK ==
    /\ named \in {"given", "kept"} /\ kept \subseteq Roles
    /\ copy \in [Files -> {Absent, "cut", "original", "changed"}]
    /\ hba \in {"original", "cut", "ruled"} /\ loaded \in BOOLEAN
    /\ ready \subseteq {"list", "activation.env", "unit"}
    /\ run \in [at : Steps, roles : SUBSET Roles, whole : BOOLEAN]
    /\ worker \in [at : {"off", "on", "merging"}, roles : SUBSET Roles]
    /\ approved \subseteq Roles /\ runs \in 0..MaxRuns

Init ==
    /\ named = "given" /\ kept = {} /\ copy = [f \in Files |-> Absent]
    /\ hba = "original" /\ loaded = FALSE /\ ready = {}
    /\ run = Ended /\ worker = Resting /\ approved = {} /\ runs = 0

-----------------------------------------------------------------------------
(* The installer. *)
Begin ==
    /\ run.at = "idle" /\ runs < MaxRuns
    /\ runs' = runs + 1 /\ run' = [Ended EXCEPT !.at = "env"]
    /\ UNCHANGED <<named, kept, copy, hba, loaded, ready, worker, approved>>

(* A file that has a backup is not copied again; copy2 writes in place.    *)
AsFound(f) == IF (f = "env" /\ named = "given") \/ (f = "hba" /\ hba = "original") THEN "original" ELSE "changed"
Copy(f, copying, after) ==
    /\ \/ /\ run.at = f /\ copy[f] = Absent
          /\ copy' = [copy EXCEPT ![f] = "cut"] /\ run' = [run EXCEPT !.at = copying]
       \/ /\ run.at = f /\ copy[f] # Absent
          /\ run' = [run EXCEPT !.at = after] /\ UNCHANGED copy
       \/ /\ run.at = copying
          /\ copy' = [copy EXCEPT ![f] = AsFound(f)] /\ run' = [run EXCEPT !.at = after]
    /\ UNCHANGED <<named, kept, hba, loaded, ready, worker, approved, runs>>

(* The list in force, and what an earlier run or the worker has kept.      *)
Union == (IF named = "given" THEN Given ELSE {}) \cup kept
ReadRoles ==
    /\ run.at = "read"
    /\ named = "kept" => "list" \in ready
    /\ run' = [run EXCEPT !.at = "put", !.roles = Union]
    /\ UNCHANGED <<named, kept, copy, hba, loaded, ready, worker, approved, runs>>
Put ==
    /\ run.at = "put"
    /\ kept' = run.roles /\ ready' = ready \cup {"list"} /\ run' = [run EXCEPT !.at = "switch"]
    /\ UNCHANGED <<named, copy, hba, loaded, worker, approved, runs>>
Switch ==
    /\ run.at = "switch"
    /\ named' = "kept" /\ run' = [run EXCEPT !.at = "activation"]
    /\ UNCHANGED <<kept, copy, hba, loaded, ready, worker, approved, runs>>
Activate ==
    /\ run.at = "activation"
    /\ ready' = ready \cup {"activation.env"} /\ run' = [run EXCEPT !.at = "rule"]
    /\ UNCHANGED <<named, kept, copy, hba, loaded, worker, approved, runs>>

(* The rule comes first in the file, which is written in place: one that   *)
(* was cut may hold the rule or not.                                       *)
HasRule ==
    /\ run.at = "rule" /\ hba \in {"ruled", "cut"}
    /\ run' = [run EXCEPT !.at = "unit"]
    /\ UNCHANGED <<named, kept, copy, hba, loaded, ready, worker, approved, runs>>
Truncate ==
    /\ run.at = "rule" /\ hba \in {"original", "cut"}
    /\ hba' = "cut" /\ run' = [run EXCEPT !.at = "writing", !.whole = (hba = "original")]
    /\ UNCHANGED <<named, kept, copy, loaded, ready, worker, approved, runs>>
WriteRule ==
    /\ run.at = "writing"
    /\ hba' = IF run.whole THEN "ruled" ELSE "cut"
    /\ run' = [run EXCEPT !.at = "signal"]
    /\ UNCHANGED <<named, kept, copy, loaded, ready, worker, approved, runs>>
Signal ==
    /\ run.at = "signal"
    /\ loaded' = TRUE /\ run' = [run EXCEPT !.at = "unit"]
    /\ UNCHANGED <<named, kept, copy, hba, ready, worker, approved, runs>>
InstallUnit ==
    /\ run.at = "unit"
    /\ ready' = ready \cup {"unit"} /\ run' = Ended
    /\ UNCHANGED <<named, kept, copy, hba, loaded, worker, approved, runs>>

(* The run is killed, or a check or a command of it fails.                 *)
Dies ==
    /\ run.at # "idle" /\ run' = Ended
    /\ UNCHANGED <<named, kept, copy, hba, loaded, ready, worker, approved, runs>>

-----------------------------------------------------------------------------
(* The worker: an operator starts it once its unit is there.               *)
Enable ==
    /\ worker.at = "off" /\ "unit" \in ready
    /\ worker' = [Resting EXCEPT !.at = "on"]
    /\ UNCHANGED <<named, kept, copy, hba, loaded, ready, run, approved, runs>>

(* merge_allowlist: the entries are read, and replaced by one more.        *)
MergeReads(r) ==
    /\ worker.at = "on" /\ "list" \in ready /\ r \notin kept
    /\ worker' = [at |-> "merging", roles |-> kept \cup {r}]
    /\ UNCHANGED <<named, kept, copy, hba, loaded, ready, run, approved, runs>>
MergeWrites ==
    /\ worker.at = "merging"
    /\ kept' = worker.roles
    /\ approved' = IF run.at = "put" THEN approved ELSE approved \cup worker.roles
    /\ worker' = [Resting EXCEPT !.at = "on"]
    /\ UNCHANGED <<named, copy, hba, loaded, ready, run, runs>>

(* PostgreSQL restarts and reads its file.                                 *)
Restart ==
    /\ hba # "original" /\ loaded' = TRUE
    /\ UNCHANGED <<named, kept, copy, hba, ready, run, worker, approved, runs>>

Next ==
    \/ Begin \/ Copy("env", "copying env", "hba") \/ Copy("hba", "copying hba", "read")
    \/ ReadRoles \/ Put \/ Switch \/ Activate \/ HasRule \/ Truncate \/ WriteRule \/ Signal \/ InstallUnit
    \/ Dies \/ Enable \/ (\E r \in Roles : MergeReads(r)) \/ MergeWrites \/ Restart

Spec == Init /\ [][Next]_vars

-----------------------------------------------------------------------------
(* Whichever run died where, the collector has a list with every role it   *)
(* had; and one the worker added stays, unless an installer had read the   *)
(* list before and wrote it after: the installer does not take the         *)
(* worker's lock.                                                          *)
RolesArePreserved ==
    /\ named = "kept" => "list" \in ready
    /\ "list" \in ready => Given \cup approved \subseteq kept

(* No run takes what an earlier run has changed for the original, however  *)
(* often they die; a file that was changed was being copied before.        *)
BackupsAreOriginals ==
    /\ \A f \in Files : copy[f] # "changed"
    /\ named = "kept" => copy["env"] # Absent
    /\ hba # "original" => copy["hba"] # Absent

(* The unit comes last: a worker that can be started has its list, its     *)
(* environment and, in the file or in PostgreSQL, its rule.                *)
UnitIsLast ==
    /\ "unit" \in ready => named = "kept" /\ "activation.env" \in ready /\ hba # "original"
    /\ loaded => hba # "original"
=============================================================================
