-------------------------- MODULE AdditiveMigration --------------------------
(***************************************************************************)
(* The expand-only schema step that activation runs before it replaces any *)
(* code (deploy/github-release/additive_migrations.py).  It changes three  *)
(* stores that share no transaction -- the database, the runtime's         *)
(* migration file and the installed baseline -- and the host can die        *)
(* between any two of them.  Several releases may carry the same addition.  *)
(***************************************************************************)
CONSTANTS Releases, Nobody

VARIABLES
    journal,    \* journal[r]: phase of additive-migration.json of r
    stamped,    \* stamped[r]: the journal of r records a validated backup
    at,         \* the step the command that holds the host lock is at
    owner,      \* the release of that command, or Nobody
    planned,    \* planned[r]: staging of r found the addition in its source
    container,  \* the release whose migration container runs, or Nobody
    column,     \* the column in the database: "absent", "exact" or "other"
    recorded,   \* the row of django_migrations
    file,       \* the migration file of the runtime: "absent" or "exact"
    baseline    \* release.json names the migration

journals == <<journal, stamped, planned>>
command == <<at, owner>>
database == <<column, recorded>>
host == <<file, baseline>>
vars == <<journals, command, container, database, host>>

Steps == {"idle", "checked", "backed-up", "running", "verified", "copied", "listed"}

TypeOK ==
    /\ journal \in [Releases -> {"none", "prepared", "backed-up", "database-verified", "complete"}]
    /\ stamped \in [Releases -> BOOLEAN] /\ planned \in [Releases -> BOOLEAN]
    /\ at \in Steps /\ owner \in Releases \cup {Nobody} /\ container \in Releases \cup {Nobody}
    /\ column \in {"absent", "exact", "other"} /\ recorded \in BOOLEAN
    /\ file \in {"absent", "exact"} /\ baseline \in BOOLEAN

\* A column of the same name may be there already, made by hand.
Init ==
    /\ journal = [r \in Releases |-> "none"] /\ stamped = [r \in Releases |-> FALSE]
    /\ planned = [r \in Releases |-> FALSE]
    /\ at = "idle" /\ owner = Nobody /\ container = Nobody
    /\ column \in {"absent", "other"} /\ recorded = FALSE
    /\ file = "absent" /\ baseline = FALSE

GoIdle == at' = "idle" /\ owner' = Nobody

\* Staging compares the source with the baseline: only a release staged before the
\* baseline names the migration carries a plan.
Plan(r) ==
    /\ at = "idle" /\ ~planned[r] /\ ~baseline
    /\ planned' = [planned EXCEPT ![r] = TRUE]
    /\ UNCHANGED <<journal, stamped, command, container, database, host>>

\* The checks of the configuration, the plan and the protected files, and the journal.
Begin(r) ==
    /\ at = "idle" /\ planned[r]
    /\ journal' = [journal EXCEPT ![r] = IF @ = "none" THEN "prepared" ELSE @]
    /\ IF journal[r] = "complete" THEN GoIdle ELSE at' = "checked" /\ owner' = r
    /\ UNCHANGED <<stamped, planned, container, database, host>>

Backup(r) ==
    /\ at = "checked" /\ owner = r /\ at' = "backed-up"
    /\ stamped' = [stamped EXCEPT ![r] = TRUE]
    /\ journal' = [journal EXCEPT ![r] = IF stamped[r] THEN @ ELSE "backed-up"]
    /\ UNCHANGED <<planned, owner, container, database, host>>

\* A mutant: the statements run without the backup step.
StartSql_Unbacked(r) ==
    /\ at \in {"checked", "backed-up"} /\ owner = r /\ container = Nobody
    /\ at' = "running" /\ container' = r
    /\ UNCHANGED <<journals, owner, database, host>>

\* One container: refused while one of the release exists, and its address is fixed.
StartSql(r) ==
    /\ at = "backed-up" /\ owner = r /\ container = Nobody
    /\ at' = "running" /\ container' = r
    /\ UNCHANGED <<journals, owner, database, host>>

\* The transaction: nothing there, both are made; both there and exact, they are only
\* verified; anything else fails and changes nothing.
Consistent == (column = "absent" /\ ~recorded) \/ (column = "exact" /\ recorded)
Transaction ==
    /\ container # Nobody /\ Consistent
    /\ column' = "exact" /\ recorded' = TRUE
    /\ UNCHANGED <<journals, command, container, host>>

ContainerStops ==
    /\ container # Nobody /\ container' = Nobody
    /\ UNCHANGED <<journals, command, database, host>>

\* The receipt of the container is checked after the container is gone.
Verify(r) ==
    /\ at = "running" /\ owner = r /\ container = Nobody
    /\ IF column = "exact" /\ recorded
       THEN at' = "verified" /\ owner' = r /\ journal' = [journal EXCEPT ![r] = "database-verified"]
       ELSE GoIdle /\ journal' = journal
    /\ UNCHANGED <<stamped, planned, container, database, host>>

\* A temporary file, synchronised and renamed into place.
InstallFile(r) ==
    /\ at = "verified" /\ owner = r /\ at' = "copied"
    /\ file' = "exact"
    /\ UNCHANGED <<journals, owner, container, database, baseline>>

\* A mutant: the baseline is written before the file is installed.
ListBaseline_First(r) ==
    /\ at = "verified" /\ owner = r /\ at' = "listed"
    /\ baseline' = TRUE
    /\ UNCHANGED <<journals, owner, container, database, file>>

ListBaseline(r) ==
    /\ at = "copied" /\ owner = r /\ at' = "listed"
    /\ baseline' = TRUE
    /\ UNCHANGED <<journals, owner, container, database, file>>

\* A mutant: the journal is completed when the file is in place.
Complete_Early(r) ==
    /\ at \in {"copied", "listed"} /\ owner = r /\ GoIdle
    /\ journal' = [journal EXCEPT ![r] = "complete"]
    /\ UNCHANGED <<stamped, planned, container, database, host>>

Complete(r) ==
    /\ at = "listed" /\ owner = r /\ GoIdle
    /\ journal' = [journal EXCEPT ![r] = "complete"]
    /\ UNCHANGED <<stamped, planned, container, database, host>>

\* The command dies, or a call of it fails; its container may run on.
Dies ==
    /\ at # "idle" /\ GoIdle
    /\ UNCHANGED <<journals, container, database, host>>

Next ==
    \/ \E r \in Releases : Plan(r) \/ Begin(r) \/ Backup(r) \/ StartSql(r) \/ Verify(r)
                           \/ InstallFile(r) \/ ListBaseline(r) \/ Complete(r)
    \/ Transaction \/ ContainerStops \/ Dies

Spec == Init /\ [][Next]_vars

-----------------------------------------------------------------------------
\* The baseline, which lets every later release pass its compatibility check, names the
\* migration only when the column is in the database, its row recorded, its file installed.
BaselineIsReal == baseline => column = "exact" /\ recorded /\ file = "exact"

\* The schema changes only after some release recorded a validated backup: a retry after
\* an ambiguous death of the container does not count on the backup it never took.
BackupBeforeSchema ==
    column' # column => \E r \in Releases : stamped[r]

\* A release that reports the migration complete never finds the database without it.
CompleteIsReal == \A r \in Releases : journal[r] = "complete" => baseline
=============================================================================
