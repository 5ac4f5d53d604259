---------------------------- MODULE MCOperations ----------------------------
(***************************************************************************)
(* Small instances of what runs the installation and of who gets in, in    *)
(* one run for TLC: the release host, the additive migration, the setup of *)
(* the host and of its activation worker, the broker of onboarding,        *)
(* sessions and users.  They do not interact: `turn` says which one the    *)
(* behaviour is of, and its reachable states are explored as if it ran     *)
(* alone.  The broker keeps its own variables; the others share x1 .. x14, *)
(* in the order in which their modules declare theirs, and hold the rest   *)
(* at 0.                                                                   *)
(***************************************************************************)
EXTENDS Broker, TLC

CONSTANTS Pair, Base, None, Nobody, Code

\* Every component treats the members of these two sets alike.
Symmetry == Permutations(Pair) \cup Permutations(Roles)

VARIABLES turn, x1, x2, x3, x4, x5, x6, x7, x8, x9, x10, x11, x12, x13, x14

\* The variables from x<n> on, which a component that has fewer does not use.
From11 == <<x11, x12, x13, x14>>
From7 == <<x7, x8, x9, x10, From11>>
From6 == <<x6, From7>>
shared == <<x1, x2, x3, x4, x5, From6>>

Zero11 == x11 = 0 /\ x12 = 0 /\ x13 = 0 /\ x14 = 0
Zero7 == x7 = 0 /\ x8 = 0 /\ x9 = 0 /\ x10 = 0 /\ Zero11
Zero6 == x6 = 0 /\ Zero7

Host == INSTANCE DatabaseUpgrade WITH
    Releases <- Pair, OldVolume <- "pg17", NewVolume <- "pg18", MaxWrites <- 1,
    run <- x1, journal <- x2, built <- x3, backup <- x4, kept <- x5, current <- x6, root <- x7,
    writers <- x8, marker <- x9, ci <- x10, data <- x11, accepted <- x12, served <- x13, original <- x14

Migration == INSTANCE AdditiveMigration WITH
    Releases <- Pair, journal <- x1, stamped <- x2, at <- x3, owner <- x4, planned <- x5, container <- x6, column <- x7,
    recorded <- x8, file <- x9, baseline <- x10

Setup == INSTANCE Bootstrap WITH
    Packages <- Pair, Scripts <- {"s1", "s2"}, Commands <- {"c1"}, MaxMigrations <- 2,
    disk <- x1, left <- x2, protected <- x3, lock <- x4, script <- x5, command <- x6

Worker == INSTANCE WorkerSetup WITH
    Roles <- {"given", "r1", "r2"}, Given <- {"given"}, MaxRuns <- 3,
    named <- x1, kept <- x2, copy <- x3, hba <- x4, loaded <- x5, ready <- x6, run <- x7, worker <- x8,
    approved <- x9, runs <- x10

Login == INSTANCE Sessions WITH
    Browsers <- Pair, Codes <- {Code}, MaxPasswords <- 2, MaxVersions <- 3, MaxDevices <- 2,
    MaxTime <- 2, active <- x1, password <- x2, version <- x3, codes <- x4, device <- x5, last <- x6,
    locked <- x7, made <- x8, now <- x9, session <- x10, read <- x11, change <- x12, uses <- x13

Access == INSTANCE UserAccess WITH
    Users <- Pair, Customers <- {"A"}, Tokens <- {"t1"}, Clients <- Roles,
    user <- x1, member <- x2, invitation <- x3, request <- x4, admitted <- x5, serving <- x6

ASSUME OperationsAssumption ==
    /\ Host!DatabaseUpgradeAssumption /\ Setup!BootstrapAssumption /\ Worker!WorkerSetupAssumption
    /\ Login!SessionsAssumption /\ Access!UserAccessAssumption

-----------------------------------------------------------------------------
OperationsInit ==
    /\ Init
    /\ \/ turn = "broker" /\ x1 = 0 /\ x2 = 0 /\ x3 = 0 /\ x4 = 0 /\ x5 = 0 /\ Zero6
       \/ turn = "host" /\ Host!Init
       \/ turn = "migration" /\ Migration!Init /\ Zero11
       \/ turn = "setup" /\ Setup!Init /\ Zero7
       \/ turn = "worker" /\ Worker!Init /\ Zero11
       \/ turn = "login" /\ Login!Init /\ x14 = 0
       \/ turn = "access" /\ Access!Init /\ Zero7

\* One step of the component whose turn it is.
BrokerTurn == turn = "broker" /\ Next /\ UNCHANGED <<turn, shared>>
Turn(component) == turn = component /\ UNCHANGED <<turn, vars>>
OperationsNext ==
    \/ BrokerTurn
    \/ Turn("host") /\ Host!Next
    \/ Turn("migration") /\ Migration!Next /\ UNCHANGED From11
    \/ Turn("setup") /\ Setup!Next /\ UNCHANGED From7
    \/ Turn("worker") /\ Worker!Next /\ UNCHANGED From11
    \/ Turn("login") /\ Login!Next /\ UNCHANGED x14
    \/ Turn("access") /\ Access!Next /\ UNCHANGED From7

\* Bounds of the search: one user at a time has had a window, and when an upgrade has begun
\* either operators sent all commands or one release has not been built.
OneWindow == \E u \in Pair : \A v \in Pair \ {u} : x2[<<v, "A">>].window = "none"
OneDeployed == x9 \in {"none", "rehearsed"} \/ x10.of = None \/ \E r \in Pair : ~x3[r]
Explored == (turn = "access" => OneWindow) /\ (turn = "host" => OneDeployed)

OperationsSpec == OperationsInit /\ [][OperationsNext]_<<turn, vars, shared>>

-----------------------------------------------------------------------------
(* The properties of the components, each stated in its own module.         *)

\* Every component's variables have their types.
OperationsTypeOK ==
    CASE turn = "broker" -> TypeOK
      [] turn = "host" -> Host!UpgradeTypeOK
      [] turn = "migration" -> Migration!TypeOK
      [] turn = "setup" -> Setup!TypeOK
      [] turn = "worker" -> Worker!TypeOK
      [] turn = "login" -> Login!TypeOK
      [] turn = "access" -> Access!TypeOK

\* The host can be put back and no accepted write is lost, through releases, rollbacks and
\* a database upgrade that die half way; writers stay stopped while a cutover counts on it;
\* an additive migration claims only what the database has; an installer of the release tools
\* leaves one package, the helper its executor pins and the baseline the host has; one of the
\* activation worker keeps the collector's roles and the original files
\* (deploy/github-release/agent.py, additive_migrations.py, bootstrap.py,
\* deploy/postgres-maintenance/upgrade.py, deploy/onboarding-worker/install.py).
HostIsRecoverable ==
    /\ turn = "host" => Host!MixedIsUndoable /\ Host!NoWriteLost /\ Host!WritersStayStopped
    /\ turn = "migration" => Migration!BaselineIsReal /\ Migration!CompleteIsReal
    /\ turn = "setup" => Setup!HelperIsPinned /\ Setup!InstallationsAreWhole /\ Setup!BaselineIsCurrent
    /\ turn = "worker" => Worker!RolesArePreserved /\ Worker!BackupsAreOriginals /\ Worker!UnitIsLast

\* What the release tools report is true of the host when they report it: a receipt, and a
\* recorded rollback, which left the release it restored; the schema changes only behind a
\* validated backup (agent.py, release.py, additive_migrations.py).
ReportsAreTrue ==
    [][/\ turn = "host" => Host!ReceiptIsTrue /\ Host!RollbackRestores
       /\ turn = "migration" => Migration!BackupBeforeSchema]_<<turn, vars, shared>>

\* Sessions are of who showed the present password and device, a code and an invitation are
\* good once (authentication.py, portal.py).
CredentialsAreFresh ==
    /\ turn = "login" => Login!LiveSessionsAreFresh /\ Login!CodesAreUsedOnce
    /\ turn = "access" => Access!InvitationAdmitsOnce

\* The web leaves an administrator (user_administration.py).
AdministratorRemains == [][turn = "access" => Access!AdministratorRemains]_<<turn, vars, shared>>
=============================================================================
