----------------------------- MODULE MCServices -----------------------------
(***************************************************************************)
(* Small instances of the billing components that do not interact, in one  *)
(* run for TLC: `turn` says which component the behaviour is of, and its   *)
(* reachable states are explored as if it ran alone.  Activation keeps its *)
(* own variables; the other components share x1 .. x12, in the order in    *)
(* which their modules declare theirs, and hold the rest at 0.             *)
(***************************************************************************)
EXTENDS Activation, TLC

CONSTANT Pair

\* Every component has one set of two actors or objects that it treats alike; those of
\* Activation are its requests.
Symmetry == Permutations(Pair)

VARIABLES turn, x1, x2, x3, x4, x5, x6, x7, x8, x9, x10, x11, x12

\* The variables from x<n> on, which a component that has fewer does not use.
From12 == <<x12>>
From10 == <<x10, x11, From12>>
From8 == <<x8, x9, From10>>
From7 == <<x7, From8>>
From6 == <<x6, From7>>
From5 == <<x5, From6>>
From4 == <<x4, From5>>
shared == <<x1, x2, x3, From4>>

Zero12 == x12 = 0
Zero10 == x10 = 0 /\ x11 = 0 /\ Zero12
Zero8 == x8 = 0 /\ x9 = 0 /\ Zero10
Zero7 == x7 = 0 /\ Zero8
Zero6 == x6 = 0 /\ Zero7
Zero5 == x5 = 0 /\ Zero6
Zero4 == x4 = 0 /\ Zero5

Schedule == INSTANCE Scheduler WITH
    Schedulers <- Pair, Clients <- {"c1"}, MaxSlots <- 2, MaxJobs <- 3, MaxAttempts <- 1,
    History <- 6, FullMonths <- 6, Reconciles <- {1, 3},
    slot <- x1, reconcile <- x2, ready <- x3, initialized <- x4, last <- x5, srcLock <- x6,
    table <- x7, txn <- x8, answer <- x9

Once == INSTANCE OnceJobs WITH
    Schedulers <- {"s1"}, Keys <- {"k1", "k2"}, active <- x1, settled <- x2, at <- x3

\* The account belongs to payer p; s is a standalone connection of another customer.
Owners == INSTANCE Ownership WITH
    Sources <- {"p", "s"}, Home <- "p", Customers <- {"A", "B"},
    Owner <- [c \in {"p", "s"} |-> IF c = "p" THEN "A" ELSE "B"], LastDay <- 2, MaxTransfers <- 1,
    assigned <- x1, costs <- x2, active <- x3, enabled <- x4, srcLock <- x5, accLock <- x6,
    dayLock <- x7, pub <- x8, transfer <- x9, transfers <- x10, owed <- x11, refused <- x12

Settings == INSTANCE ConnectionSettings WITH
    Clients <- {"c1"}, Roles <- Pair, Capabilities <- {"k1"}, MaxIds <- 2, MaxVersions <- 3,
    MaxEdits <- 1, row <- x1, approved <- x2, requested <- x3, issued <- x4, trust <- x5, web <- x6,
    verifier <- x7, tested <- x8, edits <- x9

Queries == INSTANCE QueryCache WITH
    MaxKey <- 2, MaxScope <- 2, MaxCrashes <- 1,
    key <- x1, enabled <- x2, scope <- x3, cache <- x4, queued <- x5, page <- x6, worker <- x7,
    wiped <- x8, crashes <- x9

Amounts == INSTANCE BudgetAmounts WITH
    Editors <- Pair, Amounts <- {1, 2}, MaxMonth <- 3, MaxRows <- 2,
    rows <- x1, override <- x2, recorded <- x3, edit <- x4

Import == INSTANCE BulkImport WITH
    Previews <- Pair, Names <- {"n1", "n2"}, Accounts <- {"a1", "a2"}, Requests <- {"q1", "q2"},
    MaxRows <- 1, References <- {"r0", "r1"}, NoReference <- "r0", MaxCustomers <- 2,
    customers <- x1, sources <- x2, amounts <- x3, preview <- x4, applying <- x5, applications <- x6

Leaving == INSTANCE Offboarding WITH
    Purges <- Pair, MaxRecords <- 2,
    active <- x1, enabled <- x2, jobs <- x3, owned <- x4, members <- x5, dependents <- x6, facts <- x7,
    records <- x8, purge <- x9

Mails == INSTANCE Alerts WITH
    Events <- Pair, Monitors <- {"m1", "m2"}, Operators <- {"o1"}, MaxFailures <- 1,
    event <- x1, overdue <- x2, routed <- x3, run <- x4, request <- x5, mailed <- x6, failures <- x7

Rules == INSTANCE Allocation WITH
    Projects <- {"erp"}, Accounts <- {"a"}, Names <- {"k"}, Values <- Pair,
    Kinds <- {"accounts", "tag", "account_tag"}, Sources <- {"s"}, SourceOf <- [a \in {"a"} |-> "s"],
    Editors <- {"e1"}, Starts <- {0, 3}, Ends <- {4}, MaxRules <- 2, MaxMonth <- 2,
    rules <- x1, rows <- x2, adding <- x3, worker <- x4, imported <- x5, now <- x6

Handoff == INSTANCE Alliance WITH
    Sources <- {"s", "t"}, Home <- "s", Services <- {"x"}, MaxAmount <- 1, Editors <- Pair,
    MaxImports <- 2, MaxRevisions <- 2,
    facts <- x1, period <- x2, imports <- x3, record <- x4, page <- x5, ended <- x6

Evidence == INSTANCE Readiness WITH
    Commands <- {"c1"}, Own <- "x", Shared <- "y", LastDay <- 2, MaxVersions <- 2, MaxOwnership <- 3,
    MaxMoves <- 1, MaxRuns <- 1,
    active <- x1, holder <- x2, since <- x3, window <- x4, at <- x5, version <- x6, ownership <- x7,
    verified <- x8, command <- x9, runs <- x10, moves <- x11

Lists == INSTANCE Metering WITH
    MaxToken <- 3, Limits <- {0, 2, 5}, Retries <- 1, PageLimit <- 3, MaxListings <- 2,
    limit <- x1, requests <- x2, listing <- x3, call <- x4, seen <- x5, items <- x6,
    outcome <- x7, listings <- x8

Verdicts == INSTANCE BudgetEvaluation WITH
    Sources <- {"s"}, Limits <- {1, 2}, AlertAt <- 50, WarnAt <- 100, MaxSpend <- 2, MaxForecast <- 3, MaxChanges <- 1,
    active <- x1, limit <- x2, period <- x3, spend <- x4, evaluation <- x5, alerts <- x6, run <- x7,
    changes <- x8

Inventory == INSTANCE Discovery WITH
    Payers <- {"p1", "p2"}, Accounts <- {"a"}, Billed <- {"p2"}, Shared <- {"p2"}, Approved <- {"a"},
    MaxMoves <- 1, MaxChanges <- 1,
    member <- x1, bills <- x2, account <- x3, assigned <- x4, version <- x5, run <- x6, moves <- x7

\* What the modules assume of their constants.
ASSUME ServicesAssumption ==
    /\ Schedule!SchedulerAssumption /\ Owners!OwnershipAssumption /\ Settings!ConnectionSettingsAssumption
    /\ Lists!MeteringAssumption /\ Queries!QueryCacheAssumption /\ Amounts!BudgetAmountsAssumption
    /\ Evidence!ReadinessAssumption /\ Verdicts!BudgetEvaluationAssumption
    /\ Inventory!DiscoveryAssumption

-----------------------------------------------------------------------------
ServicesInit ==
    /\ Init
    /\ \/ turn = "activation" /\ x1 = 0 /\ x2 = 0 /\ x3 = 0 /\ Zero4
       \/ turn = "schedule" /\ Schedule!Init /\ Zero10
       \/ turn = "once" /\ Once!Init /\ Zero4
       \/ turn = "owners" /\ Owners!Init
       \/ turn = "settings" /\ Settings!Init /\ Zero10
       \/ turn = "queries" /\ Queries!Init /\ Zero10
       \/ turn = "amounts" /\ Amounts!Init /\ Zero5
       \/ turn = "import" /\ Import!Init /\ Zero7
       \/ turn = "leaving" /\ Leaving!Init /\ Zero10
       \/ turn = "mails" /\ Mails!Init /\ Zero8
       \/ turn = "rules" /\ Rules!Init /\ Zero7
       \/ turn = "handoff" /\ Handoff!Init /\ Zero7
       \/ turn = "evidence" /\ Evidence!Init /\ Zero12
       \/ turn = "lists" /\ Lists!Init /\ x9 = 0 /\ Zero10
       \/ turn = "verdicts" /\ Verdicts!Init /\ x9 = 0 /\ Zero10
       \/ turn = "inventory" /\ Inventory!Init /\ Zero8
    /\ turn # "activation" => enabled /\ customer = "none" /\ role = "none"

\* One step of the component whose turn it is.
ActivationTurn == turn = "activation" /\ Next /\ UNCHANGED <<turn, shared>>
Turn(component) == turn = component /\ UNCHANGED <<turn, vars>>
ServicesNext ==
    \/ ActivationTurn
    \/ Turn("schedule") /\ Schedule!Next /\ UNCHANGED From10
    \/ Turn("once") /\ Once!Next /\ UNCHANGED From4
    \/ Turn("owners") /\ Owners!Next
    \/ Turn("settings") /\ Settings!Next /\ UNCHANGED From10
    \/ Turn("queries") /\ Queries!Next /\ UNCHANGED From10
    \/ Turn("amounts") /\ Amounts!Next /\ UNCHANGED From5
    \/ Turn("import") /\ Import!Next /\ UNCHANGED From7
    \/ Turn("leaving") /\ Leaving!Next /\ UNCHANGED From10
    \/ Turn("mails") /\ Mails!Next /\ UNCHANGED From8
    \/ Turn("rules") /\ Rules!Next /\ UNCHANGED From7
    \/ Turn("handoff") /\ Handoff!Next /\ UNCHANGED From7
    \/ Turn("evidence") /\ Evidence!Next /\ UNCHANGED From12
    \/ Turn("lists") /\ Lists!Next /\ UNCHANGED <<x9, From10>>
    \/ Turn("verdicts") /\ Verdicts!Next /\ UNCHANGED <<x9, From10>>
    \/ Turn("inventory") /\ Inventory!Next /\ UNCHANGED From8

\* Bounds of the search: the connection of the queries changes or the scope of their user;
\* costs are published again once a handoff is recorded.
Explored ==
    /\ turn = "queries" => x1 = 1 \/ x3 = 1
    /\ turn = "handoff" => x3 < 2 \/ x4.revision > 0

ServicesSpec == ServicesInit /\ [][ServicesNext]_<<turn, vars, shared>>

-----------------------------------------------------------------------------
(* The properties of the components, each stated in its own module; one that *)
(* has primes is about every step, and gets its box here.                   *)

\* Every component's variables have their types.
ServicesTypeOK ==
    /\ turn = "activation" => TypeOK
    /\ turn = "schedule" => Schedule!TypeOK
    /\ turn = "once" => Once!TypeOK
    /\ turn = "owners" => Owners!TypeOK
    /\ turn = "settings" => Settings!TypeOK
    /\ turn = "queries" => Queries!TypeOK
    /\ turn = "amounts" => Amounts!TypeOK
    /\ turn = "import" => Import!TypeOK
    /\ turn = "leaving" => Leaving!TypeOK
    /\ turn = "mails" => Mails!TypeOK
    /\ turn = "rules" => Rules!TypeOK
    /\ turn = "handoff" => Handoff!TypeOK
    /\ turn = "evidence" => Evidence!TypeOK
    /\ turn = "lists" => Lists!TypeOK
    /\ turn = "verdicts" => Verdicts!TypeOK
    /\ turn = "inventory" => Inventory!TypeOK

\* What a pull, a publication or a connection was asked for is what it does: a request is
\* served in full, a portfolio job is made once, a day has one source and its owner's stamp,
\* verified settings are those AWS accepted, a listing is whole and within its limit
\* (scheduler.py, jobs.py, collector.py, views_management.py, aws.py).
CollectionIsCoherent ==
    /\ turn = "schedule" => Schedule!RequestIsServed
    /\ turn = "once" => Once!PortfolioOnce
    /\ turn = "owners" => Owners!OwnRowsAreStamped /\ Owners!OneSourcePerDay
    /\ turn = "settings" => Settings!VerifiedIsWhatWasTested
    /\ turn = "lists" => Lists!ListingsAreWhole /\ Lists!LimitIsKept

\* A slot is pulled once, whatever its schedulers and its users do at once (scheduler.py).
SlotPulledOnce == [][turn = "schedule" => Schedule!SlotPulledOnce]_<<turn, vars, shared>>

\* Two requests, two runs or two imports at once leave records that are right: answers stay
\* wiped, rules stay disjoint, a preview is applied once, a mail leaves once, a customer is
\* ready on evidence of what it owns, a verdict has its alert (query_cache.py, allocation.py,
\* onboarding.py, monitoring.py, reconciliation.py, budgets.py).
RecordsAreWhole ==
    /\ turn = "queries" => Queries!WipedStaysEmpty
    /\ turn = "rules" => Rules!RulesAreDisjoint
    /\ turn = "import" => Import!AppliedOnce
    /\ turn = "mails" => Mails!MailsAreAccountedFor
    /\ turn = "evidence" => Evidence!EvidenceIsCurrent
    /\ turn = "verdicts" => Verdicts!VerdictsAreAlerted

\* What was settled is not unsettled by a later step: limits and allocations of the past, the
\* figures a handoff was recorded and closed on, a deletion, the customer a connection went
\* to, an acknowledgement, an assignment (budgets.py, allocation.py, views_alliance.py,
\* retention.py, onboarding.py, notifications.py, collector.py).
SettledIsKept ==
    [][/\ turn = "amounts" => Amounts!HistoryIsPreserved /\ Amounts!NoMonthLosesItsLimit
       /\ turn = "rules" => Rules!HistoryIsKept
       /\ turn = "handoff" => Handoff!HandoffsAreSound
       /\ turn = "leaving" => Leaving!DeletesOnce
       /\ turn = "import" => Import!NamesDoNotMerge
       /\ turn = "mails" => Mails!AcknowledgedStaysQuiet
       /\ turn = "inventory" => Inventory!AssignmentIsKept]_<<turn, vars, shared>>
=============================================================================
