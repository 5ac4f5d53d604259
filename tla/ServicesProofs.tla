---------------------------- MODULE ServicesProofs -----------------------------
(***************************************************************************)
(* What the run Services checks of its sixteen components at once: each   *)
(* property holds of its component for every value of the constants        *)
(* (ActivationProofs, CollectingProofs, RecordsProofs), and so of the sum  *)
(* that the run explores.                                                   *)
(***************************************************************************)
EXTENDS MCServices, ActivationProofs

Pulls == INSTANCE CollectingProofs WITH
    MaxToken <- 3, Limits <- {0, 2, 5}, Retries <- 1, PageLimit <- 3, MaxListings <- 2,
    limit <- x1, requests <- x2, listing <- x3, call <- x4, seen <- x5, items <- x6,
    outcome <- x7, listings <- x8,
    Sources <- {"p", "s"}, Home <- "p", Customers <- {"A", "B"},
    Owner <- [c \in {"p", "s"} |-> IF c = "p" THEN "A" ELSE "B"], LastDay <- 2, MaxTransfers <- 1,
    assigned <- x1, costs <- x2, active <- x3, enabled <- x4, srcLock <- x5, accLock <- x6,
    dayLock <- x7, pub <- x8, transfer <- x9, transfers <- x10, owed <- x11, refused <- x12,
    Leaders <- {"s1"}, Keys <- {"k1", "k2"}, made <- x1, settled <- x2, at <- x3,
    Clients <- {"c1"}, Roles <- Pair, Capabilities <- {"k1"}, MaxIds <- 2, MaxVersions <- 3,
    MaxEdits <- 1, connection <- x1, approved <- x2, requested <- x3, issued <- x4, trust <- x5, web <- x6,
    verifier <- x7, tested <- x8, edits <- x9,
    Schedulers <- Pair, MaxSlots <- 2, MaxJobs <- 3, MaxAttempts <- 1,
    History <- 6, FullMonths <- 6, Reconciles <- {1, 3},
    slot <- x1, reconcile <- x2, ready <- x3, initialized <- x4, last <- x5, rowLock <- x6,
    table <- x7, txn <- x8, answer <- x9,
    Scope <- {"s"}, Ceilings <- {1, 2}, AlertAt <- 50, WarnAt <- 100, MaxSpend <- 2, MaxForecast <- 3,
    MaxChanges <- 1, watched <- x1, ceiling <- x2, period <- x3, spend <- x4, evaluation <- x5,
    alerts <- x6, evaluator <- x7, changes <- x8,
    Payers <- {"p1", "p2"}, Accounts <- {"a"}, Billed <- {"p2"}, Shared <- {"p2"}, Approved <- {"a"},
    MaxMoves <- 1, member <- x1, bills <- x2, account <- x3, holder <- x4, setting <- x5,
    discovering <- x6, moves <- x7

Kept == INSTANCE RecordsProofs WITH
    Previews <- Pair, Names <- {"n1", "n2"}, Accounts <- {"a1", "a2"}, Requests <- {"q1", "q2"},
    MaxRows <- 1, References <- {"r0", "r1"}, NoReference <- "r0", MaxCustomers <- 2,
    customers <- x1, sources <- x2, amounts <- x3, preview <- x4, applying <- x5, applications <- x6,
    MaxKey <- 2, MaxScope <- 2, MaxCrashes <- 1,
    key <- x1, enabled <- x2, reach <- x3, cache <- x4, queued <- x5, page <- x6, worker <- x7,
    wiped <- x8, crashes <- x9,
    Editors <- Pair, Figures <- {1, 2}, MaxMonth <- 3, MaxLimits <- 2,
    limits <- x1, override <- x2, recorded <- x3, edit <- x4,
    Purges <- Pair, MaxRecords <- 2,
    present <- x1, collecting <- x2, jobs <- x3, owned <- x4, members <- x5, dependents <- x6, held <- x7,
    records <- x8, purge <- x9,
    Events <- Pair, Monitors <- {"m1", "m2"}, Operators <- {"o1"}, MaxFailures <- 1,
    event <- x1, overdue <- x2, routed <- x3, watch <- x4, acknowledge <- x5, mailed <- x6, failures <- x7,
    Projects <- {"erp"}, Members <- {"a"}, Keys <- {"k"}, Values <- Pair,
    Criteria <- {"accounts", "tag", "account_tag"}, Origins <- {"s"}, SourceOf <- [a \in {"a"} |-> "s"],
    Allocators <- {"e1"}, Starts <- {0, 3}, Ends <- {4}, MaxRules <- 2, MaxNow <- 2,
    rules <- x1, portions <- x2, adding <- x3, allocator <- x4, imported <- x5, now <- x6,
    Sources <- {"s", "t"}, Home <- "s", Services <- {"x"}, MaxAmount <- 1, Recorders <- Pair,
    MaxImports <- 2, MaxRevisions <- 2,
    facts <- x1, period <- x2, imports <- x3, handoff <- x4, screen <- x5, ended <- x6,
    Commands <- {"c1"}, Own <- "x", Shared <- "y", LastDay <- 2, MaxVersions <- 2, MaxOwnership <- 3,
    MaxMoves <- 1, MaxRuns <- 1,
    active <- x1, holder <- x2, since <- x3, window <- x4, at <- x5, version <- x6, ownership <- x7,
    verified <- x8, command <- x9, runs <- x10, moves <- x11

-----------------------------------------------------------------------------
(* The sum.  A component of the run that has the turn takes its own steps,  *)
(* and its definitions here and in the proof modules are the same ones.     *)

LEMMA ScheduleBegins == Schedule!Init => Pulls!Schedule!Init
  BY DEF
     Schedule!Init, Pulls!Schedule!Init, Schedule!Slots, Pulls!Schedule!Slots, Schedule!KindNames,
     Pulls!Schedule!KindNames, Schedule!Processes, Pulls!Schedule!Processes, Schedule!NoTxn,
     Pulls!Schedule!NoTxn, Schedule!NoAnswer, Pulls!Schedule!NoAnswer

LEMMA ScheduleMoves == Schedule!Next => Pulls!Schedule!Next
  BY DEF
     Schedule!Next, Pulls!Schedule!Next, Schedule!Worker, Pulls!Schedule!Worker,
     Schedule!Scheduling, Pulls!Schedule!Scheduling, Schedule!Asking, Pulls!Schedule!Asking,
     Schedule!RequestSync, Pulls!Schedule!RequestSync, Schedule!SourceAction,
     Pulls!Schedule!SourceAction, Schedule!SyncCosts, Pulls!Schedule!SyncCosts,
     Schedule!Pause, Pulls!Schedule!Pause, Schedule!NextSlot, Pulls!Schedule!NextSlot,
     Schedule!Rows, Pulls!Schedule!Rows, Schedule!Lease, Pulls!Schedule!Lease, Schedule!Succeed,
     Pulls!Schedule!Succeed, Schedule!Complete, Pulls!Schedule!Complete, Schedule!Fail,
     Pulls!Schedule!Fail, Schedule!Tick, Pulls!Schedule!Tick, Schedule!Look, Pulls!Schedule!Look,
     Schedule!WriteTick, Pulls!Schedule!WriteTick, Schedule!Request, Pulls!Schedule!Request,
     Schedule!WriteRequest, Pulls!Schedule!WriteRequest, Schedule!clock, Pulls!Schedule!clock,
     Schedule!source, Pulls!Schedule!source, Schedule!Begin, Pulls!Schedule!Begin, Schedule!Kinds,
     Pulls!Schedule!Kinds, Schedule!Due, Pulls!Schedule!Due, Schedule!Pending,
     Pulls!Schedule!Pending, Schedule!SlotKey, Pulls!Schedule!SlotKey, Schedule!Enqueued,
     Pulls!Schedule!Enqueued, Schedule!Proceed, Pulls!Schedule!Proceed, Schedule!NoAnswer,
     Pulls!Schedule!NoAnswer, Schedule!Key, Pulls!Schedule!Key, Schedule!EnqueuedRow,
     Pulls!Schedule!EnqueuedRow, Schedule!NoTxn, Pulls!Schedule!NoTxn, Schedule!Active,
     Pulls!Schedule!Active, Schedule!Earliest, Pulls!Schedule!Earliest, Schedule!Existing,
     Pulls!Schedule!Existing, Schedule!NewRow, Pulls!Schedule!NewRow, Schedule!Latest,
     Pulls!Schedule!Latest, Schedule!ActiveRows, Pulls!Schedule!ActiveRows

LEMMA OnceBegins == Once!Init => Pulls!Once!Init
  BY DEF
     Once!Init, Pulls!Once!Init

LEMMA OnceMoves == Once!Next => Pulls!Once!Next
  BY DEF
     Once!Next, Pulls!Once!Next, Once!Check, Pulls!Once!Check, Once!Insert, Pulls!Once!Insert,
     Once!Run, Pulls!Once!Run, Once!Found, Pulls!Once!Found

LEMMA OwnersBegins == Owners!Init => Pulls!Owners!Init
  BY DEF
     Owners!Init, Pulls!Owners!Init, Owners!Forever, Pulls!Owners!Forever, Owners!Days,
     Pulls!Owners!Days, Owners!Absent, Pulls!Owners!Absent, Owners!IdlePub, Pulls!Owners!IdlePub,
     Owners!IdleTransfer, Pulls!Owners!IdleTransfer

LEMMA OwnersMoves == Owners!Next => Pulls!Owners!Next
  BY DEF
     Owners!Next, Pulls!Owners!Next, Owners!Days, Pulls!Owners!Days, Owners!BeginPublication,
     Pulls!Owners!BeginPublication, Owners!Publication, Pulls!Owners!Publication, Owners!Resume,
     Pulls!Owners!Resume, Owners!BeginTransfer, Pulls!Owners!BeginTransfer, Owners!Offboard,
     Pulls!Owners!Offboard, Owners!Reactivate, Pulls!Owners!Reactivate, Owners!Assign,
     Pulls!Owners!Assign, Owners!Restamp, Pulls!Owners!Restamp, Owners!TransferDies,
     Pulls!Owners!TransferDies, Owners!Detect, Pulls!Owners!Detect, Owners!IdlePub,
     Pulls!Owners!IdlePub, Owners!customers, Pulls!Owners!customers, Owners!operator,
     Pulls!Owners!operator, Owners!history, Pulls!Owners!history, Owners!Serialize,
     Pulls!Owners!Serialize, Owners!CheckOverlap, Pulls!Owners!CheckOverlap, Owners!LookUpOwners,
     Pulls!Owners!LookUpOwners, Owners!LockAccount, Pulls!Owners!LockAccount, Owners!AutoAssign,
     Pulls!Owners!AutoAssign, Owners!Publish, Pulls!Owners!Publish, Owners!publications,
     Pulls!Owners!publications, Owners!locks, Pulls!Owners!locks, Owners!IdleTransfer,
     Pulls!Owners!IdleTransfer, Owners!Forever, Pulls!Owners!Forever, Owners!Later,
     Pulls!Owners!Later, Owners!From, Pulls!Owners!From, Owners!Open, Pulls!Owners!Open,
     Owners!Refused, Pulls!Owners!Refused, Owners!Freed, Pulls!Owners!Freed, Owners!Transferred,
     Pulls!Owners!Transferred, Owners!Absent, Pulls!Owners!Absent, Owners!OwnerIn,
     Pulls!Owners!OwnerIn, Owners!WaitsFor, Pulls!Owners!WaitsFor, Owners!Abort,
     Pulls!Owners!Abort, Owners!Overlap, Pulls!Owners!Overlap, Owners!Automatic,
     Pulls!Owners!Automatic, Owners!Returned, Pulls!Owners!Returned, Owners!Ended,
     Pulls!Owners!Ended, Owners!Covers, Pulls!Owners!Covers, Owners!Unowned, Pulls!Owners!Unowned

LEMMA SettingsBegins == Settings!Init => Pulls!Settings!Init
  BY DEF
     Settings!Init, Pulls!Settings!Init, Settings!Idle, Pulls!Settings!Idle

LEMMA SettingsMoves == Settings!Next => Pulls!Settings!Next
  BY DEF
     Settings!Next, Pulls!Settings!Next, Settings!Open, Pulls!Settings!Open, Settings!Compare,
     Pulls!Settings!Compare, Settings!Save, Pulls!Settings!Save, Settings!RotateExternalId,
     Pulls!Settings!RotateExternalId, Settings!SetPaused, Pulls!Settings!SetPaused,
     Settings!StopCustomer, Pulls!Settings!StopCustomer, Settings!ApproveRole,
     Pulls!Settings!ApproveRole, Settings!RevokeRole, Pulls!Settings!RevokeRole,
     Settings!InstallTrust, Pulls!Settings!InstallTrust, Settings!LoadSource,
     Pulls!Settings!LoadSource, Settings!VerifyTrust, Pulls!Settings!VerifyTrust,
     Settings!VerifySource, Pulls!Settings!VerifySource, Settings!Idle, Pulls!Settings!Idle,
     Settings!Edit, Pulls!Settings!Edit, Settings!ApprovalReady, Pulls!Settings!ApprovalReady,
     Settings!Settings, Pulls!Settings!Settings, Settings!Current, Pulls!Settings!Current

LEMMA ListsBegins == Lists!Init => Pulls!Init
  BY DEF
     Lists!Init, Pulls!Init

LEMMA ListsMoves == Lists!Next => Pulls!Next
  BY DEF
     Lists!Next, Pulls!Next, Lists!Paginate, Pulls!Paginate, Lists!Enter, Pulls!Enter,
     Lists!Answered, Pulls!Answered, Lists!Failed, Pulls!Failed, Lists!Running, Pulls!Running,
     Lists!Listings, Pulls!Listings, Lists!meter, Pulls!meter, Lists!AtLimit, Pulls!AtLimit,
     Lists!Raise, Pulls!Raise, Lists!Send, Pulls!Send, Lists!Follow, Pulls!Follow, Lists!Token,
     Pulls!Token, Lists!Pages, Pulls!Pages, Lists!Tokens, Pulls!Tokens,
     Lists!Cardinality, Pulls!Cardinality, Lists!IsFiniteSet, Pulls!IsFiniteSet

LEMMA QueriesBegins == Queries!Init => Kept!Queries!Init
  BY DEF
     Queries!Init, Kept!Queries!Init, Queries!Queries, Kept!Queries!Queries, Queries!Absent,
     Kept!Queries!Absent, Queries!NoPage, Kept!Queries!NoPage, Queries!NoJob, Kept!Queries!NoJob,
     Queries!NoQuery, Kept!Queries!NoQuery

LEMMA QueriesMoves == Queries!Next => Kept!Queries!Next
  BY DEF
     Queries!Next, Kept!Queries!Next, Queries!LookUp, Kept!Queries!LookUp,
     Queries!RefreshCosts, Kept!Queries!RefreshCosts, Queries!GetQuery,
     Kept!Queries!GetQuery, Queries!Slot, Kept!Queries!Slot, Queries!Worker, Kept!Queries!Worker,
     Queries!Crash, Kept!Queries!Crash, Queries!RotateExternalId, Kept!Queries!RotateExternalId,
     Queries!TransferAccount, Kept!Queries!TransferAccount, Queries!SetPaused,
     Kept!Queries!SetPaused, Queries!StopCustomer, Kept!Queries!StopCustomer,
     Queries!ChangeMembership, Kept!Queries!ChangeMembership, Queries!NoPage, Kept!Queries!NoPage,
     Queries!source, Kept!Queries!source, Queries!Coalesced, Kept!Queries!Coalesced,
     Queries!Queries, Kept!Queries!Queries, Queries!Kinds, Kept!Queries!Kinds, Queries!Lease,
     Kept!Queries!Lease, Queries!SelectBatch, Kept!Queries!SelectBatch, Queries!Take,
     Kept!Queries!Take, Queries!Ask, Kept!Queries!Ask, Queries!RunQuery, Kept!Queries!RunQuery,
     Queries!Finish, Kept!Queries!Finish, Queries!NoJob, Kept!Queries!NoJob, Queries!Withdrawn,
     Kept!Queries!Withdrawn, Queries!NoQuery, Kept!Queries!NoQuery, Queries!Selected,
     Kept!Queries!Selected, Queries!Authorized, Kept!Queries!Authorized, Queries!Settled,
     Kept!Queries!Settled, Queries!Fence, Kept!Queries!Fence

LEMMA AmountsBegins == Amounts!Init => Kept!Budgets!Init
  BY DEF
     Amounts!Init, Kept!Budgets!Init, Amounts!Months, Kept!Budgets!Months, Amounts!Unset,
     Kept!Budgets!Unset, Amounts!Idle, Kept!Budgets!Idle

LEMMA AmountsMoves == Amounts!Next => Kept!Budgets!Next
  BY DEF
     Amounts!Next, Kept!Budgets!Next, Amounts!Begin, Kept!Budgets!Begin, Amounts!Write,
     Kept!Budgets!Write, Amounts!Fails, Kept!Budgets!Fails, Amounts!Months, Kept!Budgets!Months,
     Amounts!SetOverride, Kept!Budgets!SetOverride, Amounts!Idle, Kept!Budgets!Idle, Amounts!Open,
     Kept!Budgets!Open, Amounts!Closed, Kept!Budgets!Closed, Amounts!Stored, Kept!Budgets!Stored,
     Amounts!Same, Kept!Budgets!Same, Amounts!Unset, Kept!Budgets!Unset, Amounts!Closing,
     Kept!Budgets!Closing, Amounts!Replaced, Kept!Budgets!Replaced

LEMMA ImportBegins == Import!Init => Kept!Init
  BY DEF
     Import!Init, Kept!Init, Import!Unconnected, Kept!Unconnected, Import!Ids, Kept!Ids,
     Import!NoPreview, Kept!NoPreview, Import!Nothing, Kept!Nothing, Import!New, Kept!New

LEMMA ImportMoves == Import!Next => Kept!Next
  BY DEF
     Import!Next, Kept!Next, Import!UploadCustomers, Kept!UploadCustomers, Import!UploadBudgets,
     Kept!UploadBudgets, Import!Apply, Kept!Apply, Import!CommitCustomers, Kept!CommitCustomers,
     Import!CommitBudgets, Kept!CommitBudgets, Import!RollsBack, Kept!RollsBack, Import!Ids,
     Kept!Ids, Import!Identity, Kept!Identity, Import!EditCustomer, Kept!EditCustomer,
     Import!NoPreview, Kept!NoPreview, Import!New, Kept!New, Import!Kinds, Kept!Kinds,
     Import!Selected, Kept!Selected, Import!Consistent, Kept!Consistent, Import!Valid, Kept!Valid,
     Import!Nothing, Kept!Nothing, Import!Locked, Kept!Locked, Import!Numbering, Kept!Numbering,
     Import!NewNames, Kept!NewNames, Import!SameIdentity, Kept!SameIdentity, Import!Unconnected,
     Kept!Unconnected, Import!Owner, Kept!Owner, Import!Named, Kept!Named, Import!Referred,
     Kept!Referred,
     Import!Cardinality, Kept!Cardinality, Import!IsFiniteSet, Kept!IsFiniteSet

LEMMA LeavingBegins == Leaving!Init => Kept!Leaving!Init
  BY DEF
     Leaving!Init, Kept!Leaving!Init, Leaving!NoRecord, Kept!Leaving!NoRecord

LEMMA LeavingMoves == Leaving!Next => Kept!Leaving!Next
  BY DEF
     Leaving!Next, Kept!Leaving!Next, Leaving!Offboard, Kept!Leaving!Offboard, Leaving!Reactivate,
     Kept!Leaving!Reactivate, Leaving!Transfer, Kept!Leaving!Transfer, Leaving!Grant,
     Kept!Leaving!Grant, Leaving!Depend, Kept!Leaving!Depend, Leaving!Schedule,
     Kept!Leaving!Schedule, Leaving!Publish, Kept!Leaving!Publish, Leaving!SetPaused,
     Kept!Leaving!SetPaused, Leaving!Made, Kept!Leaving!Made, Leaving!Evidence,
     Kept!Leaving!Evidence, Leaving!Control, Kept!Leaving!Control, Leaving!Windows,
     Kept!Leaving!Windows, Leaving!Expires, Kept!Leaving!Expires, Leaving!PurgeCommit,
     Kept!Leaving!PurgeCommit, Leaving!PurgeDies, Kept!Leaving!PurgeDies, Leaving!PurgeBegin,
     Kept!Leaving!PurgeBegin, Leaving!StopCustomer, Kept!Leaving!StopCustomer, Leaving!NoRecord,
     Kept!Leaving!NoRecord, Leaving!Locked, Kept!Leaving!Locked, Leaving!Fit, Kept!Leaving!Fit

LEMMA MailsBegins == Mails!Init => Kept!Mails!Init
  BY DEF
     Mails!Init, Kept!Mails!Init, Mails!Unseen, Kept!Mails!Unseen, Mails!Idle, Kept!Mails!Idle,
     Mails!Stages, Kept!Mails!Stages

LEMMA MailsMoves == Mails!Next => Kept!Mails!Next
  BY DEF
     Mails!Next, Kept!Mails!Next, Mails!Scan, Kept!Mails!Scan, Mails!DeliverBegin,
     Kept!Mails!DeliverBegin, Mails!Commit, Kept!Mails!Commit, Mails!Rollback,
     Kept!Mails!Rollback, Mails!Skip, Kept!Mails!Skip, Mails!Mail, Kept!Mails!Mail,
     Mails!Acknowledge, Kept!Mails!Acknowledge, Mails!AcknowledgeBegin,
     Kept!Mails!AcknowledgeBegin, Mails!Route, Kept!Mails!Route, Mails!TimePasses,
     Kept!Mails!TimePasses, Mails!Idle, Kept!Mails!Idle, Mails!Observed, Kept!Mails!Observed,
     Mails!Held, Kept!Mails!Held, Mails!OpenAlerts, Kept!Mails!OpenAlerts, Mails!Due,
     Kept!Mails!Due, Mails!Skipped, Kept!Mails!Skipped, Mails!Stage, Kept!Mails!Stage,
     Mails!Unseen, Kept!Mails!Unseen

LEMMA RulesBegins == Rules!Init => Kept!Rules!Init
  BY DEF
     Rules!Init, Kept!Rules!Init, Rules!Idle, Kept!Rules!Idle, Rules!Nothing, Kept!Rules!Nothing

LEMMA RulesMoves == Rules!Next => Kept!Rules!Next
  BY DEF
     Rules!Next, Kept!Rules!Next, Rules!Save, Kept!Rules!Save, Rules!Rule, Kept!Rules!Rule,
     Rules!Check, Kept!Rules!Check, Rules!Retire, Kept!Rules!Retire, Rules!AllocateProject,
     Kept!Rules!AllocateProject, Rules!AllocateMonth, Kept!Rules!AllocateMonth,
     Rules!AllocateEnds, Kept!Rules!AllocateEnds, Rules!Import, Kept!Rules!Import,
     Rules!NextMonth, Kept!Rules!NextMonth, Rules!Nothing, Kept!Rules!Nothing, Rules!Allocated,
     Kept!Rules!Allocated, Rules!Forever, Kept!Rules!Forever, Rules!UsesAccounts,
     Kept!Rules!UsesAccounts, Rules!Valid, Kept!Rules!Valid, Rules!Retired, Kept!Rules!Retired,
     Rules!Idle, Kept!Rules!Idle, Rules!Reached, Kept!Rules!Reached, Rules!RecentMonths,
     Kept!Rules!RecentMonths, Rules!Earlier, Kept!Rules!Earlier, Rules!Recomputed,
     Kept!Rules!Recomputed, Rules!OfProject, Kept!Rules!OfProject, Rules!Dropped,
     Kept!Rules!Dropped, Rules!OverlappingDates, Kept!Rules!OverlappingDates, Rules!Conflict,
     Kept!Rules!Conflict, Rules!First, Kept!Rules!First, Rules!Months, Kept!Rules!Months,
     Rules!Covers, Kept!Rules!Covers, Rules!Scope, Kept!Rules!Scope, Rules!Window,
     Kept!Rules!Window, Rules!Shared, Kept!Rules!Shared, Rules!SameScope, Kept!Rules!SameScope,
     Rules!Claimed, Kept!Rules!Claimed, Rules!Lower, Kept!Rules!Lower, Rules!Upper,
     Kept!Rules!Upper

LEMMA HandoffBegins == Handoff!Init => Kept!Handoff!Init
  BY DEF
     Handoff!Init, Kept!Handoff!Init, Handoff!Months, Kept!Handoff!Months, Handoff!NoFacts,
     Kept!Handoff!NoFacts, Handoff!NoSnapshot, Kept!Handoff!NoSnapshot, Handoff!Away,
     Kept!Handoff!Away, Handoff!Prior, Kept!Handoff!Prior, Handoff!Month, Kept!Handoff!Month

LEMMA HandoffMoves == Handoff!Next => Kept!Handoff!Next
  BY DEF
     Handoff!Next, Kept!Handoff!Next, Handoff!Months, Kept!Handoff!Months, Handoff!FailMonth,
     Kept!Handoff!FailMonth, Handoff!Figures, Kept!Handoff!Figures, Handoff!Publish,
     Kept!Handoff!Publish, Handoff!MonthEnds, Kept!Handoff!MonthEnds, Handoff!Open,
     Kept!Handoff!Open, Handoff!Leave, Kept!Handoff!Leave, Handoff!ReadTotals,
     Kept!Handoff!ReadTotals, Handoff!Finish, Kept!Handoff!Finish, Handoff!Forms,
     Kept!Handoff!Forms, Handoff!Post, Kept!Handoff!Post, Handoff!Prior, Kept!Handoff!Prior,
     Handoff!Month, Kept!Handoff!Month, Handoff!Locked, Kept!Handoff!Locked, Handoff!Running,
     Kept!Handoff!Running, Handoff!InRequest, Kept!Handoff!InRequest, Handoff!Away,
     Kept!Handoff!Away, Handoff!Totals, Kept!Handoff!Totals, Handoff!Snapshot,
     Kept!Handoff!Snapshot, Handoff!Accepted, Kept!Handoff!Accepted, Handoff!KnownSources,
     Kept!Handoff!KnownSources, Handoff!Value, Kept!Handoff!Value, Handoff!State,
     Kept!Handoff!State, Handoff!AmountOf, Kept!Handoff!AmountOf, Handoff!ServiceAmount,
     Kept!Handoff!ServiceAmount, Handoff!SeenVersion, Kept!Handoff!SeenVersion, Handoff!FormValid,
     Kept!Handoff!FormValid, Handoff!Capturable, Kept!Handoff!Capturable, Handoff!Revised,
     Kept!Handoff!Revised, Handoff!NoFacts, Kept!Handoff!NoFacts, Handoff!Collecting,
     Kept!Handoff!Collecting, Handoff!None, Kept!Handoff!None, Handoff!Covered,
     Kept!Handoff!Covered, Handoff!Estimated, Kept!Handoff!Estimated, Handoff!Amount,
     Kept!Handoff!Amount, Handoff!NoSnapshot, Kept!Handoff!NoSnapshot, Handoff!Closable,
     Kept!Handoff!Closable, Handoff!Behind, Kept!Handoff!Behind,
     Handoff!SumFunction, Kept!Handoff!SumFunction, Handoff!SumFunctionOnSet,
     Kept!Handoff!SumFunctionOnSet, Handoff!FoldFunctionOnSet, Kept!Handoff!FoldFunctionOnSet,
     Handoff!MapThenFoldSet, Kept!Handoff!MapThenFoldSet

LEMMA EvidenceBegins == Evidence!Init => Kept!Evidence!Init
  BY DEF
     Evidence!Init, Kept!Evidence!Init, Evidence!Days, Kept!Evidence!Days, Evidence!Sources,
     Kept!Evidence!Sources, Evidence!Idle, Kept!Evidence!Idle

LEMMA EvidenceMoves == Evidence!Next => Kept!Evidence!Next
  BY DEF
     Evidence!Next, Kept!Evidence!Next, Evidence!Begin, Kept!Evidence!Begin, Evidence!ReadTotals,
     Kept!Evidence!ReadTotals, Evidence!ReadPeriods, Kept!Evidence!ReadPeriods, Evidence!Record,
     Kept!Evidence!Record, Evidence!CommandDies, Kept!Evidence!CommandDies, Evidence!Days,
     Kept!Evidence!Days, Evidence!Transfer, Kept!Evidence!Transfer, Evidence!Sources,
     Kept!Evidence!Sources, Evidence!Reconfigure, Kept!Evidence!Reconfigure, Evidence!Verify,
     Kept!Evidence!Verify, Evidence!Offboard, Kept!Evidence!Offboard, Evidence!Reactivate,
     Kept!Evidence!Reactivate, Evidence!Move, Kept!Evidence!Move, Evidence!Idle,
     Kept!Evidence!Idle, Evidence!Configuration, Kept!Evidence!Configuration, Evidence!account,
     Kept!Evidence!account, Evidence!connections, Kept!Evidence!connections,
     Evidence!OwnershipChanged, Kept!Evidence!OwnershipChanged, Evidence!From, Kept!Evidence!From,
     Evidence!CustomerSources, Kept!Evidence!CustomerSources,
     Evidence!Cardinality, Kept!Evidence!Cardinality, Evidence!IsFiniteSet,
     Kept!Evidence!IsFiniteSet

LEMMA VerdictsBegins == Verdicts!Init => Pulls!Verdicts!Init
  BY DEF
     Verdicts!Init, Pulls!Verdicts!Init, Verdicts!Months, Pulls!Verdicts!Months, Verdicts!Previous,
     Pulls!Verdicts!Previous, Verdicts!Current, Pulls!Verdicts!Current, Verdicts!Evaluators,
     Pulls!Verdicts!Evaluators, Verdicts!Idle, Pulls!Verdicts!Idle, Verdicts!NotEvaluated,
     Pulls!Verdicts!NotEvaluated, Verdicts!Unset, Pulls!Verdicts!Unset

LEMMA VerdictsMoves == Verdicts!Next => Pulls!Verdicts!Next
  BY DEF
     Verdicts!Next, Pulls!Verdicts!Next, Verdicts!WorkerBegin, Pulls!Verdicts!WorkerBegin,
     Verdicts!Deactivate, Pulls!Verdicts!Deactivate, Verdicts!WebBegin, Pulls!Verdicts!WebBegin,
     Verdicts!ReadStatus, Pulls!Verdicts!ReadStatus, Verdicts!ReadRows, Pulls!Verdicts!ReadRows,
     Verdicts!Persist, Pulls!Verdicts!Persist, Verdicts!Raises, Pulls!Verdicts!Raises,
     Verdicts!Attempt, Pulls!Verdicts!Attempt, Verdicts!Publish, Pulls!Verdicts!Publish,
     Verdicts!Failure, Pulls!Verdicts!Failure, Verdicts!GoesOld, Pulls!Verdicts!GoesOld,
     Verdicts!Cover, Pulls!Verdicts!Cover, Verdicts!Following, Pulls!Verdicts!Following,
     Verdicts!Forecasts, Pulls!Verdicts!Forecasts, Verdicts!Verdict, Pulls!Verdicts!Verdict,
     Verdicts!Raised, Pulls!Verdicts!Raised, Verdicts!Reached, Pulls!Verdicts!Reached,
     Verdicts!DataStatus, Pulls!Verdicts!DataStatus, Verdicts!Months, Pulls!Verdicts!Months,
     Verdicts!Amount, Pulls!Verdicts!Amount, Verdicts!Evaluators, Pulls!Verdicts!Evaluators,
     Verdicts!Total, Pulls!Verdicts!Total, Verdicts!Unset, Pulls!Verdicts!Unset, Verdicts!Idle,
     Pulls!Verdicts!Idle, Verdicts!Current, Pulls!Verdicts!Current, Verdicts!Previous,
     Pulls!Verdicts!Previous

LEMMA InventoryBegins == Inventory!Init => Pulls!Inventory!Init
  BY DEF
     Inventory!Init, Pulls!Inventory!Init, Inventory!Outside, Pulls!Inventory!Outside,
     Inventory!NoPayer, Pulls!Inventory!NoPayer, Inventory!Unseen, Pulls!Inventory!Unseen,
     Inventory!NoRun, Pulls!Inventory!NoRun, Inventory!Holders, Pulls!Inventory!Holders

LEMMA InventoryMoves == Inventory!Next => Pulls!Inventory!Next
  BY DEF
     Inventory!Next, Pulls!Inventory!Next, Inventory!Ask, Pulls!Inventory!Ask, Inventory!LoseLease,
     Pulls!Inventory!LoseLease, Inventory!ChangeConnection, Pulls!Inventory!ChangeConnection,
     Inventory!Write, Pulls!Inventory!Write, Inventory!AddManually, Pulls!Inventory!AddManually,
     Inventory!Forget, Pulls!Inventory!Forget, Inventory!Move, Pulls!Inventory!Move,
     Inventory!Found, Pulls!Inventory!Found, Inventory!Missing, Pulls!Inventory!Missing,
     Inventory!AutoAssigned, Pulls!Inventory!AutoAssigned, Inventory!Current,
     Pulls!Inventory!Current, Inventory!Holders, Pulls!Inventory!Holders, Inventory!Outside,
     Pulls!Inventory!Outside, Inventory!NoPayer, Pulls!Inventory!NoPayer, Inventory!Unseen,
     Pulls!Inventory!Unseen, Inventory!NoRun, Pulls!Inventory!NoRun

\* A step of the run keeps the turn, and leaves the activation alone or is a step of it.
LEMMA ActivationPart == [ServicesNext]_<<turn, vars, shared>> => [Next]_vars /\ UNCHANGED turn
  BY DEF ServicesNext, ActivationTurn, Turn

\* A step of the run is a step of the component that has the turn, or changes no variable of any.
LEMMA TurnPart ==
    ASSUME [ServicesNext]_<<turn, vars, shared>>
    PROVE  UNCHANGED shared \/
             \/ turn = "schedule" /\ Schedule!Next
             \/ turn = "once" /\ Once!Next
             \/ turn = "owners" /\ Owners!Next
             \/ turn = "settings" /\ Settings!Next
             \/ turn = "lists" /\ Lists!Next
             \/ turn = "queries" /\ Queries!Next
             \/ turn = "amounts" /\ Amounts!Next
             \/ turn = "import" /\ Import!Next
             \/ turn = "leaving" /\ Leaving!Next
             \/ turn = "mails" /\ Mails!Next
             \/ turn = "rules" /\ Rules!Next
             \/ turn = "handoff" /\ Handoff!Next
             \/ turn = "evidence" /\ Evidence!Next
             \/ turn = "verdicts" /\ Verdicts!Next
             \/ turn = "inventory" /\ Inventory!Next
  BY DEF ServicesNext, ActivationTurn, Turn

LEMMA SharedIs ==
    ASSUME UNCHANGED shared
    PROVE  UNCHANGED <<x1, x2, x3, x4, x5, x6, x7, x8, x9, x10, x11, x12>>
  BY DEF shared, From4, From5, From6, From7, From8, From10, From12

LEMMA SchedulePart ==
    ASSUME turn = "schedule", [ServicesNext]_<<turn, vars, shared>> PROVE [Pulls!Schedule!Next]_(Pulls!Schedule!vars)
  <1>1. UNCHANGED shared => UNCHANGED Pulls!Schedule!vars
    BY SharedIs DEF
     Pulls!Schedule!vars, Pulls!Schedule!clock, Pulls!Schedule!source
  <1>2. Schedule!Next \/ UNCHANGED shared
    BY TurnPart
  <1> QED BY <1>1, <1>2, ScheduleMoves

LEMMA OncePart ==
    ASSUME turn = "once", [ServicesNext]_<<turn, vars, shared>> PROVE [Pulls!Once!Next]_(Pulls!Once!vars)
  <1>1. UNCHANGED shared => UNCHANGED Pulls!Once!vars
    BY SharedIs DEF
     Pulls!Once!vars
  <1>2. Once!Next \/ UNCHANGED shared
    BY TurnPart
  <1> QED BY <1>1, <1>2, OnceMoves

LEMMA OwnersPart ==
    ASSUME turn = "owners", [ServicesNext]_<<turn, vars, shared>> PROVE [Pulls!Owners!Next]_(Pulls!Owners!vars)
  <1>1. UNCHANGED shared => UNCHANGED Pulls!Owners!vars
    BY SharedIs DEF
     Pulls!Owners!vars, Pulls!Owners!publications, Pulls!Owners!customers, Pulls!Owners!locks,
     Pulls!Owners!operator, Pulls!Owners!history
  <1>2. Owners!Next \/ UNCHANGED shared
    BY TurnPart
  <1> QED BY <1>1, <1>2, OwnersMoves

LEMMA SettingsPart ==
    ASSUME turn = "settings", [ServicesNext]_<<turn, vars, shared>> PROVE [Pulls!Settings!Next]_(Pulls!Settings!vars)
  <1>1. UNCHANGED shared => UNCHANGED Pulls!Settings!vars
    BY SharedIs DEF
     Pulls!Settings!vars
  <1>2. Settings!Next \/ UNCHANGED shared
    BY TurnPart
  <1> QED BY <1>1, <1>2, SettingsMoves

LEMMA ListsPart ==
    ASSUME turn = "lists", [ServicesNext]_<<turn, vars, shared>> PROVE [Pulls!Next]_(Pulls!vars)
  <1>1. UNCHANGED shared => UNCHANGED Pulls!vars
    BY SharedIs DEF
     Pulls!vars, Pulls!meter
  <1>2. Lists!Next \/ UNCHANGED shared
    BY TurnPart
  <1> QED BY <1>1, <1>2, ListsMoves

LEMMA QueriesPart ==
    ASSUME turn = "queries", [ServicesNext]_<<turn, vars, shared>> PROVE [Kept!Queries!Next]_(Kept!Queries!vars)
  <1>1. UNCHANGED shared => UNCHANGED Kept!Queries!vars
    BY SharedIs DEF
     Kept!Queries!vars, Kept!Queries!source
  <1>2. Queries!Next \/ UNCHANGED shared
    BY TurnPart
  <1> QED BY <1>1, <1>2, QueriesMoves

LEMMA AmountsPart ==
    ASSUME turn = "amounts", [ServicesNext]_<<turn, vars, shared>> PROVE [Kept!Budgets!Next]_(Kept!Budgets!vars)
  <1>1. UNCHANGED shared => UNCHANGED Kept!Budgets!vars
    BY SharedIs DEF
     Kept!Budgets!vars
  <1>2. Amounts!Next \/ UNCHANGED shared
    BY TurnPart
  <1> QED BY <1>1, <1>2, AmountsMoves

LEMMA ImportPart ==
    ASSUME turn = "import", [ServicesNext]_<<turn, vars, shared>> PROVE [Kept!Next]_(Kept!vars)
  <1>1. UNCHANGED shared => UNCHANGED Kept!vars
    BY SharedIs DEF
     Kept!vars
  <1>2. Import!Next \/ UNCHANGED shared
    BY TurnPart
  <1> QED BY <1>1, <1>2, ImportMoves

LEMMA LeavingPart ==
    ASSUME turn = "leaving", [ServicesNext]_<<turn, vars, shared>> PROVE [Kept!Leaving!Next]_(Kept!Leaving!vars)
  <1>1. UNCHANGED shared => UNCHANGED Kept!Leaving!vars
    BY SharedIs DEF
     Kept!Leaving!vars
  <1>2. Leaving!Next \/ UNCHANGED shared
    BY TurnPart
  <1> QED BY <1>1, <1>2, LeavingMoves

LEMMA MailsPart ==
    ASSUME turn = "mails", [ServicesNext]_<<turn, vars, shared>> PROVE [Kept!Mails!Next]_(Kept!Mails!vars)
  <1>1. UNCHANGED shared => UNCHANGED Kept!Mails!vars
    BY SharedIs DEF
     Kept!Mails!vars
  <1>2. Mails!Next \/ UNCHANGED shared
    BY TurnPart
  <1> QED BY <1>1, <1>2, MailsMoves

LEMMA RulesPart ==
    ASSUME turn = "rules", [ServicesNext]_<<turn, vars, shared>> PROVE [Kept!Rules!Next]_(Kept!Rules!vars)
  <1>1. UNCHANGED shared => UNCHANGED Kept!Rules!vars
    BY SharedIs DEF
     Kept!Rules!vars
  <1>2. Rules!Next \/ UNCHANGED shared
    BY TurnPart
  <1> QED BY <1>1, <1>2, RulesMoves

LEMMA HandoffPart ==
    ASSUME turn = "handoff", [ServicesNext]_<<turn, vars, shared>> PROVE [Kept!Handoff!Next]_(Kept!Handoff!vars)
  <1>1. UNCHANGED shared => UNCHANGED Kept!Handoff!vars
    BY SharedIs DEF
     Kept!Handoff!vars
  <1>2. Handoff!Next \/ UNCHANGED shared
    BY TurnPart
  <1> QED BY <1>1, <1>2, HandoffMoves

LEMMA EvidencePart ==
    ASSUME turn = "evidence", [ServicesNext]_<<turn, vars, shared>> PROVE [Kept!Evidence!Next]_(Kept!Evidence!vars)
  <1>1. UNCHANGED shared => UNCHANGED Kept!Evidence!vars
    BY SharedIs DEF
     Kept!Evidence!vars, Kept!Evidence!account, Kept!Evidence!connections
  <1>2. Evidence!Next \/ UNCHANGED shared
    BY TurnPart
  <1> QED BY <1>1, <1>2, EvidenceMoves

LEMMA VerdictsPart ==
    ASSUME turn = "verdicts", [ServicesNext]_<<turn, vars, shared>> PROVE [Pulls!Verdicts!Next]_(Pulls!Verdicts!vars)
  <1>1. UNCHANGED shared => UNCHANGED Pulls!Verdicts!vars
    BY SharedIs DEF
     Pulls!Verdicts!vars
  <1>2. Verdicts!Next \/ UNCHANGED shared
    BY TurnPart
  <1> QED BY <1>1, <1>2, VerdictsMoves

LEMMA InventoryPart ==
    ASSUME turn = "inventory", [ServicesNext]_<<turn, vars, shared>> PROVE [Pulls!Inventory!Next]_(Pulls!Inventory!vars)
  <1>1. UNCHANGED shared => UNCHANGED Pulls!Inventory!vars
    BY SharedIs DEF
     Pulls!Inventory!vars
  <1>2. Inventory!Next \/ UNCHANGED shared
    BY TurnPart
  <1> QED BY <1>1, <1>2, InventoryMoves

\* The invariant of each component, when the run is of that component.
PartsInv ==
    /\ turn \in {"activation", "schedule", "once", "owners", "settings", "lists", "queries",
                "amounts", "import", "leaving", "mails", "rules", "handoff", "evidence", "verdicts", "inventory"}
    /\ IInv
    /\ turn = "schedule" => Pulls!SchedInv
    /\ turn = "once" => Pulls!OnceInv
    /\ turn = "owners" => Pulls!OwnersInv
    /\ turn = "settings" => Pulls!SettingsInv
    /\ turn = "lists" => Pulls!ListInv
    /\ turn = "queries" => Kept!QueriesInv
    /\ turn = "amounts" => Kept!AmountsInv
    /\ turn = "import" => Kept!ImportInv
    /\ turn = "leaving" => Kept!Stopped
    /\ turn = "mails" => Kept!MailsInv
    /\ turn = "rules" => Kept!DisjointInv
    /\ turn = "handoff" => Kept!HandoffInv
    /\ turn = "evidence" => Kept!EvidenceInv /\ Kept!Evidence!TypeOK
    /\ turn = "verdicts" => Pulls!VerdictInv
    /\ turn = "inventory" => Pulls!Inventory!TypeOK

LEMMA PartsAssumption ==
    /\ Pulls!ScheduleAssumption /\ Pulls!Owners!OwnershipAssumption
    /\ Pulls!Settings!ConnectionSettingsAssumption /\ Pulls!MeteringAssumption
    /\ Kept!Queries!QueryCacheAssumption /\ Kept!Budgets!BudgetAmountsAssumption
    /\ Kept!Evidence!ReadinessAssumption /\ Kept!AllocationAssumption
    /\ Pulls!Verdicts!BudgetEvaluationAssumption /\ Pulls!Inventory!DiscoveryAssumption
  <1>1. Schedule!SchedulerAssumption => Pulls!Schedule!SchedulerAssumption
    BY DEF
     Schedule!SchedulerAssumption, Pulls!Schedule!SchedulerAssumption
  <1>2. Owners!OwnershipAssumption => Pulls!Owners!OwnershipAssumption
    BY DEF
     Owners!OwnershipAssumption, Pulls!Owners!OwnershipAssumption
  <1>3. Settings!ConnectionSettingsAssumption => Pulls!Settings!ConnectionSettingsAssumption
    BY DEF
     Settings!ConnectionSettingsAssumption, Pulls!Settings!ConnectionSettingsAssumption
  <1>4. Lists!MeteringAssumption => Pulls!MeteringAssumption
    BY DEF
     Lists!MeteringAssumption, Pulls!MeteringAssumption
  <1>5. Queries!QueryCacheAssumption => Kept!Queries!QueryCacheAssumption
    BY DEF
     Queries!QueryCacheAssumption, Kept!Queries!QueryCacheAssumption
  <1>6. Amounts!BudgetAmountsAssumption => Kept!Budgets!BudgetAmountsAssumption
    BY DEF
     Amounts!BudgetAmountsAssumption, Kept!Budgets!BudgetAmountsAssumption
  <1>7. Evidence!ReadinessAssumption => Kept!Evidence!ReadinessAssumption
    BY DEF
     Evidence!ReadinessAssumption, Kept!Evidence!ReadinessAssumption
  <1>8. Pulls!ScheduleAssumption
    BY <1>1, ServicesAssumption DEF Pulls!ScheduleAssumption
  <1>9. Kept!AllocationAssumption
    BY DEF Kept!AllocationAssumption, Kept!Rules!Days
  <1>10. Verdicts!BudgetEvaluationAssumption => Pulls!Verdicts!BudgetEvaluationAssumption
    BY DEF
     Verdicts!BudgetEvaluationAssumption, Pulls!Verdicts!BudgetEvaluationAssumption
  <1>11. Inventory!DiscoveryAssumption => Pulls!Inventory!DiscoveryAssumption
    BY DEF
     Inventory!DiscoveryAssumption, Pulls!Inventory!DiscoveryAssumption
  <1> QED BY <1>1, <1>2, <1>3, <1>4, <1>5, <1>6, <1>7, <1>8, <1>9, <1>10, <1>11, ServicesAssumption

LEMMA PartsInit == ServicesInit => PartsInv
  <1> SUFFICES ASSUME ServicesInit PROVE PartsInv
    OBVIOUS
  <1>1. turn = "schedule" => Pulls!SchedInv
    BY PartsAssumption, ScheduleBegins, Pulls!SchedInit DEF ServicesInit
  <1>2. turn = "once" => Pulls!OnceInv
    BY PartsAssumption, OnceBegins, Pulls!OnceInit DEF ServicesInit
  <1>3. turn = "owners" => Pulls!OwnersInv
    BY PartsAssumption, OwnersBegins, Pulls!OwnersInit DEF ServicesInit
  <1>4. turn = "settings" => Pulls!SettingsInv
    BY PartsAssumption, SettingsBegins, Pulls!SettingsInit DEF ServicesInit
  <1>5. turn = "lists" => Pulls!ListInv
    BY PartsAssumption, ListsBegins, Pulls!ListInit DEF ServicesInit
  <1>6. turn = "queries" => Kept!QueriesInv
    BY PartsAssumption, QueriesBegins, Kept!QueriesInit DEF ServicesInit
  <1>7. turn = "amounts" => Kept!AmountsInv
    BY PartsAssumption, AmountsBegins, Kept!AmountsInit DEF ServicesInit
  <1>8. turn = "import" => Kept!ImportInv
    BY PartsAssumption, ImportBegins, Kept!ImportInit DEF ServicesInit
  <1>9. turn = "leaving" => Kept!Stopped
    BY PartsAssumption, LeavingBegins, Kept!StoppedInit DEF ServicesInit
  <1>10. turn = "mails" => Kept!MailsInv
    BY PartsAssumption, MailsBegins, Kept!MailsInit DEF ServicesInit
  <1>11. turn = "rules" => Kept!DisjointInv
    BY PartsAssumption, RulesBegins, Kept!DisjointInit DEF ServicesInit
  <1>12. turn = "handoff" => Kept!HandoffInv
    BY PartsAssumption, HandoffBegins, Kept!HandoffInit DEF ServicesInit
  <1>13. turn = "evidence" => Kept!EvidenceInv /\ Kept!Evidence!TypeOK
    BY PartsAssumption, EvidenceBegins, Kept!EvidenceInit, Kept!EvidenceTypesInit DEF ServicesInit
  <1>14. IInv /\ turn \in {"activation", "schedule", "once", "owners", "settings", "lists", "queries", "amounts", "import", "leaving", "mails", "rules", "handoff", "evidence", "verdicts", "inventory"}
    BY InitInv DEF ServicesInit
  <1>15. turn = "verdicts" => Pulls!VerdictInv
    BY PartsAssumption, VerdictsBegins, Pulls!VerdictInit DEF ServicesInit
  <1>16. turn = "inventory" => Pulls!Inventory!TypeOK
    BY PartsAssumption, InventoryBegins, Pulls!InventoryInit DEF ServicesInit
  <1> QED BY <1>1, <1>2, <1>3, <1>4, <1>5, <1>6, <1>7, <1>8, <1>9, <1>10, <1>11, <1>12, <1>13,
      <1>14, <1>15, <1>16 DEF PartsInv

LEMMA PartsStep == PartsInv /\ [ServicesNext]_<<turn, vars, shared>> => PartsInv'
  <1> SUFFICES ASSUME PartsInv, [ServicesNext]_<<turn, vars, shared>> PROVE PartsInv'
    OBVIOUS
  <1>1. turn = "schedule" => Pulls!SchedInv'
    BY PartsAssumption, SchedulePart, Pulls!SchedNext DEF PartsInv
  <1>2. turn = "once" => Pulls!OnceInv'
    BY PartsAssumption, OncePart, Pulls!OnceNext DEF PartsInv
  <1>3. turn = "owners" => Pulls!OwnersInv'
    BY PartsAssumption, OwnersPart, Pulls!OwnersNext DEF PartsInv
  <1>4. turn = "settings" => Pulls!SettingsInv'
    BY PartsAssumption, SettingsPart, Pulls!SettingsNext DEF PartsInv
  <1>5. turn = "lists" => Pulls!ListInv'
    BY PartsAssumption, ListsPart, Pulls!ListNext DEF PartsInv
  <1>6. turn = "queries" => Kept!QueriesInv'
    BY PartsAssumption, QueriesPart, Kept!QueriesNext DEF PartsInv
  <1>7. turn = "amounts" => Kept!AmountsInv'
    BY PartsAssumption, AmountsPart, Kept!AmountsNext DEF PartsInv
  <1>8. turn = "import" => Kept!ImportInv'
    BY PartsAssumption, ImportPart, Kept!ImportNext DEF PartsInv
  <1>9. turn = "leaving" => Kept!Stopped'
    BY PartsAssumption, LeavingPart, Kept!StoppedNext DEF PartsInv
  <1>10. turn = "mails" => Kept!MailsInv'
    BY PartsAssumption, MailsPart, Kept!MailsNext DEF PartsInv
  <1>11. turn = "rules" => Kept!DisjointInv'
    BY PartsAssumption, RulesPart, Kept!DisjointNext DEF PartsInv, Kept!OneEditor
  <1>12. turn = "handoff" => Kept!HandoffInv'
    BY PartsAssumption, HandoffPart, Kept!HandoffNext DEF PartsInv
  <1>13. turn = "evidence" => Kept!EvidenceInv' /\ Kept!Evidence!TypeOK'
    BY PartsAssumption, EvidencePart, Kept!EvidenceNext, Kept!EvidenceTypesNext DEF PartsInv
  <1>14. turn' = turn /\ IInv'
    BY ActivationPart, NextInv DEF PartsInv
  <1>15. turn = "verdicts" => Pulls!VerdictInv'
    BY PartsAssumption, VerdictsPart, Pulls!VerdictNext DEF PartsInv
  <1>16. turn = "inventory" => Pulls!Inventory!TypeOK'
    BY PartsAssumption, InventoryPart, Pulls!InventoryNext DEF PartsInv
  <1> QED BY <1>1, <1>2, <1>3, <1>4, <1>5, <1>6, <1>7, <1>8, <1>9, <1>10, <1>11, <1>12, <1>13,
      <1>14, <1>15, <1>16 DEF PartsInv

LEMMA PartsInvariance == ServicesSpec => []PartsInv
  BY PartsInit, PartsStep, PTL DEF ServicesSpec

-----------------------------------------------------------------------------
(* What the run checks.                                                     *)

\* Every component's variables keep their types, of the activation for every set of requests, of
\* the others on the instance whose general case the proof modules have.
THEOREM ServicesTypes == ServicesSpec => []ServicesTypeOK
  <1> SUFFICES ASSUME PartsInv PROVE ServicesTypeOK
    BY PartsInvariance, PTL
  <1>1. turn = "schedule" => Schedule!TypeOK
    <2>1. Pulls!Schedule!TypeOK => Schedule!TypeOK
      BY DEF
     Schedule!TypeOK, Pulls!Schedule!TypeOK, Schedule!Slots, Pulls!Schedule!Slots,
     Schedule!KindNames, Pulls!Schedule!KindNames, Schedule!Processes, Pulls!Schedule!Processes,
     Schedule!Rows, Pulls!Schedule!Rows, Schedule!Months, Pulls!Schedule!Months, Schedule!Active,
     Pulls!Schedule!Active
    <2> QED BY <2>1, PartsAssumption, Pulls!SchedMeans DEF PartsInv
  <1>2. turn = "once" => Once!TypeOK
    <2>1. Pulls!Once!TypeOK => Once!TypeOK
      BY DEF
     Once!TypeOK, Pulls!Once!TypeOK
    <2> QED BY <2>1 DEF PartsInv, Pulls!OnceInv
  <1>3. turn = "owners" => Owners!TypeOK
    <2>1. Pulls!Owners!TypeOK => Owners!TypeOK
      BY DEF
     Owners!TypeOK, Pulls!Owners!TypeOK, Owners!Assignment, Pulls!Owners!Assignment, Owners!Days,
     Pulls!Owners!Days, Owners!Absent, Pulls!Owners!Absent, Owners!Unowned, Pulls!Owners!Unowned,
     Owners!Forever, Pulls!Owners!Forever
    <2> QED BY <2>1, Pulls!OwnersMean DEF PartsInv
  <1>4. turn = "settings" => Settings!TypeOK
    <2>1. Pulls!Settings!TypeOK => Settings!TypeOK
      BY DEF
     Settings!TypeOK, Pulls!Settings!TypeOK, Settings!Rows, Pulls!Settings!Rows,
     Settings!WebRequests, Pulls!Settings!WebRequests, Settings!Jobs, Pulls!Settings!Jobs,
     Settings!Settings, Pulls!Settings!Settings, Settings!Idle, Pulls!Settings!Idle
    <2> QED BY <2>1, Pulls!SettingsMean DEF PartsInv
  <1>5. turn = "lists" => Lists!TypeOK
    <2>1. Pulls!TypeOK => Lists!TypeOK
      BY DEF
     Lists!TypeOK, Pulls!TypeOK, Lists!Listings, Pulls!Listings, Lists!Steps, Pulls!Steps,
     Lists!Pages, Pulls!Pages, Lists!Tokens, Pulls!Tokens, Lists!Outcomes, Pulls!Outcomes
    <2> QED BY <2>1, Pulls!ListMeans DEF PartsInv
  <1>6. turn = "queries" => Queries!TypeOK
    <2>1. Kept!Queries!TypeOK => Queries!TypeOK
      BY DEF
     Queries!TypeOK, Kept!Queries!TypeOK, Queries!Queries, Kept!Queries!Queries, Queries!Entries,
     Kept!Queries!Entries, Queries!Kinds, Kept!Queries!Kinds, Queries!NoQuery,
     Kept!Queries!NoQuery
    <2> QED BY <2>1 DEF PartsInv, Kept!QueriesInv
  <1>7. turn = "amounts" => Amounts!TypeOK
    <2>1. Kept!Budgets!TypeOK => Amounts!TypeOK
      BY DEF
     Amounts!TypeOK, Kept!Budgets!TypeOK, Amounts!Row, Kept!Budgets!Row, Amounts!Months,
     Kept!Budgets!Months, Amounts!Unset, Kept!Budgets!Unset, Amounts!Edit, Kept!Budgets!Edit,
     Amounts!Open, Kept!Budgets!Open, Amounts!Idle, Kept!Budgets!Idle
    <2> QED BY <2>1 DEF PartsInv, Kept!AmountsInv
  <1>8. turn = "import" => Import!TypeOK
    <2>1. Kept!TypeOK => Import!TypeOK
      BY DEF
     Import!TypeOK, Kept!TypeOK, Import!Ids, Kept!Ids, Import!Identity, Kept!Identity,
     Import!Kinds, Kept!Kinds, Import!Unconnected, Kept!Unconnected, Import!Preview, Kept!Preview,
     Import!Nothing, Kept!Nothing, Import!New, Kept!New, Import!NoPreview, Kept!NoPreview,
     Import!Row, Kept!Row, Import!BudgetRow, Kept!BudgetRow
    <2> QED BY <2>1 DEF PartsInv, Kept!ImportInv
  <1>9. turn = "leaving" => Leaving!TypeOK
    <2>1. Kept!Leaving!TypeOK => Leaving!TypeOK
      BY DEF
     Leaving!TypeOK, Kept!Leaving!TypeOK, Leaving!Record, Kept!Leaving!Record, Leaving!Windows,
     Kept!Leaving!Windows, Leaving!Evidence, Kept!Leaving!Evidence
    <2> QED BY <2>1 DEF PartsInv, Kept!Stopped
  <1>10. turn = "mails" => Mails!TypeOK
    <2>1. Kept!Mails!TypeOK => Mails!TypeOK
      BY DEF
     Mails!TypeOK, Kept!Mails!TypeOK, Mails!Row, Kept!Mails!Row, Mails!Idle, Kept!Mails!Idle,
     Mails!Stages, Kept!Mails!Stages
    <2> QED BY <2>1, Kept!MailsMean DEF PartsInv
  <1>11. turn = "rules" => Rules!TypeOK
    <2>1. Kept!Rules!TypeOK => Rules!TypeOK
      BY DEF
     Rules!TypeOK, Kept!Rules!TypeOK, Rules!Forever, Kept!Rules!Forever, Rules!Rule,
     Kept!Rules!Rule, Rules!Days, Kept!Rules!Days, Rules!Row, Kept!Rules!Row, Rules!Nothing,
     Kept!Rules!Nothing, Rules!Idle, Kept!Rules!Idle, Rules!Months, Kept!Rules!Months,
     Rules!UsesAccounts, Kept!Rules!UsesAccounts
    <2> QED BY <2>1, PartsAssumption, Kept!AllocationTypes DEF PartsInv, Kept!DisjointInv
  <1>12. turn = "handoff" => Handoff!TypeOK
    <2>1. Kept!Handoff!TypeOK => Handoff!TypeOK
      BY DEF
     Handoff!TypeOK, Kept!Handoff!TypeOK, Handoff!Months, Kept!Handoff!Months, Handoff!Figures,
     Kept!Handoff!Figures, Handoff!NoFacts, Kept!Handoff!NoFacts, Handoff!NoSnapshot,
     Kept!Handoff!NoSnapshot, Handoff!States, Kept!Handoff!States, Handoff!Prior,
     Kept!Handoff!Prior, Handoff!Month, Kept!Handoff!Month
    <2> QED BY <2>1 DEF PartsInv, Kept!HandoffInv
  <1>13. turn = "evidence" => Evidence!TypeOK
    <2>1. Kept!Evidence!TypeOK => Evidence!TypeOK
      BY DEF
     Evidence!TypeOK, Kept!Evidence!TypeOK, Evidence!Days, Kept!Evidence!Days, Evidence!Sources,
     Kept!Evidence!Sources, Evidence!Command, Kept!Evidence!Command, Evidence!Run,
     Kept!Evidence!Run, Evidence!Idle, Kept!Evidence!Idle, Evidence!Configurations,
     Kept!Evidence!Configurations
    <2> QED BY <2>1 DEF PartsInv
  <1>14. turn = "activation" => TypeOK
    BY DEF PartsInv, IInv
  <1>15. turn = "verdicts" => Verdicts!TypeOK
    <2>1. Pulls!Verdicts!TypeOK => Verdicts!TypeOK
      BY DEF
     Verdicts!TypeOK, Pulls!Verdicts!TypeOK, Verdicts!Amount, Pulls!Verdicts!Amount,
     Verdicts!Months, Pulls!Verdicts!Months, Verdicts!Coverage, Pulls!Verdicts!Coverage,
     Verdicts!Total, Pulls!Verdicts!Total, Verdicts!NotEvaluated, Pulls!Verdicts!NotEvaluated,
     Verdicts!Verdicts, Pulls!Verdicts!Verdicts, Verdicts!Data, Pulls!Verdicts!Data,
     Verdicts!Evaluators, Pulls!Verdicts!Evaluators, Verdicts!Runs, Pulls!Verdicts!Runs,
     Verdicts!Idle, Pulls!Verdicts!Idle, Verdicts!Unset, Pulls!Verdicts!Unset, Verdicts!Previous,
     Pulls!Verdicts!Previous, Verdicts!Current, Pulls!Verdicts!Current
    <2> QED BY <2>1, Pulls!VerdictMeans DEF PartsInv
  <1>16. turn = "inventory" => Inventory!TypeOK
    <2>1. Pulls!Inventory!TypeOK => Inventory!TypeOK
      BY DEF
     Inventory!TypeOK, Pulls!Inventory!TypeOK, Inventory!Outside, Pulls!Inventory!Outside,
     Inventory!Unseen, Pulls!Inventory!Unseen, Inventory!NoPayer, Pulls!Inventory!NoPayer,
     Inventory!Holders, Pulls!Inventory!Holders, Inventory!Run, Pulls!Inventory!Run
    <2> QED BY <2>1 DEF PartsInv
  <1> QED BY <1>1, <1>2, <1>3, <1>4, <1>5, <1>6, <1>7, <1>8, <1>9, <1>10, <1>11, <1>12, <1>13,
      <1>14, <1>15, <1>16 DEF ServicesTypeOK

\* A request is served in full, a portfolio job is made once, a day has one source and its owner's
\* stamp, verified settings are those AWS accepted, a listing is whole and within its limit.
THEOREM CollectionStaysCoherent == ServicesSpec => []CollectionIsCoherent
  <1> SUFFICES ASSUME PartsInv PROVE CollectionIsCoherent
    BY PartsInvariance, PTL
  <1>1. turn = "schedule" => Schedule!RequestIsServed
    <2>1. Pulls!Schedule!RequestIsServed => Schedule!RequestIsServed
      BY DEF
     Schedule!RequestIsServed, Pulls!Schedule!RequestIsServed
    <2> QED BY <2>1, PartsAssumption, Pulls!SchedMeans DEF PartsInv
  <1>2. turn = "once" => Once!PortfolioOnce
    <2>1. Pulls!Once!PortfolioOnce => Once!PortfolioOnce
      BY DEF
     Once!PortfolioOnce, Pulls!Once!PortfolioOnce
    <2> QED BY <2>1, Pulls!OnceMeans DEF PartsInv
  <1>3. turn = "owners" => Owners!OwnRowsAreStamped /\ Owners!OneSourcePerDay
    <2>1. Pulls!Owners!OwnRowsAreStamped
            /\ Pulls!Owners!OneSourcePerDay => Owners!OwnRowsAreStamped /\ Owners!OneSourcePerDay
      BY DEF
     Owners!OwnRowsAreStamped, Pulls!Owners!OwnRowsAreStamped, Owners!OneSourcePerDay,
     Pulls!Owners!OneSourcePerDay, Owners!Days, Pulls!Owners!Days, Owners!Stamped,
     Pulls!Owners!Stamped, Owners!Absent, Pulls!Owners!Absent, Owners!OwnerIn,
     Pulls!Owners!OwnerIn, Owners!Covers, Pulls!Owners!Covers, Owners!Unowned,
     Pulls!Owners!Unowned
    <2> QED BY <2>1, Pulls!OwnersMean DEF PartsInv
  <1>4. turn = "settings" => Settings!VerifiedIsWhatWasTested
    <2>1. Pulls!Settings!VerifiedIsWhatWasTested => Settings!VerifiedIsWhatWasTested
      BY DEF
     Settings!VerifiedIsWhatWasTested, Pulls!Settings!VerifiedIsWhatWasTested, Settings!Settings,
     Pulls!Settings!Settings
    <2> QED BY <2>1, Pulls!SettingsMean DEF PartsInv
  <1>5. turn = "lists" => Lists!ListingsAreWhole /\ Lists!LimitIsKept
    <2>1. Pulls!ListingsAreWhole /\ Pulls!LimitIsKept => Lists!ListingsAreWhole /\ Lists!LimitIsKept
      BY DEF
     Lists!ListingsAreWhole, Pulls!ListingsAreWhole, Lists!LimitIsKept, Pulls!LimitIsKept,
     Lists!Cardinality, Pulls!Cardinality, Lists!IsFiniteSet, Pulls!IsFiniteSet
    <2> QED BY <2>1, Pulls!ListMeans DEF PartsInv
  <1> QED BY <1>1, <1>2, <1>3, <1>4, <1>5 DEF CollectionIsCoherent

\* Answers stay wiped, rules stay disjoint, a preview is applied once, a mail leaves once, a
\* customer is ready on evidence of what it owns and a verdict has its alert, whatever runs at the
\* same time.
THEOREM RecordsStayWhole == ServicesSpec => []RecordsAreWhole
  <1> SUFFICES ASSUME PartsInv PROVE RecordsAreWhole
    BY PartsInvariance, PTL
  <1>1. turn = "queries" => Queries!WipedStaysEmpty
    <2>1. Kept!Queries!WipedStaysEmpty => Queries!WipedStaysEmpty
      BY DEF
     Queries!WipedStaysEmpty, Kept!Queries!WipedStaysEmpty
    <2> QED BY <2>1 DEF PartsInv, Kept!QueriesInv, Kept!Emptied, Kept!Queries!WipedStaysEmpty
  <1>2. turn = "rules" => Rules!RulesAreDisjoint
    <2>1. Kept!Rules!RulesAreDisjoint => Rules!RulesAreDisjoint
      BY DEF
     Rules!RulesAreDisjoint, Kept!Rules!RulesAreDisjoint, Rules!OverlappingDates,
     Kept!Rules!OverlappingDates, Rules!LeavesOut, Kept!Rules!LeavesOut, Rules!ScopeOf,
     Kept!Rules!ScopeOf, Rules!SelectsSame, Kept!Rules!SelectsSame, Rules!UsesAccounts,
     Kept!Rules!UsesAccounts, Rules!Dimension, Kept!Rules!Dimension
    <2> QED BY <2>1, PartsAssumption, Kept!ApartMeans DEF PartsInv, Kept!ByAccountAndTag
  <1>3. turn = "import" => Import!AppliedOnce
    <2>1. Kept!AppliedOnce => Import!AppliedOnce
      BY DEF
     Import!AppliedOnce, Kept!AppliedOnce
    <2> QED BY <2>1, Kept!ImportedOnce DEF PartsInv
  <1>4. turn = "mails" => Mails!MailsAreAccountedFor
    <2>1. Kept!Mails!MailsAreAccountedFor => Mails!MailsAreAccountedFor
      BY DEF
     Mails!MailsAreAccountedFor, Kept!Mails!MailsAreAccountedFor, Mails!Stages, Kept!Mails!Stages
    <2> QED BY <2>1, Kept!MailsMean DEF PartsInv
  <1>5. turn = "evidence" => Evidence!EvidenceIsCurrent
    <2>1. Kept!Evidence!EvidenceIsCurrent => Evidence!EvidenceIsCurrent
      BY DEF
     Evidence!EvidenceIsCurrent, Kept!Evidence!EvidenceIsCurrent, Evidence!Ready,
     Kept!Evidence!Ready, Evidence!Counts, Kept!Evidence!Counts, Evidence!Undisturbed,
     Kept!Evidence!Undisturbed, Evidence!CustomerSources, Kept!Evidence!CustomerSources,
     Evidence!Configuration, Kept!Evidence!Configuration, Evidence!Sources, Kept!Evidence!Sources
    <2> QED BY <2>1, Kept!ReadyIsCurrent DEF PartsInv
  <1>6. turn = "verdicts" => Verdicts!VerdictsAreAlerted
    <2>1. Pulls!Verdicts!VerdictsAreAlerted => Verdicts!VerdictsAreAlerted
      BY DEF
     Verdicts!VerdictsAreAlerted, Pulls!Verdicts!VerdictsAreAlerted, Verdicts!Months,
     Pulls!Verdicts!Months, Verdicts!NotEvaluated, Pulls!Verdicts!NotEvaluated, Verdicts!Previous,
     Pulls!Verdicts!Previous, Verdicts!Current, Pulls!Verdicts!Current
    <2> QED BY <2>1, Pulls!VerdictMeans DEF PartsInv
  <1> QED BY <1>1, <1>2, <1>3, <1>4, <1>5, <1>6 DEF RecordsAreWhole

\* A slot is pulled once, whatever its schedulers and its users do at once.
THEOREM SlotStaysPulledOnce == ServicesSpec => SlotPulledOnce
  <1>1. ASSUME PartsInv, [ServicesNext]_<<turn, vars, shared>>
        PROVE  [turn = "schedule" => Schedule!SlotPulledOnce]_<<turn, vars, shared>>
    <2>1. turn = "schedule" => Schedule!SlotPulledOnce
      <3>1. turn = "schedule" => [Pulls!Schedule!SlotPulledOnce]_(Pulls!Schedule!vars)
        BY <1>1, PartsAssumption, SchedulePart, Pulls!SlotStep DEF PartsInv
      <3>2. UNCHANGED Pulls!Schedule!vars => Schedule!SlotPulledOnce
        BY DEF Pulls!Schedule!vars, Pulls!Schedule!clock, Pulls!Schedule!source,
     Schedule!SlotPulledOnce, Schedule!Rows
      <3>3. Pulls!Schedule!SlotPulledOnce => Schedule!SlotPulledOnce
        BY DEF
     Schedule!SlotPulledOnce, Pulls!Schedule!SlotPulledOnce, Schedule!Rows, Pulls!Schedule!Rows
      <3> QED BY <3>1, <3>2, <3>3
    <2> QED BY <2>1
  <1> QED BY <1>1, PartsInvariance, PTL DEF ServicesSpec, SlotPulledOnce

\* Limits and allocations of the past, the figures a handoff was recorded and closed on, a deletion,
\* the customer a connection went to, an acknowledgement and an assignment stay what they were.
THEOREM SettledStaysKept == ServicesSpec => SettledIsKept
  <1>1. ASSUME PartsInv, [ServicesNext]_<<turn, vars, shared>>
        PROVE  [/\ turn = "amounts" => Amounts!HistoryIsPreserved /\ Amounts!NoMonthLosesItsLimit
                /\ turn = "rules" => Rules!HistoryIsKept
                /\ turn = "handoff" => Handoff!HandoffsAreSound
                /\ turn = "leaving" => Leaving!DeletesOnce
                /\ turn = "import" => Import!NamesDoNotMerge
                /\ turn = "mails" => Mails!AcknowledgedStaysQuiet
                /\ turn = "inventory" => Inventory!AssignmentIsKept]_<<turn, vars, shared>>
    <2>1. turn = "amounts" => Amounts!HistoryIsPreserved /\ Amounts!NoMonthLosesItsLimit
      <3>1. turn = "amounts" => Kept!Budgets!HistoryIsPreserved /\ Kept!Budgets!NoMonthLosesItsLimit
        BY <1>1, PartsAssumption, AmountsPart, Kept!BudgetsHistoryStep, Kept!LimitStep DEF PartsInv
      <3>3. Kept!Budgets!HistoryIsPreserved
              /\ Kept!Budgets!NoMonthLosesItsLimit => Amounts!HistoryIsPreserved
                 /\ Amounts!NoMonthLosesItsLimit
        BY DEF
     Amounts!HistoryIsPreserved, Kept!Budgets!HistoryIsPreserved, Amounts!NoMonthLosesItsLimit,
     Kept!Budgets!NoMonthLosesItsLimit, Amounts!Write, Kept!Budgets!Write, Amounts!OvertakenOnce,
     Kept!Budgets!OvertakenOnce, Amounts!Months, Kept!Budgets!Months, Amounts!AmountFor,
     Kept!Budgets!AmountFor, Amounts!Closed, Kept!Budgets!Closed, Amounts!Stored,
     Kept!Budgets!Stored, Amounts!Same, Kept!Budgets!Same, Amounts!Open, Kept!Budgets!Open,
     Amounts!Idle, Kept!Budgets!Idle, Amounts!Unset, Kept!Budgets!Unset, Amounts!InForce,
     Kept!Budgets!InForce, Amounts!Closing, Kept!Budgets!Closing, Amounts!Replaced,
     Kept!Budgets!Replaced
      <3> QED BY <3>1, <3>3
    <2>2. turn = "rules" => Rules!HistoryIsKept
      <3>1. turn = "rules" => Kept!Rules!HistoryIsKept
        BY <1>1, PartsAssumption, RulesPart, Kept!RulesHistoryStep DEF PartsInv, Kept!DisjointInv
      <3>3. Kept!Rules!HistoryIsKept => Rules!HistoryIsKept
        BY DEF
     Rules!HistoryIsKept, Kept!Rules!HistoryIsKept, Rules!First, Kept!Rules!First
      <3> QED BY <3>1, <3>3
    <2>3. turn = "handoff" => Handoff!HandoffsAreSound
      <3>1. turn = "handoff" => Kept!Handoff!HandoffsAreSound
        BY <1>1, PartsAssumption, HandoffPart, Kept!SoundStep DEF PartsInv
      <3>3. Kept!Handoff!HandoffsAreSound => Handoff!HandoffsAreSound
        BY DEF
     Handoff!HandoffsAreSound, Kept!Handoff!HandoffsAreSound, Handoff!Finish, Kept!Handoff!Finish,
     Handoff!AllLocked, Kept!Handoff!AllLocked, Handoff!Value, Kept!Handoff!Value, Handoff!Month,
     Kept!Handoff!Month, Handoff!Prior, Kept!Handoff!Prior, Handoff!Snapshot,
     Kept!Handoff!Snapshot, Handoff!Totals, Kept!Handoff!Totals, Handoff!Accepted,
     Kept!Handoff!Accepted, Handoff!Away, Kept!Handoff!Away, Handoff!KnownSources,
     Kept!Handoff!KnownSources, Handoff!Collecting, Kept!Handoff!Collecting, Handoff!None,
     Kept!Handoff!None, Handoff!AmountOf, Kept!Handoff!AmountOf, Handoff!Months,
     Kept!Handoff!Months, Handoff!ServiceAmount, Kept!Handoff!ServiceAmount, Handoff!State,
     Kept!Handoff!State, Handoff!SeenVersion, Kept!Handoff!SeenVersion, Handoff!FormValid,
     Kept!Handoff!FormValid, Handoff!Capturable, Kept!Handoff!Capturable, Handoff!Revised,
     Kept!Handoff!Revised, Handoff!NoFacts, Kept!Handoff!NoFacts, Handoff!Amount,
     Kept!Handoff!Amount, Handoff!Covered, Kept!Handoff!Covered, Handoff!Estimated,
     Kept!Handoff!Estimated, Handoff!NoSnapshot, Kept!Handoff!NoSnapshot, Handoff!Closable,
     Kept!Handoff!Closable, Handoff!Behind, Kept!Handoff!Behind, Handoff!Running,
     Kept!Handoff!Running,
     Handoff!SumFunction, Kept!Handoff!SumFunction, Handoff!SumFunctionOnSet,
     Kept!Handoff!SumFunctionOnSet, Handoff!FoldFunctionOnSet, Kept!Handoff!FoldFunctionOnSet,
     Handoff!MapThenFoldSet, Kept!Handoff!MapThenFoldSet
      <3> QED BY <3>1, <3>3
    <2>4. turn = "leaving" => Leaving!DeletesOnce
      <3>1. turn = "leaving" => Kept!Leaving!DeletesOnce
        BY <1>1, PartsAssumption, LeavingPart, Kept!StoppedDeletes DEF PartsInv
      <3>3. Kept!Leaving!DeletesOnce => Leaving!DeletesOnce
        BY DEF
     Leaving!DeletesOnce, Kept!Leaving!DeletesOnce, Leaving!PurgeCommit, Kept!Leaving!PurgeCommit,
     Leaving!NoRecord, Kept!Leaving!NoRecord
      <3> QED BY <3>1, <3>3
    <2>5. turn = "import" => Import!NamesDoNotMerge
      <3>1. turn = "import" => Kept!NamesDoNotMerge
        BY <1>1, PartsAssumption, ImportPart, Kept!MergeStep DEF PartsInv
      <3>3. Kept!NamesDoNotMerge => Import!NamesDoNotMerge
        BY DEF
     Import!NamesDoNotMerge, Kept!NamesDoNotMerge, Import!CommitCustomers, Kept!CommitCustomers,
     Import!Nothing, Kept!Nothing, Import!Numbering, Kept!Numbering, Import!NewNames,
     Kept!NewNames, Import!New, Kept!New, Import!SameIdentity, Kept!SameIdentity,
     Import!Unconnected, Kept!Unconnected, Import!Owner, Kept!Owner, Import!Ids, Kept!Ids,
     Import!Named, Kept!Named
      <3> QED BY <3>1, <3>3
    <2>6. turn = "mails" => Mails!AcknowledgedStaysQuiet
      <3>1. turn = "mails" => [Kept!Mails!AcknowledgedStaysQuiet]_(Kept!Mails!vars)
        BY <1>1, PartsAssumption, MailsPart, Kept!QuietStep DEF PartsInv
      <3>2. UNCHANGED Kept!Mails!vars => Mails!AcknowledgedStaysQuiet
        BY DEF Kept!Mails!vars,
     Mails!AcknowledgedStaysQuiet
      <3>3. Kept!Mails!AcknowledgedStaysQuiet => Mails!AcknowledgedStaysQuiet
        BY DEF
     Mails!AcknowledgedStaysQuiet, Kept!Mails!AcknowledgedStaysQuiet
      <3> QED BY <3>1, <3>2, <3>3
    <2>7. turn = "inventory" => Inventory!AssignmentIsKept
      <3>1. turn = "inventory" => Pulls!Inventory!AssignmentIsKept
        BY <1>1, InventoryPart, Pulls!AssignmentStep DEF PartsInv
      <3>2. Pulls!Inventory!AssignmentIsKept => Inventory!AssignmentIsKept
        BY DEF
     Inventory!AssignmentIsKept, Pulls!Inventory!AssignmentIsKept, Inventory!NoPayer,
     Pulls!Inventory!NoPayer
      <3> QED BY <3>1, <3>2
    <2> QED BY <2>1, <2>2, <2>3, <2>4, <2>5, <2>6, <2>7
  <1> QED BY <1>1, PartsInvariance, PTL DEF ServicesSpec, SettledIsKept
=============================================================================
