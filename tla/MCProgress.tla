----------------------------- MODULE MCProgress -----------------------------
(***************************************************************************)
(* What must eventually happen, of the components that run without a lease *)
(* of their own or feed one: the activation coordinator, the scheduler,    *)
(* the query cache, the evaluation of budgets, discovery and the alert     *)
(* mails, in small instances and in one run for TLC.  They do not          *)
(* interact: `turn` says which one the behaviour is of, and the others     *)
(* stay in one of their initial states.                                    *)
(***************************************************************************)
EXTENDS Activation

VARIABLES turn,
    slot, reconcile, ready, initialized, last, rowLock, table, txn, answer,
    key, inUse, scope, cache, queued, page, worker, wiped, crashes,
    active, limit, period, spend, evaluation, alerts, evaluator, changes,
    member, bills, account, assigned, settings, discovering, moves,
    event, overdue, routed, mailer, request, mailed, failures

Schedule == INSTANCE Scheduler WITH
    Schedulers <- {"s1"}, Clients <- {"c1"}, MaxSlots <- 1, MaxJobs <- 4, MaxAttempts <- 1,
    History <- 6, FullMonths <- 6, Reconciles <- {1, 3}, srcLock <- rowLock

Queries == INSTANCE QueryCache WITH MaxKey <- 2, MaxScope <- 1, MaxCrashes <- 1, enabled <- inUse

Budgets == INSTANCE BudgetEvaluation WITH
    Sources <- {"s"}, Limits <- {1, 2}, AlertAt <- 50, WarnAt <- 100, MaxSpend <- 1, MaxForecast <- 3, MaxChanges <- 1, run <- evaluator

Inventory == INSTANCE Discovery WITH
    Payers <- {"p1", "p2"}, Accounts <- {"a"}, Billed <- {"p2"}, Shared <- {"p2"}, Approved <- {"a"},
    MaxMoves <- 1, MaxChanges <- 1, version <- settings, run <- discovering

Mails == INSTANCE Alerts WITH
    Events <- {"e1", "e2"}, Monitors <- {"m1"}, Operators <- {"o1"}, MaxFailures <- 1, run <- mailer

ASSUME Budgets!BudgetEvaluationAssumption

scheduleVars == <<slot, reconcile, ready, initialized, last, rowLock, table, txn, answer>>
queryVars == <<key, inUse, scope, cache, queued, page, worker, wiped, crashes>>
budgetVars == <<active, limit, period, spend, evaluation, alerts, evaluator, changes>>
inventoryVars == <<member, bills, account, assigned, settings, discovering, moves>>
mailVars == <<event, overdue, routed, mailer, request, mailed, failures>>
others == <<scheduleVars, queryVars, budgetVars, inventoryVars, mailVars>>

-----------------------------------------------------------------------------
\* Where a component that has no turn stays.
Parked ==
    /\ turn # "activation" => enabled /\ customer = "none" /\ role = "none"
    /\ turn # "schedule" => ~ready /\ initialized /\ reconcile = [s \in Schedule!Slots |-> 1]
    /\ turn # "budgets" => period = [s \in {"s"} |-> [m \in Budgets!Months |-> "absent"]]
    /\ turn # "inventory" => member = [a \in {"a"} |-> Inventory!Outside]

ProgressInit ==
    /\ turn \in {"activation", "schedule", "queries", "budgets", "inventory", "mails"}
    /\ Init /\ Schedule!Init /\ Queries!Init /\ Budgets!Init /\ Inventory!Init /\ Mails!Init
    /\ Parked

ActivationTurn == turn = "activation" /\ Next /\ UNCHANGED others
ScheduleTurn ==
    turn = "schedule" /\ Schedule!Next
    /\ UNCHANGED <<vars, queryVars, budgetVars, inventoryVars, mailVars>>
QueriesTurn ==
    turn = "queries" /\ Queries!Next
    /\ UNCHANGED <<vars, scheduleVars, budgetVars, inventoryVars, mailVars>>
BudgetsTurn ==
    turn = "budgets" /\ Budgets!Next
    /\ UNCHANGED <<vars, scheduleVars, queryVars, inventoryVars, mailVars>>
InventoryTurn ==
    turn = "inventory" /\ Inventory!Next
    /\ UNCHANGED <<vars, scheduleVars, queryVars, budgetVars, mailVars>>
MailsTurn ==
    turn = "mails" /\ Mails!Next
    /\ UNCHANGED <<vars, scheduleVars, queryVars, budgetVars, inventoryVars>>

ProgressNext ==
    /\ UNCHANGED turn
    /\ ActivationTurn \/ ScheduleTurn \/ QueriesTurn \/ BudgetsTurn \/ InventoryTurn \/ MailsTurn

\* The fairness of each module, for the component whose turn it is.
ProgressFairness ==
    /\ WF_vars(turn = "activation" /\ Coordinator) /\ WF_vars(turn = "activation" /\ Collector)
    /\ WF_vars(turn = "activation" /\ CommitRevocation) /\ WF_vars(turn = "activation" /\ AbortRevocation)
    /\ WF_scheduleVars(turn = "schedule" /\ Schedule!Tick("s1"))
    /\ WF_scheduleVars(turn = "schedule" /\ \E p \in Schedule!Processes :
                             Schedule!Look(p) \/ Schedule!WriteTick(p) \/ Schedule!WriteRequest(p))
    /\ SF_scheduleVars(turn = "schedule" /\ Schedule!Worker)
    /\ WF_queryVars(turn = "queries" /\ Queries!Worker)
    /\ WF_queryVars(turn = "queries" /\ Queries!GetQuery)
    /\ WF_queryVars(turn = "queries" /\ Queries!Slot)
    /\ WF_budgetVars(turn = "budgets" /\ Budgets!WorkerBegin)
    /\ \A e \in Budgets!Evaluators :
         WF_budgetVars(turn = "budgets" /\ (Budgets!ReadStatus(e) \/ Budgets!ReadRows(e) \/ Budgets!Persist(e)))
    /\ \A p \in {"p1", "p2"} :
         /\ WF_inventoryVars(turn = "inventory" /\ Inventory!Ask(p))
         /\ \A h \in Inventory!Holders : WF_inventoryVars(turn = "inventory" /\ Inventory!Write(p, h))
         /\ WF_inventoryVars(turn = "inventory" /\ Inventory!Forget(p, "a"))
    /\ WF_mailVars(turn = "mails" /\ Mails!Scan("m1"))
    /\ WF_mailVars(turn = "mails" /\ Mails!DeliverBegin("m1"))
    /\ WF_mailVars(turn = "mails" /\
                         (Mails!Commit("m1") \/ \E e \in {"e1", "e2"} : Mails!Skip("m1", e) \/ Mails!Mail("m1", e)))

ProgressSpec == ProgressInit /\ [][ProgressNext]_<<turn, vars, others>> /\ ProgressFairness

-----------------------------------------------------------------------------
\* A slot of an approved connection is pulled, whatever people ask for meanwhile
\* (scheduler.py).
SlotIsPulled == Schedule!SlotIsPulled

\* A query a user is waiting for, and an alert some route takes, is dealt with: answered,
\* refused or given up; mailed or acknowledged (query_cache.py, notifications.py).
RequestsAreAnswered == Queries!RequestsAreSettled /\ Mails!AlertsAreDelivered

\* Stored verdicts and the inventory come to agree with the costs and with AWS once those
\* stop changing, whichever run reads first and writes last (budgets.py, collector.py).
RecordsConverge ==
    /\ \A m \in Budgets!Months : <>[](turn = "budgets" /\ active => Budgets!CaughtUp(m))
    /\ Inventory!InventoryConverges
=============================================================================
