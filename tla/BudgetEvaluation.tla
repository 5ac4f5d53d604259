-------------------------- MODULE BudgetEvaluation --------------------------
(***************************************************************************)
(* The verdict on one budget of a customer (budgets.py:50-190): the worker *)
(* evaluates the current and the previous month in every slot, and a web   *)
(* request evaluates a month on demand or after it changes the limit.  An  *)
(* evaluation reads the limit, the coverage and the costs one statement    *)
(* after the other while collection publishes, then stores its verdict.    *)
(***************************************************************************)
EXTENDS Naturals

CONSTANTS
    Sources,        \* connections of the budget's scope
    Limits,         \* monthly limits
    AlertAt, WarnAt,    \* actual_threshold and forecast_threshold, in percent
    MaxSpend, MaxForecast,  \* bounds: costs of the scope in a month, and what is forecast
    MaxChanges      \* bound: changes of the data and of the limit, and evaluations that fail

BudgetEvaluationAssumption ==
    /\ Sources # {} /\ Limits \subseteq Nat \ {0}
    /\ AlertAt \in Nat /\ WarnAt \in Nat /\ MaxSpend \in Nat /\ MaxForecast \in Nat /\ MaxChanges \in Nat

Previous == 1
Current == 2
Months == {Previous, Current}
Unset == 0          \* no limit is in force

VARIABLES
    active,         \* the budget is evaluated
    limit,          \* what amount_for answers
    period,         \* source, month -> coverage row; "old": the last success is out of date
    spend,          \* month -> the scope's published costs, 0 where there are none
    evaluation,     \* month -> the stored verdict
    alerts,         \* month -> thresholds reached
    run,            \* the evaluation of the worker and of a web request
    changes

vars == <<active, limit, period, spend, evaluation, alerts, run, changes>>

Evaluators == {"worker", "web"}
Coverage == {"absent", "pending", "complete", "old", "partial", "failed"}
Verdicts == {"Not configured", "No data", "Over budget", "Forecast over budget",
             "At risk", "Unverified", "Within budget"}
NotEvaluated == [status |-> "Not evaluated"]
Idle == [at |-> "idle"]
Data == {"missing", "partial", "stale", "complete"}
Amount == Limits \cup {Unset}
Total == 0..MaxSpend

(* What an evaluation has read of its budget when it is at each statement. *)
Runs ==
    {Idle} \cup [at : {"status"}, month : Months, amount : Amount, sets : Amount]
    \cup [at : {"rows"}, month : Months, amount : Amount, sets : Amount, data : Data]
    \cup [at : {"persist"}, month : Months, amount : Amount, sets : Amount, data : Data, actual : Total]

TypeOK ==
    /\ active \in BOOLEAN /\ limit \in Amount /\ changes \in 0..MaxChanges
    /\ period \in [Sources -> [Months -> Coverage]] /\ spend \in [Months -> Total]
    /\ evaluation \in [Months -> {NotEvaluated} \cup
                            [status : Verdicts, amount : Amount, actual : Total, data : Data]]
    /\ alerts \in [Months -> SUBSET {"actual", "forecast"}]
    /\ run \in [Evaluators -> Runs]

Init ==
    /\ active = TRUE /\ limit = Unset /\ changes = 0
    /\ period \in [Sources -> [Months -> {"absent", "complete"}]]
    /\ spend = [m \in Months |-> 0]
    /\ evaluation = [m \in Months |-> NotEvaluated]
    /\ alerts = [m \in Months |-> {}]
    /\ run = [e \in Evaluators |-> Idle]

----------------------------------------------------------------------------
(* data_status *)
DataStatus(m) ==
    LET of == {period[s][m] : s \in Sources} IN
    IF of = {"absent"} THEN "missing"
    ELSE IF of \cap {"failed", "partial", "absent"} # {} THEN "partial"
    ELSE IF m = Current /\ of \cap {"old", "pending"} # {} THEN "stale"
    ELSE "complete"

(* An AWS forecast, a run rate, or neither; a past month is its own.       *)
Forecasts(m, data, actual) ==
    IF m = Previous THEN {actual}
    ELSE IF data = "missing" THEN {0} ELSE 0..MaxForecast

Reached(amount, value, threshold) == value * 100 >= amount * threshold
Verdict(amount, data, actual, forecast) ==
    IF amount = Unset THEN "Not configured"
    ELSE IF actual = 0 \/ data = "missing" THEN "No data"
    ELSE IF actual > amount THEN "Over budget"
    ELSE IF forecast * 100 > amount * WarnAt THEN "Forecast over budget"
    ELSE IF Reached(amount, actual, AlertAt) THEN "At risk"
    ELSE IF data # "complete" THEN "Unverified"
    ELSE "Within budget"

(* raise_alerts: one per month and threshold *)
Raised(amount, actual, forecast) ==
    IF amount = Unset THEN {}
    ELSE {k \in {"actual", "forecast"} :
            \/ k = "actual" /\ actual # 0 /\ Reached(amount, actual, AlertAt)
            \/ k = "forecast" /\ forecast # 0 /\ Reached(amount, forecast, WarnAt)}

----------------------------------------------------------------------------
(* evaluate_all reads the limits of every budget before the first month;   *)
(* budget_detail reads them before it changes one, and evaluates with what *)
(* it read.                                                                *)
WorkerBegin ==
    /\ run["worker"] = Idle /\ active
    /\ run' = [run EXCEPT !["worker"] = [at |-> "status", month |-> Current, amount |-> limit, sets |-> Unset]]
    /\ UNCHANGED <<active, limit, period, spend, evaluation, alerts, changes>>

WebBegin(m, sets) ==
    /\ run["web"] = Idle
    /\ sets # Unset => m = Current /\ changes < MaxChanges
    /\ changes' = IF sets = Unset THEN changes ELSE changes + 1
    /\ run' = [run EXCEPT !["web"] = [at |-> "status", month |-> m, amount |-> limit, sets |-> sets]]
    /\ UNCHANGED <<active, limit, period, spend, evaluation, alerts>>

ReadStatus(e) ==
    /\ run[e].at = "status"
    /\ run' = [run EXCEPT ![e] = [at |-> "rows", month |-> @.month, amount |-> @.amount, sets |-> @.sets,
                                  data |-> DataStatus(@.month)]]
    /\ UNCHANGED <<active, limit, period, spend, evaluation, alerts, changes>>

ReadRows(e) ==
    /\ run[e].at = "rows"
    /\ run' = [run EXCEPT ![e] = [at |-> "persist", month |-> @.month, amount |-> @.amount, sets |-> @.sets,
                                  data |-> @.data, actual |-> spend[@.month]]]
    /\ UNCHANGED <<active, limit, period, spend, evaluation, alerts, changes>>

\* Mutant: only the current month is evaluated in a slot.
Following_Current(r) == Idle

Following(r) ==
    IF r.month = Current
    THEN [at |-> "status", month |-> Previous, amount |-> r.amount, sets |-> Unset]
    ELSE Idle

(* The verdict and its alerts commit together, and for a web request with  *)
(* the limit it sets.                                                      *)
Persist(e) ==
    LET r == run[e] IN
    /\ r.at = "persist"
    /\ \E f \in Forecasts(r.month, r.data, r.actual) :
         /\ evaluation' = [evaluation EXCEPT ![r.month] =
                [status |-> Verdict(r.amount, r.data, r.actual, f), amount |-> r.amount,
                 actual |-> r.actual, data |-> r.data]]
         /\ alerts' = [alerts EXCEPT ![r.month] = @ \cup Raised(r.amount, r.actual, f)]
    /\ limit' = IF r.sets = Unset THEN limit ELSE r.sets
    /\ run' = [run EXCEPT ![e] = IF e = "worker" THEN Following(r) ELSE Idle]
    /\ UNCHANGED <<active, period, spend, changes>>

(* An exception ends the month for the worker, the request for the web.    *)
Raises(e) ==
    /\ run[e] # Idle /\ changes < MaxChanges /\ changes' = changes + 1
    /\ run' = [run EXCEPT ![e] = IF e = "worker" THEN Following(run[e]) ELSE Idle]
    /\ UNCHANGED <<active, limit, period, spend, evaluation, alerts>>

Deactivate ==
    /\ active
    /\ active' = FALSE
    /\ UNCHANGED <<limit, period, spend, evaluation, alerts, run, changes>>

(* Collection, as an evaluation sees it: the coverage row is there before  *)
(* the first costs; a failure marks it; a success goes out of date.        *)
Cover(s, m, status, costs) ==
    /\ changes < MaxChanges /\ changes' = changes + 1
    /\ period' = [period EXCEPT ![s][m] = status]
    /\ spend' = [spend EXCEPT ![m] = costs]
    /\ UNCHANGED <<active, limit, evaluation, alerts, run>>
Attempt(s, m) == period[s][m] = "absent" /\ Cover(s, m, "pending", spend[m])
Publish(s, m) == period[s][m] # "absent" /\ \E c \in Total : Cover(s, m, "complete", c)
Failure(s, m) ==
    /\ period[s][m] # "absent"
    /\ Cover(s, m, IF period[s][m] \in {"complete", "old"} THEN "partial" ELSE "failed", spend[m])
GoesOld(s, m) == period[s][m] = "complete" /\ Cover(s, m, "old", spend[m])

Next ==
    \/ WorkerBegin \/ Deactivate
    \/ \E m \in Months, l \in Amount : WebBegin(m, l)
    \/ \E e \in Evaluators : ReadStatus(e) \/ ReadRows(e) \/ Persist(e) \/ Raises(e)
    \/ \E s \in Sources, m \in Months : Attempt(s, m) \/ Publish(s, m) \/ Failure(s, m) \/ GoesOld(s, m)

Spec == Init /\ [][Next]_vars

(* The worker runs the job of every slot; an evaluation under way ends.    *)
Fairness ==
    /\ WF_vars(WorkerBegin)
    /\ \A e \in Evaluators : WF_vars(ReadStatus(e) \/ ReadRows(e) \/ Persist(e))
FairSpec == Spec /\ Fairness

----------------------------------------------------------------------------
(* Once the data and the limit stop changing, the stored verdict on both   *)
(* months is the verdict on that data and that limit, with the alert of    *)
(* the actual threshold raised, whichever evaluation read first and wrote  *)
(* last: one that read the old limit or the old costs is corrected.        *)
CaughtUp(m) ==
    /\ evaluation[m] # NotEvaluated
    /\ evaluation[m].amount = limit /\ evaluation[m].actual = spend[m] /\ evaluation[m].data = DataStatus(m)
    /\ limit # Unset /\ spend[m] # 0 /\ Reached(limit, spend[m], AlertAt) => "actual" \in alerts[m]
EvaluationsCatchUp == \A m \in Months : <>[](active => CaughtUp(m))

(* A stored verdict above a threshold has its alert, whichever evaluation  *)
(* wrote it last.                                                          *)
VerdictsAreAlerted ==
    \A m \in Months : evaluation[m] # NotEvaluated =>
      /\ evaluation[m].status = "At risk" => "actual" \in alerts[m]
      /\ evaluation[m].status = "Over budget" /\ AlertAt <= 100 => "actual" \in alerts[m]
      /\ evaluation[m].status = "Forecast over budget" => "forecast" \in alerts[m]

(* "Incomplete or stale data never produces a 'Within budget' verdict."    *)
(* (budgets.py:5-6): a month some source has not published yet is not      *)
(* within the budget.                                                      *)
WithinIsComplete ==
    \A m \in Months :
      evaluation'[m] # evaluation[m] /\ evaluation'[m].status = "Within budget"
      => \A c \in Sources : period[c][m] # "pending"
=============================================================================
