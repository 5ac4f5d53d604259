------------------------------- MODULE Alerts -------------------------------
(***************************************************************************)
(* Operational alerts (monitoring.py): a scan records what it observes     *)
(* under a deduplication key, delivery mails what is due inside one        *)
(* transaction that holds the rows of all open alerts, and an operator     *)
(* acknowledges (views_security.py:88-111).  Monitoring runs as a job of   *)
(* every slot and by hand (check_operations), so two may overlap.          *)
(***************************************************************************)
EXTENDS Naturals, FiniteSets

CONSTANTS
    Events,         \* deduplication keys
    Monitors,       \* runs that may be under way at once
    Operators,      \* requests that acknowledge
    MaxFailures     \* bound: mails that fail, and crashes

VARIABLES
    event,          \* the alert of each key
    overdue,        \* alerts older than the escalation time of their routes
    routed,         \* alerts that some enabled route of their customer takes
    run,            \* what each monitor is doing
    request,        \* operator -> the alert it is acknowledging, as it read it
    mailed,         \* mails that left, per alert and stage (history)
    failures        \* runs that did not commit

vars == <<event, overdue, routed, run, request, mailed, failures>>

Row == [delivered : BOOLEAN, escalated : BOOLEAN, acknowledged : BOOLEAN, seen : BOOLEAN]
Unseen == [delivered |-> FALSE, escalated |-> FALSE, acknowledged |-> FALSE, seen |-> FALSE]
Observed == [Unseen EXCEPT !.seen = TRUE]
Idle == [at |-> "idle"]
Stages == {"alert", "escalation"}

TypeOK ==
    /\ event \in [Events -> Row]
    /\ overdue \subseteq Events /\ routed \subseteq Events
    /\ run \in [Monitors -> {Idle, [at |-> "scanned"]}
                    \cup [at : {"delivering"}, todo : SUBSET Events, sent : SUBSET Events, rows : [Events -> Row]]]
    /\ mailed \in [Events -> [Stages -> Nat]] /\ failures \in 0..MaxFailures
    /\ \A o \in Operators : request[o] = Idle \/ request[o].alert \in Events

Init ==
    /\ event = [e \in Events |-> Unseen]
    /\ overdue = {} /\ routed = {}
    /\ run = [m \in Monitors |-> Idle]
    /\ request = [o \in Operators |-> Idle]
    /\ mailed = [e \in Events |-> [s \in Stages |-> 0]] /\ failures = 0

----------------------------------------------------------------------------
(* scan: every condition that holds is observed; one that was there only   *)
(* counts.                                                                 *)
Scan(m) ==
    /\ run[m] = Idle
    /\ \E found \in SUBSET Events :
         event' = [e \in Events |-> IF e \in found /\ ~ event[e].seen THEN Observed ELSE event[e]]
    /\ run' = [run EXCEPT ![m] = [at |-> "scanned"]]
    /\ UNCHANGED <<overdue, routed, request, mailed, failures>>

\* Mutant: the alerts are read without FOR UPDATE.
Held_Not == {}

Held == UNION {run[m].todo \cup run[m].sent : m \in {n \in Monitors : run[n].at = "delivering"}}
OpenAlerts == {e \in Events : event[e].seen /\ ~ event[e].acknowledged}

(* deliver: SELECT ... FOR UPDATE waits for the rows another run holds.    *)
DeliverBegin(m) ==
    /\ run[m].at = "scanned"
    /\ Held \cap OpenAlerts = {}
    /\ run' = [run EXCEPT ![m] = [at |-> "delivering", todo |-> OpenAlerts, sent |-> {}, rows |-> event]]
    /\ UNCHANGED <<event, overdue, routed, request, mailed, failures>>

Due(m, e) ==
    /\ e \in routed
    /\ ~ run[m].rows[e].delivered \/ (e \in overdue /\ ~ run[m].rows[e].escalated)

\* Mutant: an alert that is not due ends the loop.
Skipped_Break(m, e) == run[m].todo

Skipped(m, e) == {e}

Skip(m, e) ==
    /\ run[m].at = "delivering" /\ e \in run[m].todo /\ ~ Due(m, e)
    /\ run' = [run EXCEPT ![m].todo = @ \ Skipped(m, e)]
    /\ UNCHANGED <<event, overdue, routed, request, mailed, failures>>

Stage(e) == IF e \in overdue THEN "escalation" ELSE "alert"
Mail(m, e) ==
    /\ run[m].at = "delivering" /\ e \in run[m].todo /\ Due(m, e)
    /\ mailed' = [mailed EXCEPT ![e][Stage(e)] = @ + 1]
    /\ run' = [run EXCEPT ![m].todo = @ \ {e}, ![m].sent = @ \cup {e}]
    /\ UNCHANGED <<event, overdue, routed, request, failures>>

Commit(m) ==
    /\ run[m].at = "delivering" /\ run[m].todo = {}
    /\ event' = [e \in Events |-> IF e \in run[m].sent
                    THEN [event[e] EXCEPT !.delivered = TRUE, !.escalated = @ \/ e \in overdue]
                    ELSE event[e]]
    /\ run' = [run EXCEPT ![m] = Idle]
    /\ UNCHANGED <<overdue, routed, request, mailed, failures>>

(* A mail that fails, or a crash, rolls every stamp back: the mails that   *)
(* left will leave again.                                                  *)
Rollback(m) ==
    /\ run[m].at = "delivering" /\ failures < MaxFailures
    /\ failures' = failures + 1
    /\ run' = [run EXCEPT ![m] = Idle]
    /\ UNCHANGED <<event, overdue, routed, request, mailed>>

(* The request saves every column of the alert as it read it.              *)
AcknowledgeBegin(o, e) ==
    /\ request[o] = Idle /\ e \in OpenAlerts
    /\ request' = [request EXCEPT ![o] = [at |-> "acknowledging", alert |-> e, row |-> event[e]]]
    /\ UNCHANGED <<event, overdue, routed, run, mailed, failures>>
Acknowledge(o) ==
    /\ request[o] # Idle /\ request[o].alert \notin Held
    /\ event' = [event EXCEPT ![request[o].alert] = [request[o].row EXCEPT !.acknowledged = TRUE]]
    /\ request' = [request EXCEPT ![o] = Idle]
    /\ UNCHANGED <<overdue, routed, run, mailed, failures>>

(* An operator adds a route; a route is never taken away.                  *)
Route(e) ==
    /\ routed' = routed \cup {e}
    /\ UNCHANGED <<event, overdue, run, request, mailed, failures>>
TimePasses(e) ==
    /\ event[e].seen /\ \A m \in Monitors : run[m].at # "delivering"
    /\ overdue' = overdue \cup {e}
    /\ UNCHANGED <<event, routed, run, request, mailed, failures>>

Next ==
    \/ \E m \in Monitors : Scan(m) \/ DeliverBegin(m) \/ Commit(m) \/ Rollback(m)
    \/ \E m \in Monitors, e \in Events : Skip(m, e) \/ Mail(m, e)
    \/ \E o \in Operators : Acknowledge(o) \/ \E e \in Events : AcknowledgeBegin(o, e)
    \/ \E e \in Events : Route(e) \/ TimePasses(e)

Spec == Init /\ [][Next]_vars

(* Every slot has its monitoring job, and a run that has begun goes on.    *)
Fairness ==
    \A m \in Monitors :
        /\ WF_vars(Scan(m)) /\ SF_vars(DeliverBegin(m))
        /\ WF_vars(Commit(m) \/ \E e \in Events : Skip(m, e) \/ Mail(m, e))
FairSpec == Spec /\ Fairness

----------------------------------------------------------------------------
(* An alert that was acknowledged is not mailed any more, though the run   *)
(* that mails had read it as open.                                         *)
AcknowledgedStaysQuiet ==
    \A e \in Events : mailed'[e] # mailed[e] => ~ event[e].acknowledged

(* Two runs at once do not mail an alert twice: each stage leaves once,    *)
(* and once more for every run that did not commit.                        *)
MailsAreAccountedFor == \A e \in Events, s \in Stages : mailed[e][s] <= 1 + failures

(* An alert that a route takes is delivered, or somebody acknowledges it.  *)
AlertsAreDelivered ==
    \A e \in Events : event[e].seen /\ e \in routed ~> event[e].delivered \/ event[e].acknowledged
=============================================================================
