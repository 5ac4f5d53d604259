------------------------------ MODULE Alliance ------------------------------
(***************************************************************************)
(* The hand-off of one linked account's monthly figures to the alliance    *)
(* team (alliance.py, views_alliance.py:115-188, forms_alliance.py): the   *)
(* figures are recorded as a snapshot, shared, and the entry is closed,    *)
(* while the connections publish the reporting month and the one before it *)
(* again.  A post locks the customer and the connections known to have     *)
(* costs of the account, then reads totals and services in two queries.    *)
(* The account is owned by the customer throughout (restamping stored      *)
(* costs is refused inside a request, access.py:138-151), and a connection *)
(* without costs of the account counts as having no data.                  *)
(***************************************************************************)
EXTENDS Integers, FiniteSets, Functions

CONSTANTS
    Sources, Home,  \* the connections, and the one the account was found in
    Services, MaxAmount,
    Editors,        \* people with the page open
    MaxImports, MaxRevisions    \* bounds: publications, and saves of the record

VARIABLES
    facts,          \* connection, month -> service -> amount, or NoFacts
    period,         \* connection, month -> the state of its collection
    imports,        \* publications so far
    record,         \* the alliance record: its snapshot, revision and form fields
    page,           \* editor -> the page or the request
    ended           \* whether the reporting month has ended

vars == <<facts, period, imports, record, page, ended>>

Month == 2
Prior == 1
Months == {Prior, Month}
NoFacts == [x \in {} |-> 0]
None == -1
Figures == {f \in [Services -> 0..MaxAmount] : \E s \in Services : f[s] > 0}
States == {"No data", "Partial", "Estimated", "Complete"}
Away == [at |-> "away"]
NoSnapshot == [state |-> "none"]
Forms == [action : {"save", "capture"}, marked : BOOLEAN, shared : BOOLEAN]

----------------------------------------------------------------------------
(* The figures of a month (SpendData.cell) and of its services.            *)
Collecting(m) == {s \in Sources : facts[s][m] # NoFacts}
Behind(m) == IF Collecting(m) = {} THEN {Home} ELSE Collecting(m)
Amount(s, m, x) == IF facts[s][m] = NoFacts THEN 0 ELSE facts[s][m][x]
AmountOf(m, x) == SumFunction([s \in Sources |-> Amount(s, m, x)])
Value(m) == IF Collecting(m) = {} THEN None ELSE SumFunction([x \in Services |-> AmountOf(m, x)])
Running(m) == m = Month /\ ~ended
Covered(m) == \A s \in Behind(m) : period[s][m].status = "complete" /\ (period[s][m].whole \/ Running(m))
Estimated(m) == Running(m) \/ \E s \in Behind(m) : period[s][m].estimated
State(m) ==
    IF Value(m) = None THEN "No data"
    ELSE IF ~Covered(m) THEN "Partial" ELSE IF Estimated(m) THEN "Estimated" ELSE "Complete"
Totals == [current |-> Value(Month), prior |-> Value(Prior), state |-> State(Month), priorState |-> State(Prior)]
ServiceAmount(m, x, state) ==
    IF AmountOf(m, x) > 0 THEN AmountOf(m, x) ELSE IF state \in {"Complete", "Estimated"} THEN 0 ELSE None
(* What a snapshot is compared by: the totals, their states and the        *)
(* services that cost anything.                                            *)
Snapshot(totals) ==
    [current |-> totals.current, prior |-> totals.prior, state |-> totals.state, priorState |-> totals.priorState,
     services |-> [x \in {x \in Services : \E m \in Months : AmountOf(m, x) > 0} |->
                     [current |-> ServiceAmount(Month, x, totals.state), prior |-> ServiceAmount(Prior, x, totals.priorState)]]]

TypeOK ==
    /\ facts \in [Sources -> [Months -> Figures \cup {NoFacts}]]
    /\ period \in [Sources -> [Months -> [status : {"pending", "complete", "partial"}, whole : BOOLEAN, estimated : BOOLEAN]]]
    /\ imports \in 0..MaxImports
    /\ record.snapshot = NoSnapshot \/ record.snapshot.state \in States
    /\ record.revision \in 0..MaxRevisions /\ record.marked \in BOOLEAN /\ record.shared \in BOOLEAN
    /\ \A e \in Editors : page[e].at \in {"away", "open", "locked", "read"}
    /\ ended \in BOOLEAN

Init ==
    /\ facts = [s \in Sources |-> [m \in Months |-> NoFacts]]
    /\ period = [s \in Sources |-> [m \in Months |-> [status |-> "pending", whole |-> FALSE, estimated |-> FALSE]]]
    /\ imports = 0 /\ ended = FALSE
    /\ record = [snapshot |-> NoSnapshot, revision |-> 0, marked |-> FALSE, shared |-> FALSE]
    /\ page = [e \in Editors |-> Away]

----------------------------------------------------------------------------
(* A connection publishes a month under its row lock, or fails to.         *)
InRequest(e) == page[e].at \in {"locked", "read"}
Locked(s) == \E e \in Editors : InRequest(e) /\ s \in page[e].locks
Publish(s, m, f, estimated) ==
    /\ imports < MaxImports /\ ~Locked(s)
    /\ imports' = imports + 1
    /\ facts' = [facts EXCEPT ![s][m] = f]
    /\ period' = [period EXCEPT ![s][m] = [status |-> "complete", whole |-> ~Running(m), estimated |-> estimated \/ Running(m)]]
    /\ UNCHANGED <<record, page, ended>>
FailMonth(s, m) ==
    /\ ~Locked(s) /\ period[s][m].status = "complete"
    /\ period' = [period EXCEPT ![s][m].status = "partial"]
    /\ UNCHANGED <<facts, imports, record, page, ended>>
MonthEnds == ~ended /\ ended' = TRUE /\ UNCHANGED <<facts, period, imports, record, page>>

----------------------------------------------------------------------------
(* The page and its post.                                                  *)
Open(e) ==
    /\ ~InRequest(e)
    /\ page' = [page EXCEPT ![e] = [at |-> "open", version |-> record.revision]]
    /\ UNCHANGED <<facts, period, imports, record, ended>>
Leave(e) ==
    /\ page[e].at = "open" /\ page' = [page EXCEPT ![e] = Away]
    /\ UNCHANGED <<facts, period, imports, record, ended>>

KnownSources_None == {}

KnownSources == {Home} \cup {s \in Sources : \E m \in Months : facts[s][m] # NoFacts}
Post(e, form) ==
    /\ page[e].at = "open" /\ record.revision < MaxRevisions /\ \A o \in Editors : ~InRequest(o)
    /\ page' = [page EXCEPT ![e] = [at |-> "locked", version |-> page[e].version, form |-> form, locks |-> KnownSources]]
    /\ UNCHANGED <<facts, period, imports, record, ended>>
ReadTotals(e) ==
    /\ page[e].at = "locked"
    /\ page' = [page EXCEPT ![e] = [at |-> "read", version |-> page[e].version, form |-> page[e].form,
                                    locks |-> page[e].locks, totals |-> Totals]]
    /\ UNCHANGED <<facts, period, imports, record, ended>>

Revised(fresh) == record.snapshot # NoSnapshot /\ record.snapshot # fresh
(* The checks of the form (clean) and of the view.                         *)
Closable_Recorded(candidate, revised) == ended /\ candidate # NoSnapshot /\ candidate.state = "Complete"

Closable(candidate, revised) ==
    ended /\ candidate # NoSnapshot /\ candidate.state = "Complete" /\ ~revised
FormValid(form, candidate, revised) ==
    /\ form.shared => candidate # NoSnapshot
    /\ form.marked => form.shared /\ Closable(candidate, revised)
SeenVersion_Not(e) == TRUE

SeenVersion(e) == page[e].version = record.revision
Capturable(form, totals) == ~record.marked /\ ~form.marked /\ totals.current # None
Accepted(e, fresh) ==
    /\ SeenVersion(e)
    /\ IF page[e].form.action = "capture"
       THEN FormValid(page[e].form, fresh, FALSE) /\ Capturable(page[e].form, page[e].totals)
       ELSE FormValid(page[e].form, record.snapshot, Revised(fresh))
Finish(e) ==
    LET fresh == Snapshot(page[e].totals) IN
    /\ page[e].at = "read"
    /\ \/ /\ Accepted(e, fresh)
          /\ record' = [snapshot |-> IF page[e].form.action = "capture" THEN fresh ELSE record.snapshot,
                        revision |-> record.revision + 1, marked |-> page[e].form.marked, shared |-> page[e].form.shared]
          /\ page' = [page EXCEPT ![e] = Away]
       \/ /\ ~Accepted(e, fresh)
          /\ page' = [page EXCEPT ![e] = [at |-> "open", version |-> page[e].version]]
          /\ UNCHANGED record
    /\ UNCHANGED <<facts, period, imports, ended>>

Next ==
    \/ \E s \in Sources, m \in Months :
         FailMonth(s, m) \/ \E f \in Figures, estimated \in BOOLEAN : Publish(s, m, f, estimated)
    \/ MonthEnds
    \/ \E e \in Editors : Open(e) \/ Leave(e) \/ ReadTotals(e) \/ Finish(e) \/ \E form \in Forms : Post(e, form)

Spec == Init /\ [][Next]_vars

----------------------------------------------------------------------------
Current(x) == IF x.current = None THEN 0 ELSE x.current
Before(x) == IF x.prior = None THEN 0 ELSE x.prior
Whole(snapshot) ==
    /\ Current(snapshot) = SumFunction([x \in DOMAIN snapshot.services |-> Current(snapshot.services[x])])
    /\ Before(snapshot) = SumFunction([x \in DOMAIN snapshot.services |-> Before(snapshot.services[x])])

(* "a captured snapshot cannot mix two imports" (views_alliance.py:143):   *)
(* the recorded totals are the sums of the recorded services.  A           *)
(* connection that publishes its first costs of the account meanwhile is   *)
(* not locked: with it, this fails.                                        *)
SnapshotsAreWhole == record.snapshot # NoSnapshot => Whole(record.snapshot)

(* A post whose locks hold every connection with costs of the account      *)
(* records totals and services of the same imports; an entry is closed     *)
(* only on complete figures that are the latest import, and keeps them     *)
(* while it is closed; and no one saves over a revision they have not seen.*)
AllLocked(e) == KnownSources \subseteq page[e].locks
HandoffsAreSound ==
    /\ record.marked /\ record'.marked => record'.snapshot = record.snapshot
    /\ \A e \in Editors : Finish(e) /\ AllLocked(e) =>
         /\ record'.snapshot # record.snapshot =>
               record'.snapshot.current = Value(Month) /\ record'.snapshot.prior = Value(Prior)
         /\ record'.marked /\ record' # record =>
               ended /\ record'.snapshot = Snapshot(Totals) /\ Totals.state = "Complete"
    /\ record' # record => \E e \in Editors : page[e].at = "read" /\ page[e].version = record.revision
=============================================================================
