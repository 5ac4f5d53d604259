----------------------------- MODULE Allocation -----------------------------
(***************************************************************************)
(* Rules allocate the spend of one customer to projects (allocation.py).   *)
(* An editor adds a rule (checked against the rules stored then) or        *)
(* retires one, and the project is recomputed in the same request          *)
(* (views_management.py:636-676); the worker recomputes every project, one *)
(* transaction for each rule and month, with the rules it read at the      *)
(* start.  A month has two days, so that a rule can start inside it, and   *)
(* the facts cover the months up to the current one.  A cost category      *)
(* selects spend as a tag does and is told apart only by the dimension.    *)
(***************************************************************************)
EXTENDS Integers, FiniteSets, Sequences

CONSTANTS
    Projects, Accounts, Names, Values,
    Kinds,          \* kinds of rules the editors use, of AllKinds
    Sources,        \* connections
    SourceOf,       \* the connection of an account
    Editors,        \* requests that may add a rule at once
    Starts, Ends,   \* bounds: the days a form gives for the start and the end
    MaxRules, MaxMonth  \* bounds

VARIABLES
    rules,          \* the stored rules, in the order of their keys
    rows,           \* the ProjectCost rows: rule, day and account
    adding,         \* editor -> the rule it has checked and not saved, or Nothing
    worker,         \* the project the worker recomputes, and the cells that are left
    imported,       \* whether the initial import is done: before it a query is refused
    now             \* the current month

vars == <<rules, rows, adding, worker, imported, now>>

AllKinds == {"accounts", "tag", "account_tag", "cost_category"}
Nothing == [kind |-> "none"]
Idle == [kind |-> "idle"]
Months == 0..MaxMonth
Days == 0..(2 * MaxMonth + 1)
Forever == 2 * MaxMonth + 2
First(m) == 2 * m           \* the first day of a month

UsesAccounts(r) == r.kind \in {"accounts", "account_tag"}
Rule == {r \in [project : Projects, kind : Kinds, accounts : SUBSET Accounts, key : Names, values : SUBSET Values,
                start : Starts, end : Ends \cup {Forever}, active : {TRUE}] :
           /\ r.start < r.end
           /\ UsesAccounts(r) <=> r.accounts # {}
           /\ r.kind = "accounts" <=> r.values = {}
           /\ r.kind = "accounts" => r.key = CHOOSE k \in Names : TRUE}
Row == [rule : 1..MaxRules, day : Days, account : Accounts]

TypeOK ==
    /\ Len(rules) <= MaxRules
    /\ \A i \in DOMAIN rules : [rules[i] EXCEPT !.active = TRUE, !.end = Forever] \in Rule /\ rules[i].end \in Days \cup {Forever}
    /\ rows \subseteq Row
    /\ adding \in [Editors -> Rule \cup {Nothing}]
    /\ worker # Idle => worker.project \in Projects /\ worker.left \subseteq (1..MaxRules) \X Months
    /\ imported \in BOOLEAN /\ now \in Months

Init ==
    /\ rules = <<>> /\ rows = {} /\ worker = Idle /\ now = 1
    /\ adding = [e \in Editors |-> Nothing]
    /\ imported \in BOOLEAN

----------------------------------------------------------------------------
(* The check of a new rule.                                                *)
OverlappingDates(a, b) == a.start < b.end /\ b.start < a.end
Shared(a, b) == a.accounts \cap b.accounts # {}
SameScope_Shared(a, b) == (UsesAccounts(a) <=> UsesAccounts(b)) /\ (UsesAccounts(a) => Shared(a, b))

SameScope(a, b) == (UsesAccounts(a) /\ UsesAccounts(b)) => Shared(a, b)
Conflict(a, b) ==
    IF "accounts" \in {a.kind, b.kind}
    THEN Shared(a, b)       \* a customer-wide rule leaves the claimed accounts out
    ELSE SameScope(a, b) /\ (a.key = b.key => a.values \cap b.values # {})
Valid(r) == \A i \in DOMAIN rules : rules[i].active /\ OverlappingDates(r, rules[i]) => ~Conflict(r, rules[i])

----------------------------------------------------------------------------
(* The recomputation of one rule and month.                                *)
Covers(r, d) == r.start <= d /\ d < r.end
Claimed(known, i, d) ==
    UNION {known[j].accounts : j \in {j \in DOMAIN known \ {i} : known[j].active /\ known[j].kind = "accounts" /\ Covers(known[j], d)}}
Lower(r, m) == IF r.start > First(m) THEN r.start ELSE First(m)
Upper(r, m) == IF r.end < First(m + 1) THEN r.end ELSE First(m + 1)
Window(r, m) == Lower(r, m)..(Upper(r, m) - 1)
(* A query covers the accounts that are not claimed on its first day.      *)
Scope(known, i, r, m) ==
    IF r.kind = "accounts" THEN r.accounts
    ELSE (IF UsesAccounts(r) THEN r.accounts ELSE Accounts) \ Claimed(known, i, Lower(r, m))
(* The rows of rule i after month m is recomputed with the answers of some *)
(* connections: an old snapshot is kept only when nothing was answered.    *)
Recomputed(old, known, i, r, m, answered) ==
    LET covered == {x \in old : x.rule = i /\ x.day \in First(m)..(First(m + 1) - 1) => Covers(r, x.day)}
        scope == Scope(known, i, r, m)
        found == {a \in scope : r.kind = "accounts" \/ SourceOf[a] \in answered}
    IN  IF m > now \/ Window(r, m) = {} \/ (found = {} /\ scope # {}) THEN covered
        ELSE {x \in covered : x.rule = i => x.day \notin Window(r, m)}
               \cup [rule : {i}, day : Window(r, m), account : found]

RecentMonths == {now - 1, now} \cap Months
OfProject(known, p) == {i \in DOMAIN known : known[i].project = p /\ known[i].active}
(* Rules are recomputed in order; a query that is refused ends the work.   *)
Reached(known, p) ==
    {i \in OfProject(known, p) :
       imported \/ \A j \in OfProject(known, p) : j <= i => known[j].kind = "accounts"}
Dropped(old, known, p) ==
    IF Reached(known, p) # OfProject(known, p) THEN old
    ELSE {x \in old : known[x.rule].project = p => known[x.rule].active}
Allocated(known, p, answered) ==
    LET mine(i) == Recomputed(Recomputed(rows, known, i, known[i], now - 1, answered), known, i, known[i], now, answered)
        kept == {x \in rows : x.rule \notin Reached(known, p)}
    IN  Dropped(kept \cup UNION {{x \in mine(i) : x.rule = i} : i \in Reached(known, p)}, known, p)

----------------------------------------------------------------------------
(* A request that adds a rule: the check, then the save with the           *)
(* recomputation of the project.  A refused query is shown as an error of  *)
(* the form, and the rule stays saved.                                     *)
Check(e, r) ==
    /\ adding[e] = Nothing /\ Len(rules) < MaxRules /\ Valid(r)
    /\ adding' = [adding EXCEPT ![e] = r]
    /\ UNCHANGED <<rules, rows, worker, imported, now>>
Save(e) ==
    /\ adding[e] # Nothing /\ Len(rules) < MaxRules
    /\ rules' = Append(rules, adding[e])
    /\ \E answered \in SUBSET Sources : rows' = Allocated(rules', adding[e].project, answered)
    /\ adding' = [adding EXCEPT ![e] = Nothing]
    /\ UNCHANGED <<worker, imported, now>>

(* The page offers to retire a rule that is active and open.               *)
Retired_Always(r) == [r EXCEPT !.active = FALSE]

Retired(r) == IF r.start >= First(now) THEN [r EXCEPT !.active = FALSE] ELSE [r EXCEPT !.end = First(now)]
Retire(i) ==
    /\ rules[i].active /\ rules[i].end = Forever
    /\ rules' = [rules EXCEPT ![i] = Retired(@)]
    /\ \E answered \in SUBSET Sources : rows' = Allocated(rules', rules[i].project, answered)
    /\ UNCHANGED <<adding, worker, imported, now>>

----------------------------------------------------------------------------
(* The worker.                                                             *)
AllocateProject(p) ==
    /\ worker = Idle
    /\ worker' = [kind |-> "busy", project |-> p, read |-> rules, left |-> Reached(rules, p) \X RecentMonths]
    /\ UNCHANGED <<rules, rows, adding, imported, now>>
Earlier(x, y) == x[1] < y[1] \/ (x[1] = y[1] /\ x[2] <= y[2])
AllocateMonth ==
    /\ worker # Idle
    /\ \E x \in worker.left :
         /\ \A y \in worker.left : Earlier(x, y)
         /\ \E answered \in SUBSET Sources :
              rows' = Recomputed(rows, rules, x[1], worker.read[x[1]], x[2], answered)
         /\ worker' = [worker EXCEPT !.left = @ \ {x}]
    /\ UNCHANGED <<rules, adding, imported, now>>
AllocateEnds ==
    /\ worker # Idle /\ worker.left = {}
    /\ rows' = IF Reached(worker.read, worker.project) = OfProject(worker.read, worker.project)
               THEN {x \in rows : rules[x.rule].project = worker.project => rules[x.rule].active} ELSE rows
    /\ worker' = Idle
    /\ UNCHANGED <<rules, adding, imported, now>>

Import == ~imported /\ imported' = TRUE /\ UNCHANGED <<rules, rows, adding, worker, now>>
NextMonth == now < MaxMonth /\ worker = Idle /\ now' = now + 1 /\ UNCHANGED <<rules, rows, adding, worker, imported>>

Next ==
    \/ \E e \in Editors : Save(e) \/ \E r \in Rule : Check(e, r)
    \/ \E i \in DOMAIN rules : Retire(i)
    \/ \E p \in Projects : AllocateProject(p)
    \/ AllocateMonth \/ AllocateEnds \/ Import \/ NextMonth

Spec == Init /\ [][Next]_vars

----------------------------------------------------------------------------
(* What a rule selects: a unit of spend is of an account and has a value   *)
(* (or none) for each tag key and for each cost category.                  *)
Dimension(r) == <<IF r.kind = "cost_category" THEN "category" ELSE "tag", r.key>>
SelectsSame(a, b) ==
    \/ "accounts" \in {a.kind, b.kind}
    \/ Dimension(a) # Dimension(b) \/ a.values \cap b.values # {}
ScopeOf(r) == IF UsesAccounts(r) THEN r.accounts ELSE Accounts
(* An account that one rule claims whole is left out by customer-wide ones. *)
LeavesOut(a, b) == (a.kind = "accounts" /\ ~UsesAccounts(b)) \/ (b.kind = "accounts" /\ ~UsesAccounts(a))

(* "Overlapping rules are rejected at save time" (allocation.py:5): on no  *)
(* day do two active rules select the same spend, whatever was added and   *)
(* retired before.  Holds for one editor at a time and rules by account    *)
(* and by tag.                                                             *)
RulesAreDisjoint ==
    \A i, j \in DOMAIN rules :
      i < j /\ rules[i].active /\ rules[j].active /\ OverlappingDates(rules[i], rules[j])
        => \/ LeavesOut(rules[i], rules[j])
           \/ ScopeOf(rules[i]) \cap ScopeOf(rules[j]) = {}
           \/ ~SelectsSame(rules[i], rules[j])

(* "earlier allocations are preserved" (views_management.py:675): what an  *)
(* active rule was given for a month before the previous one is never      *)
(* taken away, by a retirement, a later rule or a recomputation.  A rule   *)
(* that is retired in the month it starts in loses all its rows, when its  *)
(* project is next recomputed in full.                                     *)
HistoryIsKept == \A x \in rows : x.day < First(now - 1) /\ rules[x.rule].active => x \in rows'

(* "so no dollar is allocated twice" (allocation.py:6).                    *)
NoDollarTwice ==
    \A x, y \in rows :
      x.rule # y.rule /\ x.day = y.day /\ x.account = y.account => ~SelectsSame(rules[x.rule], rules[y.rule])
=============================================================================
