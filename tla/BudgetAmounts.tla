---------------------------- MODULE BudgetAmounts ----------------------------
(***************************************************************************)
(* The monthly limits of one budget (budgets.py:313-349, models.py:398-430)*)
(* recurring amounts, each in force for a range of months, and overrides   *)
(* of single months.  A request that sets a new recurring amount reads the *)
(* open ones, then writes, with no lock between: two requests, or a        *)
(* request and a bulk import, interleave.                                  *)
(***************************************************************************)
EXTENDS Naturals

CONSTANTS
    Editors,        \* requests that may be on their way at once
    Amounts,        \* limits
    MaxMonth,       \* bound: months
    MaxRows         \* bound: amounts ever recorded

BudgetAmountsAssumption ==
    MaxMonth \in Nat \ {0} /\ MaxRows \in Nat \ {0} /\ Amounts # {} /\ Amounts \subseteq Nat \ {0}

Months == 1..MaxMonth
Open == MaxMonth + 1    \* the end of an amount that has none
Unset == 0

VARIABLES
    rows,           \* the recurring amounts
    override,       \* month -> amount, or Unset
    recorded,       \* amounts recorded so far
    edit            \* the request of each editor: what it sets, the open rows it read, and
                    \* how many had been recorded then (history)

vars == <<rows, override, recorded, edit>>

\* A recurring amount ends after it starts.
Row == {r \in [id : 1..MaxRows, amount : Amounts, from : Months, to : Months \cup {Open}] : r.from < r.to}
Idle == [state |-> "idle"]
Edit == {Idle} \cup [state : {"setting"}, amount : Amounts, from : Months, read : SUBSET Row, seen : 0..MaxRows]

TypeOK ==
    /\ rows \subseteq Row
    /\ override \in [Months -> Amounts \cup {Unset}]
    /\ recorded \in 0..MaxRows
    /\ edit \in [Editors -> Edit]

Init ==
    /\ rows = {} /\ recorded = 0
    /\ override = [m \in Months |-> Unset]
    /\ edit = [e \in Editors |-> Idle]

(* amount_for: the override, or the recurring amount that starts last.  Two*)
(* that start together are not ordered: the answer may be either.          *)
InForce(m) == {r \in rows : r.from <= m /\ m < r.to}
AmountFor(m) ==
    IF override[m] # Unset THEN {override[m]}
    ELSE {r.amount : r \in {x \in InForce(m) : \A y \in InForce(m) : y.from <= x.from}}

----------------------------------------------------------------------------
(* set_recurring_amount *)
Begin(e) ==
    /\ edit[e] = Idle
    /\ \E a \in Amounts, f \in Months :
         edit' = [edit EXCEPT ![e] = [state |-> "setting", amount |-> a, from |-> f,
                                      read |-> {r \in rows : r.to = Open}, seen |-> recorded]]
    /\ UNCHANGED <<rows, override, recorded>>

\* Mutant: an amount that started before is removed instead of closed.
Replaced_All(e) == edit[e].read

\* Mutant: an amount that starts in the same month is closed.
Replaced_Later(e) == {r \in edit[e].read : r.from > edit[e].from}

Replaced(e) == {r \in edit[e].read : r.from >= edit[e].from}

\* Mutant: the old amount ends a month before the new one starts.
Closing_Early(e) == edit[e].from - 1

Closing(e) == edit[e].from

Closed(e) == {[r EXCEPT !.to = Closing(e)] : r \in edit[e].read \ Replaced(e)}
Same(rs) == {r \in rows : \E x \in rs : x.id = r.id}
Stored(r) == \E x \in rows : x.id = r.id

Write(e) ==
    /\ edit[e].state = "setting" /\ recorded < MaxRows
    /\ \A r \in Closed(e) : Stored(r)
    /\ rows' = (rows \ Same(edit[e].read)) \cup Closed(e)
               \cup {[id |-> recorded + 1, amount |-> edit[e].amount, from |-> edit[e].from, to |-> Open]}
    /\ recorded' = recorded + 1
    /\ edit' = [edit EXCEPT ![e] = Idle]
    /\ UNCHANGED override

\* A row to be closed was deleted by another request, or the request dies.
Fails(e) ==
    /\ edit[e].state = "setting"
    /\ edit' = [edit EXCEPT ![e] = Idle]
    /\ UNCHANGED <<rows, override, recorded>>

SetOverride(m, a) ==
    /\ \A x \in Months \ {m} : override[x] = Unset   \* bound: one month overridden
    /\ override' = [override EXCEPT ![m] = a]
    /\ UNCHANGED <<rows, recorded, edit>>

Next ==
    \/ \E e \in Editors : Begin(e) \/ Write(e) \/ Fails(e)
    \/ \E m \in Months, a \in Amounts : SetOverride(m, a)

Spec == Init /\ [][Next]_vars

----------------------------------------------------------------------------
(* Setting an amount leaves what earlier months were limited to: "Close    *)
(* the current recurring amount at effective_from and start a new one      *)
(* (history preserved)." (budgets.py:335), also when another request set   *)
(* one between its read and its write.  A request that two others overtook *)
(* may reopen what the first closed and the second left uncovered.         *)
OvertakenOnce(e) == recorded <= edit[e].seen + 1
HistoryIsPreserved ==
    \A e \in Editors : Write(e) /\ OvertakenOnce(e) =>
      \A m \in Months : m < edit[e].from => AmountFor(m)' = AmountFor(m)

(* A limit that was in force in a month is replaced, never lost: no gap    *)
(* opens between the amount a request closes and the one another starts.   *)
NoMonthLosesItsLimit ==
    \A m \in Months : AmountFor(m) # {} => AmountFor(m)' # {}

(* "Budget updated; the new limit applies from its effective month."       *)
(* (views_management.py:756): set when nobody else is setting one.         *)
Alone(e) == \A g \in Editors \ {e} : edit[g] = Idle
NewLimitApplies ==
    \A e \in Editors, f \in Months, a \in Amounts :
      (/\ Alone(e) /\ edit[e].state = "setting"
       /\ edit[e].from = f /\ edit[e].amount = a /\ override[f] = Unset
       /\ Write(e))
      => AmountFor(f)' = {a}
=============================================================================
