------------------------------ MODULE Ownership ------------------------------
(***************************************************************************)
(* Who owns the costs of one AWS account.  Payer connections publish its   *)
(* days, stamped with the owner of each (collector.publish_month), an       *)
(* operator transfers it from a date on and restamps what is stored         *)
(* (views_management.account_assign), customers are offboarded and come     *)
(* back.  The transactions lock rows in opposite orders: a publication its  *)
(* source then the account, a transfer the account then its source, whose   *)
(* ownership_version every saved assignment raises.                         *)
(***************************************************************************)
EXTENDS Naturals, FiniteSets

CONSTANTS
    Sources,        \* connections, none of them shared
    Home,           \* the connection the account's inventory row names
    Customers,
    Owner,          \* Owner[s]: the customer of connection s
    LastDay,        \* days 1..LastDay, LastDay is today; 0 is EPOCH
    Nobody,
    MaxTransfers    \* bound: transfers of the operator

OwnershipAssumption ==
    /\ Home \in Sources /\ Owner \in [Sources -> Customers] /\ {"operator", Nobody} \cap Sources = {}
    /\ Nobody # "operator" /\ LastDay \in Nat \ {0} /\ MaxTransfers \in Nat

VARIABLES
    assigned,       \* the assignments of the account: [customer, start, end], end exclusive
    costs,          \* costs[s][d]: the customer stamped on the row, Unowned, or Absent
    active,         \* customers that are not offboarded
    enabled,        \* connections that are not stopped
    srcLock, accLock, dayLock,   \* source rows, the account row, the advisory lock of the account
    pub,            \* the publication of each connection
    transfer,       \* the request of the operator
    transfers,
    owed,           \* history: days that an offboarding left stamped with the customer that went
    refused         \* history: a returned customer's account was refused an owner

publications == <<costs, pub>>
customers == <<active, enabled>>
locks == <<srcLock, accLock, dayLock>>
operator == <<transfer, transfers>>
history == <<owed, refused>>
vars == <<assigned, publications, customers, locks, operator, history>>

Days == 1..LastDay
Forever == LastDay + 2
Absent == "absent"
Unowned == "unowned"
From(start) == {d \in Days : d >= start}

Covers(a, d) == a.start <= d /\ d < a.end
Open == {a \in assigned : a.end = Forever}
Overlap(a, b) == a.start < b.end /\ b.start < a.end

OwnerIn(A, d) == IF \E a \in A : Covers(a, d) THEN (CHOOSE a \in A : Covers(a, d)).customer ELSE Unowned

IdlePub == [step |-> "idle", days |-> {}, owners |-> <<>>, new |-> {}]
IdleTransfer == [step |-> "idle", customer |-> Nobody, start |-> 0, new |-> {}]
Assignment == [customer : Customers, start : 0..LastDay, end : 1..Forever]

TypeOK ==
    /\ assigned \subseteq Assignment
    /\ costs \in [Sources -> [Days -> Customers \cup {Absent, Unowned}]]
    /\ active \subseteq Customers /\ enabled \subseteq Sources
    /\ srcLock \in [Sources -> Sources \cup {"operator", Nobody}]
    /\ accLock \in Sources \cup {"operator", Nobody} /\ dayLock \in Sources \cup {Nobody}
    /\ \A s \in Sources : /\ pub[s].step \in {"idle", "locked", "serialized", "checked", "unowned", "assigning", "owned"}
                          /\ pub[s].days \subseteq Days /\ pub[s].new \subseteq Assignment
    /\ transfer.step \in {"idle", "assigning", "restamp"} /\ transfer.customer \in Customers \cup {Nobody}
    /\ transfers \in 0..MaxTransfers /\ owed \subseteq Days /\ refused \in BOOLEAN

Init ==
    /\ assigned \in {{}, {[customer |-> Owner[Home], start |-> 0, end |-> Forever]}}
    /\ costs = [s \in Sources |-> [d \in Days |-> Absent]]
    /\ active = Customers /\ enabled = Sources
    /\ srcLock = [s \in Sources |-> Nobody] /\ accLock = Nobody /\ dayLock = Nobody
    /\ pub = [s \in Sources |-> IdlePub] /\ transfer = IdleTransfer /\ transfers = 0
    /\ owed = {} /\ refused = FALSE

-----------------------------------------------------------------------------
(* A publication, one transaction: publish_month.                           *)

Freed(p) ==
    /\ srcLock' = [s \in Sources |-> IF srcLock[s] = p THEN Nobody ELSE srcLock[s]]
    /\ accLock' = (IF accLock = p THEN Nobody ELSE accLock)
    /\ dayLock' = (IF dayLock = p THEN Nobody ELSE dayLock)

BeginPublication(s, D) ==
    /\ pub[s].step = "idle" /\ s \in enabled /\ srcLock[s] = Nobody
    /\ srcLock' = [srcLock EXCEPT ![s] = s]
    /\ pub' = [pub EXCEPT ![s] = [IdlePub EXCEPT !.step = "locked", !.days = D]]
    /\ UNCHANGED <<assigned, costs, customers, accLock, dayLock, operator, history>>

\* A mutant: no lock for the account.
Serialize_Not(s) ==
    /\ pub[s].step = "locked"
    /\ pub' = [pub EXCEPT ![s].step = "serialized"]
    /\ UNCHANGED <<assigned, costs, customers, locks, operator, history>>

\* pg_advisory_xact_lock, held to the end of the transaction.
Serialize(s) ==
    /\ pub[s].step = "locked" /\ dayLock = Nobody
    /\ dayLock' = s
    /\ pub' = [pub EXCEPT ![s].step = "serialized"]
    /\ UNCHANGED <<assigned, costs, customers, srcLock, accLock, operator, history>>

Abort(s) == pub' = [pub EXCEPT ![s] = IdlePub] /\ Freed(s)

\* check_overlap: the rows another connection has committed for the same days.
CheckOverlap(s) ==
    /\ pub[s].step = "serialized"
    /\ IF \E o \in Sources \ {s}, d \in pub[s].days : costs[o][d] # Absent
       THEN Abort(s)
       ELSE pub' = [pub EXCEPT ![s].step = "checked"] /\ UNCHANGED locks
    /\ UNCHANGED <<assigned, costs, customers, operator, history>>

\* owner_lookup: the owners as committed now; an account without an owner is assigned
\* to the customer of the connection, from EPOCH on.
LookUpOwners(s) ==
    /\ pub[s].step = "checked"
    /\ pub' = IF Open = {} THEN [pub EXCEPT ![s].step = "unowned"]
              ELSE [pub EXCEPT ![s].step = "owned", ![s].owners = [d \in Days |-> OwnerIn(assigned, d)]]
    /\ UNCHANGED <<assigned, costs, customers, locks, operator, history>>

\* ensure_assignment locks the account, and reads its assignments again.
LockAccount(s) ==
    /\ pub[s].step = "unowned" /\ accLock = Nobody
    /\ accLock' = s
    /\ pub' = [pub EXCEPT ![s].step = "assigning"]
    /\ UNCHANGED <<assigned, costs, customers, srcLock, dayLock, operator, history>>

Automatic(s) == [customer |-> Owner[s], start |-> 0, end |-> Forever]

\* The customer of the connection is back: all there is are assignments closed when it left.
Returned(s) == Owner[s] \in active /\ \A a \in assigned : a.customer = Owner[s]

\* The assignment, and the source row its signal updates.
AutoAssign(s) ==
    /\ pub[s].step = "assigning"
    /\ IF Open # {}
       THEN \* Assigned meanwhile: another owner's start is EPOCH's or later, which is refused.
            IF \E a \in Open : a.customer = Owner[s]
            THEN /\ pub' = [pub EXCEPT ![s].step = "owned", ![s].owners = [d \in Days |-> OwnerIn(assigned, d)]]
                 /\ UNCHANGED <<locks, history>>
            ELSE Abort(s) /\ UNCHANGED history
       ELSE IF \E a \in assigned : Overlap(a, Automatic(s))
            THEN Abort(s) /\ refused' = (refused \/ Returned(s)) /\ UNCHANGED owed
            ELSE /\ srcLock[Home] \in {Nobody, s} /\ srcLock' = [srcLock EXCEPT ![Home] = s]
                 /\ pub' = [pub EXCEPT ![s].step = "owned", ![s].new = {Automatic(s)},
                                       ![s].owners = [d \in Days |-> OwnerIn(assigned \cup {Automatic(s)}, d)]]
                 /\ UNCHANGED <<accLock, dayLock, history>>
    /\ UNCHANGED <<assigned, costs, customers, operator>>

\* The rows of the month are replaced and committed with the assignment.
Publish(s) ==
    /\ pub[s].step = "owned"
    /\ costs' = [costs EXCEPT ![s] = [d \in Days |-> IF d \in pub[s].days THEN pub[s].owners[d] ELSE Absent]]
    /\ assigned' = assigned \cup pub[s].new
    /\ Abort(s)
    /\ UNCHANGED <<customers, operator, history>>

-----------------------------------------------------------------------------
(* A transfer: one request, which is one transaction (middleware.py:33).    *)

BeginTransfer(c, start) ==
    /\ transfer.step = "idle" /\ transfers < MaxTransfers /\ accLock = Nobody
    /\ transfers' = transfers + 1
    /\ accLock' = "operator"
    /\ transfer' = [IdleTransfer EXCEPT !.step = "assigning", !.customer = c, !.start = start]
    /\ UNCHANGED <<assigned, publications, customers, srcLock, dayLock, history>>

Ended(A, start) == {[a EXCEPT !.end = IF @ = Forever THEN start ELSE @] : a \in A}

\* The assignments after a transfer, or the present ones when the account has the owner.
Transferred(c, start) ==
    IF \E a \in Open : a.customer = c THEN assigned
    ELSE Ended(assigned, start) \cup {[customer |-> c, start |-> start, end |-> Forever]}

\* Not after the start of the open assignment, or over an ended one.
Refused(c, start) ==
    /\ \A a \in Open : a.customer # c
    /\ \/ \E a \in Open : start <= a.start
       \/ \E a \in Ended(assigned, start) : Overlap(a, [start |-> start, end |-> Forever])

\* A mutant: a saved assignment does not touch the row of its source.
Assign_Quiet ==
    /\ transfer.step = "assigning"
    /\ IF Refused(transfer.customer, transfer.start)
       THEN transfer' = IdleTransfer /\ Freed("operator")
       ELSE /\ transfer' = [transfer EXCEPT !.step = "restamp",
                               !.new = Transferred(transfer.customer, transfer.start)]
            /\ UNCHANGED locks
    /\ UNCHANGED <<assigned, publications, customers, transfers, history>>

\* ensure_assignment and the metadata.  A saved assignment raises ownership_version of
\* the source, whose row must be free and is held to the end.
Assign ==
    /\ transfer.step = "assigning"
    /\ IF Refused(transfer.customer, transfer.start)
       THEN transfer' = IdleTransfer /\ Freed("operator")
       ELSE /\ srcLock[Home] = Nobody /\ srcLock' = [srcLock EXCEPT ![Home] = "operator"]
            /\ transfer' = [transfer EXCEPT !.step = "restamp",
                               !.new = Transferred(transfer.customer, transfer.start)]
            /\ UNCHANGED <<accLock, dayLock>>
    /\ UNCHANGED <<assigned, publications, customers, transfers, history>>

\* billing_restamp_ownership on the rows committed by now, then the commit.
Restamp ==
    /\ transfer.step = "restamp"
    /\ assigned' = transfer.new
    /\ costs' = [s \in Sources |-> [d \in Days |->
                    IF costs[s][d] = Absent \/ d < transfer.start THEN costs[s][d]
                    ELSE OwnerIn(transfer.new, d)]]
    /\ owed' = owed \ From(transfer.start)
    /\ transfer' = IdleTransfer /\ Freed("operator")
    /\ UNCHANGED <<pub, customers, transfers, refused>>

\* The web process dies: all of it is rolled back.
TransferDies ==
    /\ transfer.step # "idle" /\ transfer' = IdleTransfer /\ Freed("operator")
    /\ UNCHANGED <<assigned, publications, customers, transfers, history>>

-----------------------------------------------------------------------------
(* Customers leave and come back.                                           *)

Later(a, b) == IF a > b THEN a ELSE b

\* offboard_customer: connections stopped, open assignments closed, one transaction.
Offboard(c) ==
    /\ c \in active /\ \A s \in Sources : (Owner[s] = c \/ s = Home) => srcLock[s] = Nobody
    /\ active' = active \ {c}
    /\ enabled' = {s \in enabled : Owner[s] # c}
    /\ LET Closed(a) == IF a.customer = c /\ a.end = Forever
                        THEN [a EXCEPT !.end = Later(LastDay, a.start + 1)] ELSE a
       IN /\ assigned' = {Closed(a) : a \in assigned}
          /\ owed' = owed \cup UNION {From(Later(LastDay, a.start + 1)) : a \in {b \in Open : b.customer = c}}
    /\ UNCHANGED <<publications, locks, operator, refused>>

\* reactivate_customer, then its connections are approved and resumed.
Reactivate(c) ==
    /\ c \notin active
    /\ active' = active \cup {c}
    /\ UNCHANGED <<assigned, publications, enabled, locks, operator, history>>

Resume(s) ==
    /\ s \notin enabled /\ Owner[s] \in active /\ srcLock[s] = Nobody
    /\ enabled' = enabled \cup {s}
    /\ UNCHANGED <<assigned, publications, active, locks, operator, history>>

\* The transaction that holds the lock x waits for, or Nobody.
WaitsFor(x) ==
    IF x = "operator" THEN IF transfer.step = "assigning" THEN srcLock[Home] ELSE Nobody
    ELSE CASE pub[x].step = "locked" -> dayLock
           [] pub[x].step = "unowned" -> accLock
           [] pub[x].step = "assigning" /\ Open = {} /\ srcLock[Home] # x -> srcLock[Home]
           [] OTHER -> Nobody

\* PostgreSQL ends one transaction of a cycle of waits.  A job retries; the operator
\* gets an error page.
Detect ==
    \E C \in SUBSET (Sources \cup {"operator"}) : \E x \in C :
        /\ C = {WaitsFor(y) : y \in C}
        /\ IF x = "operator"
           THEN transfer' = IdleTransfer /\ Freed(x) /\ UNCHANGED <<pub, transfers>>
           ELSE Abort(x) /\ UNCHANGED operator
        /\ UNCHANGED <<assigned, costs, customers, history>>

Publication(s) == Serialize(s) \/ CheckOverlap(s) \/ LookUpOwners(s) \/ LockAccount(s) \/ AutoAssign(s) \/ Publish(s)
Next ==
    \/ \E s \in Sources : (\E D \in SUBSET Days : BeginPublication(s, D)) \/ Publication(s) \/ Resume(s)
    \/ \E c \in Customers : (\E start \in Days : BeginTransfer(c, start)) \/ Offboard(c) \/ Reactivate(c)
    \/ Assign \/ Restamp \/ TransferDies \/ Detect

Spec == Init /\ [][Next]_vars

-----------------------------------------------------------------------------
\* The rows of the account's own connection carry the owner of their day, except for days
\* an offboarding closed: the source row, which a saved assignment
\* updates, keeps a publication that looked owners up from committing after it.
Stamped(s, d) == costs[s][d] = Absent \/ costs[s][d] = OwnerIn(assigned, d) \/ d \in owed
OwnRowsAreStamped == \A d \in Days : Stamped(Home, d)

\* "Stored facts from the start date are re-stamped to the new customer."
StoredFactsAreStamped == \A s \in Sources, d \in Days : Stamped(s, d)

\* Two connections that cover the account never publish the same day: each checks under
\* a lock that the other holds until its rows can be seen.
OneSourcePerDay ==
    \A s, o \in Sources, d \in Days : costs[s][d] # Absent /\ costs[o][d] # Absent => s = o

\* "Customer reactivated.  Resume its connections to collect again."
ReactivationCollects == ~refused
=============================================================================
