----------------------------- MODULE BulkImport -----------------------------
(***************************************************************************)
(* A CSV of customers and connections, or of budgets, is checked and kept  *)
(* as a preview; a later request applies it (views_management.py:815-847,  *)
(* onboarding.py:105-193, budgets.py:245-331).  Between the two the world  *)
(* changes: other previews are applied, customers are added and renamed,   *)
(* and the same preview is applied from a second tab.                      *)
(***************************************************************************)
EXTENDS Naturals, FiniteSets

CONSTANTS
    Previews, Names, Accounts,
    Requests,       \* requests that may apply a preview at once
    References,     \* references a customer can have; NoReference among them
    NoReference,
    MaxCustomers,   \* bound
    MaxRows         \* bound: rows of a file

VARIABLES
    customers,      \* customer -> name and reference, for those that exist
    sources,        \* account -> the customer and kind of its connection, or Unconnected
    amounts,        \* customer -> amounts its budget was given
    preview,        \* the stored previews
    applying,       \* request -> the preview it has locked and read as not applied, or Nothing
    applications    \* how often each was applied (history)

vars == <<customers, sources, amounts, preview, applying, applications>>

Ids == 1..MaxCustomers
New == 0            \* a row that names no existing customer
Kinds == {"payer", "standalone"}
Unconnected == [customer |-> New, kind |-> "none"]
Nothing == "nothing"
NoPreview == [state |-> "none"]
Identity == [name : Names, reference : References]
Row == [customer : Ids \cup {New}, name : Names, reference : References, account : Accounts, kind : Kinds]
BudgetRow == [customer : Ids]
Preview ==
    {NoPreview} \cup [state : {"customers"}, rows : SUBSET Row, applied : BOOLEAN]
                \cup [state : {"budgets"}, rows : SUBSET BudgetRow, applied : BOOLEAN]

TypeOK ==
    /\ DOMAIN customers \subseteq Ids /\ \A c \in DOMAIN customers : customers[c] \in Identity
    /\ sources \in [Accounts -> [customer : Ids, kind : Kinds] \cup {Unconnected}]
    /\ amounts \in [Ids -> Nat]
    /\ preview \in [Previews -> Preview]
    /\ applying \in [Requests -> Previews \cup {Nothing}]
    /\ applications \in [Previews -> Nat]

Init ==
    /\ customers = [c \in {} |-> {}]
    /\ sources = [a \in Accounts |-> Unconnected]
    /\ amounts = [c \in Ids |-> 0]
    /\ preview = [p \in Previews |-> NoPreview]
    /\ applying = [q \in Requests |-> Nothing]
    /\ applications = [p \in Previews |-> 0]

----------------------------------------------------------------------------
(* The customer a row selects: by its identifier, or by a reference that   *)
(* only one customer has.                                                  *)
Referred(r) == {c \in DOMAIN customers : customers[c].reference = r}
Selected(name, reference, id) ==
    IF id # New THEN id
    ELSE IF reference # NoReference /\ Cardinality(Referred(reference)) = 1
    THEN CHOOSE c \in Referred(reference) : TRUE
    ELSE New

(* parse_customer_csv: a row without problems *)
Valid(row) ==
    /\ row.reference # NoReference /\ row.customer = New => Cardinality(Referred(row.reference)) = 0
    /\ row.customer = New => \A c \in DOMAIN customers : customers[c].name # row.name
    /\ row.customer # New => row.customer \in DOMAIN customers /\ customers[row.customer].name = row.name
    /\ sources[row.account] # Unconnected => sources[row.account].customer = row.customer
Consistent(rows) ==
    \A r, s \in rows : r # s =>
        r.account # s.account /\ (r.name = s.name => r.reference = s.reference /\ r.reference # NoReference)

(* A row is kept with the customer it selected; a file with problems is    *)
(* kept too, and never applied.                                            *)
UploadCustomers(p) ==
    /\ preview[p] = NoPreview
    /\ \E n \in 1..MaxRows : \E f \in [1..n -> [id : DOMAIN customers \cup {New}, name : Names, reference : References,
                                          account : Accounts, kind : Kinds]] :
         LET rows == {[customer |-> Selected(f[i].name, f[i].reference, f[i].id), name |-> f[i].name,
                       reference |-> f[i].reference, account |-> f[i].account, kind |-> f[i].kind] : i \in 1..n}
         IN  /\ Cardinality(rows) = n /\ Consistent(rows)
             /\ \A r \in rows : Valid(r)
             /\ preview' = [preview EXCEPT ![p] = [state |-> "customers", rows |-> rows, applied |-> FALSE]]
    /\ UNCHANGED <<customers, sources, amounts, applying, applications>>

UploadBudgets(p) ==
    /\ preview[p] = NoPreview
    /\ \E c \in DOMAIN customers :
         preview' = [preview EXCEPT ![p] = [state |-> "budgets", rows |-> {[customer |-> c]}, applied |-> FALSE]]
    /\ UNCHANGED <<customers, sources, amounts, applying, applications>>

----------------------------------------------------------------------------
\* Mutant: the preview is read without FOR UPDATE.
Locked_Never(p) == FALSE

Locked(p) == \E q \in Requests : applying[q] = p

(* The request locks the preview; it finds it applied already, or goes on. *)
Apply(q, p) ==
    /\ applying[q] = Nothing
    /\ preview[p] # NoPreview /\ ~ Locked(p) /\ ~ preview[p].applied
    /\ applying' = [applying EXCEPT ![q] = p]
    /\ UNCHANGED <<customers, sources, amounts, preview, applications>>

Named(n) == {c \in DOMAIN customers : customers[c].name = n}

\* Mutant: a customer of that name is taken for the one of the preview.
SameIdentity_Name(row) == TRUE

SameIdentity(row) ==
    \A c \in Named(row.name) : row.reference # NoReference /\ customers[c].reference = row.reference

NewNames(rows) == {r.name : r \in {x \in rows : x.customer = New /\ Named(x.name) = {}}}
Numbering(names) == {f \in [names -> Ids \ DOMAIN customers] : \A m, n \in names : m # n => f[m] # f[n]}
Owner(row, numbers) ==
    IF row.customer # New THEN row.customer
    ELSE IF Named(row.name) # {} THEN CHOOSE c \in Named(row.name) : TRUE ELSE numbers[row.name]

(* apply_customer_rows: all rows, or none when one of them conflicts *)
CommitCustomers(q) ==
    LET p == applying[q]
        rows == preview[p].rows IN
    /\ p # Nothing /\ preview[p].state = "customers"
    /\ \E numbers \in Numbering(NewNames(rows)) :
         /\ \A r \in rows :
              /\ r.customer = New => SameIdentity(r)
              /\ sources[r.account] \in {Unconnected, [customer |-> Owner(r, numbers), kind |-> r.kind]}
         /\ customers' = [c \in DOMAIN customers \cup {numbers[n] : n \in NewNames(rows)} |->
                IF c \in DOMAIN customers THEN customers[c]
                ELSE LET r == CHOOSE x \in rows : x.name \in NewNames(rows) /\ numbers[x.name] = c
                     IN  [name |-> r.name, reference |-> r.reference]]
         /\ sources' = [a \in Accounts |->
                IF \E r \in rows : r.account = a
                THEN LET r == CHOOSE x \in rows : x.account = a
                     IN  [customer |-> Owner(r, numbers), kind |-> r.kind]
                ELSE sources[a]]
    /\ preview' = [preview EXCEPT ![p].applied = TRUE]
    /\ applying' = [applying EXCEPT ![q] = Nothing]
    /\ applications' = [applications EXCEPT ![p] = @ + 1]
    /\ UNCHANGED amounts

(* apply_budget_rows *)
CommitBudgets(q) ==
    LET p == applying[q] IN
    /\ p # Nothing /\ preview[p].state = "budgets"
    /\ amounts' = [c \in Ids |-> IF \E r \in preview[p].rows : r.customer = c THEN amounts[c] + 1 ELSE amounts[c]]
    /\ preview' = [preview EXCEPT ![p].applied = TRUE]
    /\ applying' = [applying EXCEPT ![q] = Nothing]
    /\ applications' = [applications EXCEPT ![p] = @ + 1]
    /\ UNCHANGED <<customers, sources>>

(* A conflict raises ValueError, or the request dies: nothing was written. *)
RollsBack(q) ==
    /\ applying[q] # Nothing
    /\ applying' = [applying EXCEPT ![q] = Nothing]
    /\ UNCHANGED <<customers, sources, amounts, preview, applications>>

(* customer_edit, and a customer added by hand *)
EditCustomer(c, identity) ==
    /\ c \in DOMAIN customers \/ (c \in Ids /\ c = Cardinality(DOMAIN customers) + 1)
    /\ Named(identity.name) \subseteq {c}
    /\ customers' = [d \in DOMAIN customers \cup {c} |-> IF d = c THEN identity ELSE customers[d]]
    /\ UNCHANGED <<sources, amounts, preview, applying, applications>>

Next ==
    \/ \E p \in Previews : UploadCustomers(p) \/ UploadBudgets(p) \/ \E q \in Requests : Apply(q, p)
    \/ \E q \in Requests : CommitCustomers(q) \/ CommitBudgets(q) \/ RollsBack(q)
    \/ \E c \in Ids, i \in Identity : EditCustomer(c, i)

Spec == Init /\ [][Next]_vars

----------------------------------------------------------------------------
(* A preview is applied once, from however many tabs: "This preview was    *)
(* already applied; no records were duplicated."                           *)
(* (views_management.py:822-824)                                           *)
AppliedOnce == \A p \in Previews : applications[p] <= 1

(* A connection goes to a customer that was there before the apply only if *)
(* the row had its identifier or its reference: the preview may be older   *)
(* than the customer.  "names do not authorize merging"                    *)
(* (onboarding.py:133-135)                                                 *)
NamesDoNotMerge ==
    \A q \in Requests : CommitCustomers(q) =>
      \A r \in preview[applying[q]].rows :
         LET c == sources'[r.account].customer IN
         c \in DOMAIN customers =>
             c = r.customer \/ (r.reference # NoReference /\ customers[c].reference = r.reference)
=============================================================================
