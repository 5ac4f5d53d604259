---------------------------- MODULE RecordsProofs ----------------------------
(***************************************************************************)
(* What the billing keeps, for every value of the constants: bulk imports, *)
(* cached answers, deletions, alert mails, budgets, allocations, the        *)
(* handoff to the alliance and the evidence that a customer is ready.  The *)
(* module of the imports is extended, the others are instances over        *)
(* variables of their own.                                                 *)
(***************************************************************************)
EXTENDS BulkImport, FiniteSetTheorems, SequenceTheorems, WellFoundedInduction, TLAPS

CONSTANTS
    MaxKey, MaxScope, MaxCrashes,
    Purges, MaxRecords,
    Events, Monitors, Operators, MaxFailures,
    Editors, Figures, MaxMonth, MaxLimits,
    Projects, Members, Keys, Values, Criteria, Origins, SourceOf, Allocators, Starts, Ends, MaxRules, MaxNow,
    Sources, Home, Services, MaxAmount, Recorders, MaxImports, MaxRevisions,
    Commands, Own, Shared, LastDay, MaxVersions, MaxOwnership, MaxMoves, MaxRuns

VARIABLES
    key, enabled, reach, cache, queued, page, worker, wiped, crashes,
    present, collecting, jobs, owned, members, dependents, held, records, purge,
    event, overdue, routed, watch, acknowledge, mailed, failures,
    limits, override, recorded, edit,
    rules, portions, adding, allocator, imported, now,
    facts, period, imports, handoff, screen, ended,
    active, holder, since, window, at, version, ownership, verified, command, runs, moves

Queries == INSTANCE QueryCache WITH scope <- reach
Leaving == INSTANCE Offboarding WITH active <- present, enabled <- collecting, facts <- held
Mails == INSTANCE Alerts WITH run <- watch, request <- acknowledge
Budgets == INSTANCE BudgetAmounts WITH Amounts <- Figures, MaxRows <- MaxLimits, rows <- limits
Rules == INSTANCE Allocation WITH
    Accounts <- Members, Names <- Keys, Kinds <- Criteria, Sources <- Origins, Editors <- Allocators,
      MaxMonth <- MaxNow,
    rows <- portions, worker <- allocator
Handoff == INSTANCE Alliance WITH Editors <- Recorders, record <- handoff, page <- screen
Evidence == INSTANCE Readiness

-----------------------------------------------------------------------------
(* Bulk imports.                                                            *)

Stored(p) == preview[p] # NoPreview

\* A preview is applied once exactly if it says so; a request that applies it holds it alone
\* and found it not applied; and the rows it kept were consistent.
Marked ==
    \A p \in Previews :
      /\ (Stored(p) /\ preview[p].applied) => applications[p] = 1
      /\ (~Stored(p) \/ ~preview[p].applied) => applications[p] = 0
Held ==
    /\ \A q \in Requests : applying[q] # Nothing => Stored(applying[q]) /\ ~preview[applying[q]].applied
    /\ \A q, o \in Requests : applying[q] # Nothing /\ applying[q] = applying[o] => q = o
Agreed == \A p \in Previews : preview[p].state = "customers" => Consistent(preview[p].rows)

ImportInv == TypeOK /\ Marked /\ Held /\ Agreed

\* A stored preview is not the absence of one.
LEMMA PreviewIs ==
    ASSUME NEW x \in Preview
    PROVE  /\ NoPreview.state = "none"
           /\ x = NoPreview \/ (x.state \in {"customers", "budgets"} /\ x.applied \in BOOLEAN /\ x # NoPreview)
           /\ x.state = "customers" => x \in [state : {"customers"}, rows : SUBSET Row, applied : BOOLEAN]
           /\ x.state = "budgets" => x \in [state : {"budgets"}, rows : SUBSET BudgetRow, applied : BOOLEAN]
  <1>1. NoPreview.state = "none"
    BY DEF NoPreview
  <1>2. x = NoPreview \/ x \in [state : {"customers"}, rows : SUBSET Row, applied : BOOLEAN]
                      \/ x \in [state : {"budgets"}, rows : SUBSET BudgetRow, applied : BOOLEAN]
    BY DEF Preview
  <1>3. ASSUME x \in [state : {"customers"}, rows : SUBSET Row, applied : BOOLEAN]
        PROVE  x.state = "customers" /\ x.applied \in BOOLEAN
    BY <1>3
  <1>4. ASSUME x \in [state : {"budgets"}, rows : SUBSET BudgetRow, applied : BOOLEAN]
        PROVE  x.state = "budgets" /\ x.applied \in BOOLEAN
    BY <1>4
  <1>5. CASE x = NoPreview
    <2>1. x.state = "none"
      BY <1>1, <1>5
    <2>2. x.state # "customers" /\ x.state # "budgets"
      BY <2>1
    <2> QED BY <1>1, <1>5, <2>2
  <1>6. CASE x \in [state : {"customers"}, rows : SUBSET Row, applied : BOOLEAN]
    BY <1>1, <1>3, <1>6
  <1>7. CASE x \in [state : {"budgets"}, rows : SUBSET BudgetRow, applied : BOOLEAN]
    BY <1>1, <1>4, <1>7
  <1> QED BY <1>2, <1>5, <1>6, <1>7

LEMMA AppliedIs ==
    ASSUME NEW x \in Preview, x # NoPreview
    PROVE  \E y \in Preview : /\ y = [x EXCEPT !.applied = TRUE]
                              /\ y # NoPreview /\ y.applied = TRUE /\ y.state = x.state /\ y.rows = x.rows
  <1>1. CASE x \in [state : {"customers"}, rows : SUBSET Row, applied : BOOLEAN]
    <2> DEFINE y == [x EXCEPT !.applied = TRUE]
    <2>1. y \in [state : {"customers"}, rows : SUBSET Row, applied : BOOLEAN]
      BY <1>1
    <2>2. y.applied = TRUE /\ y.state = x.state /\ y.rows = x.rows /\ y.state = "customers"
      BY <1>1
    <2>3. NoPreview.state = "none"
      BY DEF NoPreview
    <2>4. y \in Preview
      BY <2>1 DEF Preview
    <2> HIDE DEF y
    <2> QED BY <2>2, <2>3, <2>4 DEF y
  <1>2. CASE x \in [state : {"budgets"}, rows : SUBSET BudgetRow, applied : BOOLEAN]
    <2> DEFINE y == [x EXCEPT !.applied = TRUE]
    <2>1. y \in [state : {"budgets"}, rows : SUBSET BudgetRow, applied : BOOLEAN]
      BY <1>2
    <2>2. y.applied = TRUE /\ y.state = x.state /\ y.rows = x.rows /\ y.state = "budgets"
      BY <1>2
    <2>3. NoPreview.state = "none"
      BY DEF NoPreview
    <2>4. y \in Preview
      BY <2>1 DEF Preview
    <2> HIDE DEF y
    <2> QED BY <2>2, <2>3, <2>4 DEF y
  <1> QED BY <1>1, <1>2 DEF Preview

LEMMA ImportInit == ASSUME Init PROVE ImportInv
  <1>1. customers = [c \in {} |-> {}] /\ sources = [a \in Accounts |-> Unconnected]
          /\ amounts = [c \in Ids |-> 0]
        /\ preview = [p \in Previews |-> NoPreview] /\ applying = [q \in Requests |-> Nothing]
        /\ applications = [p \in Previews |-> 0]
    BY DEF Init
  <1>2. DOMAIN customers \subseteq Ids /\ \A c \in DOMAIN customers : customers[c] \in Identity
    BY <1>1
  <1>3. preview \in [Previews -> Preview]
    BY <1>1 DEF Preview
  <1>4. sources \in [Accounts -> [customer : Ids, kind : Kinds] \cup {Unconnected}]
          /\ amounts \in [Ids -> Nat]
    BY <1>1
  <1>5. applying \in [Requests -> Previews \cup {Nothing}] /\ applications \in [Previews -> Nat]
    BY <1>1
  <1>6. TypeOK
    BY <1>2, <1>3, <1>4, <1>5 DEF TypeOK
  <1>7. Marked /\ Held
    BY <1>1 DEF Marked, Held, Stored
  <1>8. NoPreview.state = "none"
    BY DEF NoPreview
  <1>9. Agreed
    BY <1>1, <1>8 DEF Agreed
  <1> QED BY <1>6, <1>7, <1>9 DEF ImportInv

\* A file that was not there is kept as a preview that is not applied.
LEMMA UploadInv ==
    ASSUME ImportInv, NEW p \in Previews, ~Stored(p), NEW x \in Preview, preview' = [preview EXCEPT ![p] = x],
           x # NoPreview, ~x.applied, x.state = "customers" => Consistent(x.rows),
           UNCHANGED <<customers, sources, amounts, applying, applications>>
    PROVE  ImportInv'
  <1>1. preview' \in [Previews -> Preview] /\ preview'[p] = x
          /\ \A o \in Previews : o # p => preview'[o] = preview[o]
    BY DEF ImportInv, TypeOK
  <1>2. TypeOK'
    BY <1>1 DEF ImportInv, TypeOK, Unconnected
  <1>3. Marked'
    BY <1>1 DEF ImportInv, Marked, Stored
  <1>4. \A q \in Requests : applying[q] # Nothing => applying[q] \in Previews /\ applying[q] # p
    BY DEF ImportInv, TypeOK, Held
  <1>5. Held'
    BY <1>1, <1>4 DEF ImportInv, Held, Stored
  <1>6. Agreed'
    BY <1>1 DEF ImportInv, Agreed
  <1> QED BY <1>2, <1>3, <1>5, <1>6 DEF ImportInv

LEMMA UploadCustomersInv == ASSUME ImportInv, NEW p \in Previews, UploadCustomers(p) PROVE ImportInv'
  <1>n. PICK n \in 1..MaxRows :
          \E f \in [1..n -> [id : DOMAIN customers \cup {New}, name : Names, reference : References,
                             account : Accounts, kind : Kinds]] :
          LET rows == {[customer |-> Selected(f[i].name, f[i].reference, f[i].id), name |-> f[i].name,
                        reference |-> f[i].reference, account |-> f[i].account,
                          kind |-> f[i].kind] : i \in 1..n}
          IN  /\ Consistent(rows)
              /\ preview' = [preview EXCEPT ![p] = [state |-> "customers", rows |-> rows, applied |-> FALSE]]
    BY DEF UploadCustomers
  <1>1. PICK f \in [1..n -> [id : DOMAIN customers \cup {New}, name : Names, reference : References,
                             account : Accounts, kind : Kinds]] :
          LET rows == {[customer |-> Selected(f[i].name, f[i].reference, f[i].id), name |-> f[i].name,
                        reference |-> f[i].reference, account |-> f[i].account,
                          kind |-> f[i].kind] : i \in 1..n}
          IN  /\ Consistent(rows)
              /\ preview' = [preview EXCEPT ![p] = [state |-> "customers", rows |-> rows, applied |-> FALSE]]
    BY <1>n
  <1> DEFINE row(i) == [customer |-> Selected(f[i].name, f[i].reference, f[i].id), name |-> f[i].name,
                        reference |-> f[i].reference, account |-> f[i].account, kind |-> f[i].kind]
  <1> DEFINE rows == {row(i) : i \in 1..n}
  <1> DEFINE x == [state |-> "customers", rows |-> rows, applied |-> FALSE]
  <1>2. Consistent(rows) /\ preview' = [preview EXCEPT ![p] = x]
    BY <1>1
  <1>3. ASSUME NEW i \in 1..n PROVE row(i) \in Row
    <2> DEFINE g == f[i]
    <2>1. g.id \in DOMAIN customers \cup {New} /\ g.name \in Names /\ g.reference \in References
          /\ g.account \in Accounts /\ g.kind \in Kinds
      OBVIOUS
    <2>2. Selected(g.name, g.reference, g.id) \in Ids \cup {New}
      <3> HIDE DEF g
      <3>1. ASSUME Cardinality(Referred(g.reference)) = 1
            PROVE  (CHOOSE c \in Referred(g.reference) : TRUE) \in Ids
        <4>1. Referred(g.reference) # {}
          <5>1. IsFiniteSet({}) /\ Cardinality({}) = 0
            BY FS_EmptySet
          <5>2. Referred(g.reference) = {} => Cardinality(Referred(g.reference)) = 0
            BY <5>1, Zenon
          <5> QED BY <3>1, <5>2
        <4>2. (CHOOSE c \in Referred(g.reference) : TRUE) \in Referred(g.reference)
          BY <4>1
        <4> QED BY <4>2 DEF Referred, ImportInv, TypeOK
      <3> QED BY <2>1, <3>1 DEF Selected, ImportInv, TypeOK
    <2> QED BY <2>1, <2>2 DEF Row
  <1> HIDE DEF row
  <1>4. rows \in SUBSET Row
    BY <1>3
  <1> HIDE DEF rows
  <1>5. x \in [state : {"customers"}, rows : SUBSET Row, applied : BOOLEAN] /\ x.rows = rows
          /\ x.applied = FALSE /\ x.state = "customers"
    BY <1>4
  <1>6. x \in Preview
    BY <1>5 DEF Preview
  <1> HIDE DEF x
  <1>7. x # NoPreview
    BY <1>5, <1>6, PreviewIs
  <1>8. ~Stored(p) /\ UNCHANGED <<customers, sources, amounts, applying, applications>>
    BY DEF UploadCustomers, Stored
  <1> QED BY <1>2, <1>5, <1>6, <1>7, <1>8, UploadInv

LEMMA UploadBudgetsInv == ASSUME ImportInv, NEW p \in Previews, UploadBudgets(p) PROVE ImportInv'
  <1>1. PICK c \in DOMAIN customers :
          preview' = [preview EXCEPT ![p] = [state |-> "budgets", rows |-> {[customer |-> c]}, applied |-> FALSE]]
    BY DEF UploadBudgets
  <1> DEFINE x == [state |-> "budgets", rows |-> {[customer |-> c]}, applied |-> FALSE]
  <1>2. c \in Ids
    BY DEF ImportInv, TypeOK
  <1>3. {[customer |-> c]} \in SUBSET BudgetRow
    BY <1>2 DEF BudgetRow
  <1>4. x \in [state : {"budgets"}, rows : SUBSET BudgetRow, applied : BOOLEAN] /\ x.applied = FALSE
          /\ x.state = "budgets"
    BY <1>3
  <1>5. x \in Preview
    BY <1>4 DEF Preview
  <1>6. preview' = [preview EXCEPT ![p] = x]
    BY <1>1
  <1> HIDE DEF x
  <1>7. x # NoPreview
    BY <1>4, <1>5, PreviewIs
  <1>8. ~Stored(p) /\ UNCHANGED <<customers, sources, amounts, applying, applications>>
    BY DEF UploadBudgets, Stored
  <1> QED BY <1>4, <1>5, <1>6, <1>7, <1>8, UploadInv

\* A request that ends, with the preview applied once more or as it was.
LEMMA EndInv ==
    ASSUME ImportInv, NEW q \in Requests, applying[q] # Nothing, applying' = [applying EXCEPT ![q] = Nothing],
           \/ UNCHANGED <<preview, applications>>
           \/ /\ preview' = [preview EXCEPT ![applying[q]].applied = TRUE]
              /\ applications' = [applications EXCEPT ![applying[q]] = @ + 1]
    PROVE  Marked' /\ Held' /\ Agreed' /\ preview' \in [Previews -> Preview]
           /\ applying' \in [Requests -> Previews \cup {Nothing}] /\ applications' \in [Previews -> Nat]
  <1> DEFINE p == applying[q]
  <1>1. p \in Previews /\ Stored(p) /\ ~preview[p].applied /\ preview[p] \in Preview
    BY DEF ImportInv, TypeOK, Held
  <1>2. /\ applying' \in [Requests -> Previews \cup {Nothing}] /\ applying'[q] = Nothing
        /\ \A o \in Requests : o # q => applying'[o] = applying[o]
    BY DEF ImportInv, TypeOK
  <1>3. \A o \in Requests : applying[o] # Nothing => applying[o] \in Previews
          /\ Stored(applying[o]) /\ ~preview[applying[o]].applied
    BY DEF ImportInv, TypeOK, Held
  <1>4. \A o \in Requests : o # q => applying[o] # p
    BY DEF ImportInv, Held
  <1>5. CASE UNCHANGED <<preview, applications>>
    <2>1. Held'
      BY <1>2, <1>3, <1>5 DEF ImportInv, Held, Stored
    <2> QED BY <1>2, <1>5, <2>1 DEF ImportInv, TypeOK, Marked, Stored, Agreed
  <1>6. CASE /\ preview' = [preview EXCEPT ![p].applied = TRUE]
             /\ applications' = [applications EXCEPT ![p] = @ + 1]
    <2>1. PICK y \in Preview : /\ y = [preview[p] EXCEPT !.applied = TRUE]
                               /\ y # NoPreview /\ y.applied = TRUE /\ y.state = preview[p].state
                                  /\ y.rows = preview[p].rows
      BY <1>1, AppliedIs DEF Stored
    <2>2. preview' = [preview EXCEPT ![p] = y]
      BY <1>6, <2>1
    <2>3. preview' \in [Previews -> Preview] /\ preview'[p] = y
            /\ \A o \in Previews : o # p => preview'[o] = preview[o]
      BY <1>1, <2>2 DEF ImportInv, TypeOK
    <2>4. applications' \in [Previews -> Nat] /\ applications'[p] = applications[p] + 1
          /\ \A o \in Previews : o # p => applications'[o] = applications[o]
      BY <1>1, <1>6 DEF ImportInv, TypeOK
    <2>5. applications[p] = 0
      BY <1>1 DEF ImportInv, Marked
    <2>6. Marked'
      <3>1. ASSUME NEW o \in Previews
            PROVE  /\ (Stored(o)' /\ preview'[o].applied) => applications'[o] = 1
                   /\ (~Stored(o)' \/ ~preview'[o].applied) => applications'[o] = 0
        <4>1. CASE o = p
          <5>1. applications'[o] = 1 /\ preview'[o] # NoPreview
            BY <2>1, <2>3, <2>4, <2>5, <4>1
          <5>2. preview'[o].applied
            BY <2>1, <2>3, <4>1
          <5> QED BY <5>1, <5>2 DEF Stored
        <4>2. CASE o # p
          BY <2>3, <2>4, <4>2 DEF ImportInv, Marked, Stored
        <4> QED BY <4>1, <4>2
      <3> QED BY <3>1 DEF Marked
    <2>7. Held'
      BY <1>2, <1>3, <1>4, <2>3 DEF ImportInv, Held, Stored
    <2>8. Agreed'
      BY <1>1, <2>1, <2>3 DEF ImportInv, Agreed
    <2> QED BY <1>2, <2>3, <2>4, <2>6, <2>7, <2>8
  <1> QED BY <1>5, <1>6

LEMMA ApplyInv == ASSUME ImportInv, NEW q \in Requests, NEW p \in Previews, Apply(q, p) PROVE ImportInv'
  <1>1. /\ Stored(p) /\ ~preview[p].applied /\ \A o \in Requests : applying[o] # p
        /\ applying' = [applying EXCEPT ![q] = p]
           /\ UNCHANGED <<customers, sources, amounts, preview, applications>>
    BY DEF Apply, Stored, Locked
  <1>2. applying' \in [Requests -> Previews \cup {Nothing}] /\ applying'[q] = p
        /\ \A o \in Requests : o # q => applying'[o] = applying[o]
    BY <1>1 DEF ImportInv, TypeOK
  <1>3. TypeOK'
    BY <1>1, <1>2 DEF ImportInv, TypeOK
  <1>4. Marked' /\ Agreed'
    BY <1>1 DEF ImportInv, Marked, Agreed, Stored
  <1>5. Held'
    <2>1. \A o \in Requests : applying'[o] # Nothing => Stored(applying'[o]) /\ ~preview[applying'[o]].applied
      BY <1>1, <1>2 DEF ImportInv, Held
    <2>2. \A o, g \in Requests : applying'[o] # Nothing /\ applying'[o] = applying'[g] => o = g
      BY <1>1, <1>2 DEF ImportInv, Held
    <2> QED BY <1>1, <2>1, <2>2 DEF Held, Stored
  <1> QED BY <1>3, <1>4, <1>5 DEF ImportInv

LEMMA RollsBackInv == ASSUME ImportInv, NEW q \in Requests, RollsBack(q) PROVE ImportInv'
  <1>1. applying[q] # Nothing /\ applying' = [applying EXCEPT ![q] = Nothing]
        /\ UNCHANGED <<customers, sources, amounts, preview, applications>>
    BY DEF RollsBack
  <1> QED BY <1>1, EndInv DEF ImportInv, TypeOK

LEMMA CommitBudgetsInv == ASSUME ImportInv, NEW q \in Requests, CommitBudgets(q) PROVE ImportInv'
  <1>1. /\ applying[q] # Nothing /\ applying' = [applying EXCEPT ![q] = Nothing]
        /\ preview' = [preview EXCEPT ![applying[q]].applied = TRUE]
        /\ applications' = [applications EXCEPT ![applying[q]] = @ + 1]
        /\ UNCHANGED <<customers, sources>>
        /\ amounts' = [c \in Ids |-> IF \E r \in preview[applying[q]].rows : r.customer = c THEN amounts[c] + 1 ELSE amounts[c]]
    BY DEF CommitBudgets
  <1>2. amounts' \in [Ids -> Nat]
    BY <1>1 DEF ImportInv, TypeOK
  <1> QED BY <1>1, <1>2, EndInv DEF ImportInv, TypeOK

\* The preview that a request commits, and the numbers its new customers get.
LEMMA CommitIs ==
    ASSUME ImportInv, NEW q \in Requests, CommitCustomers(q)
    PROVE  /\ applying[q] # Nothing /\ applying[q] \in Previews
           /\ preview[applying[q]].rows \subseteq Row /\ Consistent(preview[applying[q]].rows)
           /\ applying' = [applying EXCEPT ![q] = Nothing]
           /\ preview' = [preview EXCEPT ![applying[q]].applied = TRUE]
           /\ applications' = [applications EXCEPT ![applying[q]] = @ + 1]
           /\ amounts' = amounts
  <1>1. applying[q] # Nothing /\ applying[q] \in Previews /\ preview[applying[q]].state = "customers"
    BY DEF CommitCustomers, ImportInv, TypeOK
  <1>2. preview[applying[q]] \in Preview
    BY <1>1 DEF ImportInv, TypeOK
  <1>3. preview[applying[q]].rows \subseteq Row
    BY <1>1, <1>2, PreviewIs
  <1> QED BY <1>1, <1>3 DEF CommitCustomers, ImportInv, Agreed

\* The owner of a row is the customer it names, one of its name, or a new one.
LEMMA OwnerIs ==
    ASSUME TypeOK, NEW rows \in SUBSET Row, NEW numbers \in Numbering(NewNames(rows)), NEW r \in rows
    PROVE  /\ Owner(r, numbers) \in Ids
           /\ \/ r.customer # New /\ Owner(r, numbers) = r.customer
              \/ r.customer = New /\ Owner(r, numbers) \in Named(r.name)
              \/ r.customer = New /\ r.name \in NewNames(rows) /\ Owner(r, numbers) \in Ids \ DOMAIN customers
  <1>1. r.customer \in Ids \cup {New}
    BY DEF Row
  <1>2. \A n : Named(n) \subseteq Ids
    BY DEF Named, TypeOK
  <1>3. CASE r.customer # New
    BY <1>1, <1>3 DEF Owner
  <1>4. CASE r.customer = New /\ Named(r.name) # {}
    <2>1. (CHOOSE c \in Named(r.name) : TRUE) \in Named(r.name)
      BY <1>4
    <2> QED BY <1>2, <1>4, <2>1 DEF Owner
  <1>5. CASE r.customer = New /\ Named(r.name) = {}
    <2>1. r.name \in NewNames(rows)
      BY <1>5 DEF NewNames
    <2>2. numbers[r.name] \in Ids \ DOMAIN customers
      BY <2>1 DEF Numbering
    <2> QED BY <1>5, <2>1, <2>2 DEF Owner
  <1> QED BY <1>3, <1>4, <1>5

LEMMA CommitCustomersInv == ASSUME ImportInv, NEW q \in Requests, CommitCustomers(q) PROVE ImportInv'
  <1> DEFINE rows == preview[applying[q]].rows
  <1>1. /\ applying[q] # Nothing /\ applying[q] \in Previews /\ rows \subseteq Row /\ Consistent(rows)
        /\ applying' = [applying EXCEPT ![q] = Nothing]
        /\ preview' = [preview EXCEPT ![applying[q]].applied = TRUE]
        /\ applications' = [applications EXCEPT ![applying[q]] = @ + 1]
        /\ amounts' = amounts
    BY CommitIs
  <1>2. PICK numbers \in Numbering(NewNames(rows)) :
          /\ customers' = [c \in DOMAIN customers \cup {numbers[n] : n \in NewNames(rows)} |->
                IF c \in DOMAIN customers THEN customers[c]
                ELSE LET r == CHOOSE x \in rows : x.name \in NewNames(rows) /\ numbers[x.name] = c
                     IN  [name |-> r.name, reference |-> r.reference]]
          /\ sources' = [a \in Accounts |->
                IF \E r \in rows : r.account = a
                THEN LET r == CHOOSE x \in rows : x.account = a
                     IN  [customer |-> Owner(r, numbers), kind |-> r.kind]
                ELSE sources[a]]
    BY DEF CommitCustomers
  <1> HIDE DEF rows
  <1>3. TypeOK /\ \A n \in NewNames(rows) : numbers[n] \in Ids
    BY DEF ImportInv, Numbering
  <1>4. DOMAIN customers' \subseteq Ids
    BY <1>2, <1>3 DEF TypeOK
  <1>5. ASSUME NEW c \in DOMAIN customers' PROVE customers'[c] \in Identity
    <2>1. CASE c \in DOMAIN customers
      BY <1>2, <1>3, <2>1 DEF TypeOK
    <2>2. CASE c \notin DOMAIN customers
      <3> DEFINE r == CHOOSE x \in rows : x.name \in NewNames(rows) /\ numbers[x.name] = c
      <3>1. \E x \in rows : x.name \in NewNames(rows) /\ numbers[x.name] = c
        BY <1>2, <2>2 DEF NewNames
      <3>2. r \in rows
        BY <3>1
      <3>3. customers'[c] = [name |-> r.name, reference |-> r.reference]
        BY <1>2, <2>2
      <3> HIDE DEF r
      <3>4. r.name \in Names /\ r.reference \in References
        BY <1>1, <3>2 DEF Row
      <3> QED BY <3>3, <3>4 DEF Identity
    <2> QED BY <2>1, <2>2
  <1>6. ASSUME NEW a \in Accounts PROVE sources'[a] \in [customer : Ids, kind : Kinds] \cup {Unconnected}
    <2>1. CASE \E r \in rows : r.account = a
      <3> DEFINE r == CHOOSE x \in rows : x.account = a
      <3>1. r \in rows
        BY <2>1
      <3>2. sources'[a] = [customer |-> Owner(r, numbers), kind |-> r.kind]
        BY <1>2, <2>1
      <3> HIDE DEF r
      <3>3. Owner(r, numbers) \in Ids /\ r.kind \in Kinds
        BY <1>1, <1>3, <3>1, OwnerIs DEF Row
      <3> QED BY <3>2, <3>3
    <2>2. CASE ~ \E r \in rows : r.account = a
      BY <1>2, <1>3, <2>2 DEF TypeOK
    <2> QED BY <2>1, <2>2
  <1>7. sources' \in [Accounts -> [customer : Ids, kind : Kinds] \cup {Unconnected}]
    BY <1>2, <1>6
  <1>8. Marked' /\ Held' /\ Agreed' /\ preview' \in [Previews -> Preview]
        /\ applying' \in [Requests -> Previews \cup {Nothing}] /\ applications' \in [Previews -> Nat]
    BY <1>1, EndInv
  <1> QED BY <1>1, <1>3, <1>4, <1>5, <1>7, <1>8 DEF ImportInv, TypeOK

LEMMA EditCustomerInv ==
    ASSUME ImportInv, NEW c \in Ids, NEW identity \in Identity, EditCustomer(c, identity)
    PROVE  ImportInv'
  <1>1. customers' = [d \in DOMAIN customers \cup {c} |-> IF d = c THEN identity ELSE customers[d]]
        /\ UNCHANGED <<sources, amounts, preview, applying, applications>>
    BY DEF EditCustomer
  <1>2. DOMAIN customers' \subseteq Ids /\ \A d \in DOMAIN customers' : customers'[d] \in Identity
    BY <1>1 DEF ImportInv, TypeOK
  <1> QED BY <1>1, <1>2 DEF ImportInv, TypeOK, Marked, Held, Agreed, Stored

LEMMA ImportNext == ASSUME ImportInv, [Next]_vars PROVE ImportInv'
  <1>1. CASE UNCHANGED vars
    BY <1>1 DEF vars, ImportInv, TypeOK, Marked, Held, Agreed, Stored
  <1> QED
    BY <1>1, UploadCustomersInv, UploadBudgetsInv, ApplyInv, RollsBackInv, CommitBudgetsInv,
      CommitCustomersInv,
       EditCustomerInv DEF Next

LEMMA ImportInvariance == Spec => []ImportInv
  BY ImportInit, ImportNext, PTL DEF Spec

LEMMA ImportedOnce == ASSUME ImportInv PROVE TypeOK /\ AppliedOnce
  <1>1. \A p \in Previews : applications[p] = 0 \/ applications[p] = 1
    BY DEF ImportInv, Marked
  <1> QED BY <1>1 DEF ImportInv, AppliedOnce

LEMMA MergeStep == ASSUME ImportInv PROVE NamesDoNotMerge
  <1> SUFFICES ASSUME NEW q \in Requests, CommitCustomers(q), NEW r \in preview[applying[q]].rows,
                      sources'[r.account].customer \in DOMAIN customers
               PROVE  \/ sources'[r.account].customer = r.customer
                      \/ /\ r.reference # NoReference
                         /\ customers[sources'[r.account].customer].reference = r.reference
    BY DEF NamesDoNotMerge
  <1> DEFINE rows == preview[applying[q]].rows
  <1>1. rows \subseteq Row /\ Consistent(rows)
    BY CommitIs
  <1>2. PICK numbers \in Numbering(NewNames(rows)) :
          /\ \A x \in rows : x.customer = New => SameIdentity(x)
          /\ sources' = [a \in Accounts |->
                IF \E x \in rows : x.account = a
                THEN LET y == CHOOSE x \in rows : x.account = a
                     IN  [customer |-> Owner(y, numbers), kind |-> y.kind]
                ELSE sources[a]]
    BY DEF CommitCustomers
  <1> DEFINE y == CHOOSE x \in rows : x.account = r.account
  <1>3. r \in rows /\ y \in rows /\ y.account = r.account
    OBVIOUS
  <1> HIDE DEF rows
  <1>4. y = r
    BY <1>1, <1>3 DEF Consistent
  <1>5. r.account \in Accounts
    BY <1>1, <1>3 DEF Row
  <1>6. sources'[r.account] = [customer |-> Owner(y, numbers), kind |-> y.kind]
    BY <1>2, <1>3, <1>5
  <1> HIDE DEF y
  <1>7. sources'[r.account].customer = Owner(r, numbers)
    BY <1>4, <1>6
  <1>8. TypeOK
    BY DEF ImportInv
  <1> QED BY <1>1, <1>2, <1>3, <1>7, <1>8, OwnerIs DEF SameIdentity

THEOREM ImportsApplyOnce == Spec => [](TypeOK /\ AppliedOnce) /\ [][NamesDoNotMerge]_vars
  <1>1. ImportInv => TypeOK /\ AppliedOnce
    BY ImportedOnce
  <1>2. ImportInv /\ [Next]_vars => [NamesDoNotMerge]_vars
    BY MergeStep
  <1> QED BY <1>1, <1>2, ImportInvariance, PTL DEF Spec

-----------------------------------------------------------------------------
(* Cached answers.                                                          *)

Work == [step : {"idle", "loaded", "batch", "asking", "answered"}, kind : Queries!Kinds \cup {"none"},
         seen : 0..MaxKey, batch : SUBSET Queries!Queries, query : Queries!Queries \cup {Queries!NoQuery}]

\* A query that was made, or is being made, was made for a connection key of the present or
\* of the past; one that was emptied is of the past, and has stayed empty.
Past == \A q \in Queries!Queries : cache[q].known => q.key <= key
Made == page.query \in Queries!Queries => page.query.key <= key
Emptied == \A q \in wiped : q.key < key /\ ~cache[q].data
QueriesWorking ==
    /\ worker = Queries!NoJob \/ worker.kind \in Queries!Kinds
    /\ worker.step \in {"asking", "answered"} => worker.query \in Queries!Queries
QueriesInv == Queries!TypeOK /\ Past /\ Made /\ Emptied /\ QueriesWorking

LEMMA QueriesInit == ASSUME Queries!QueryCacheAssumption, Queries!Init PROVE QueriesInv
  <1>1. [key |-> 0, scope |-> 0] \notin Queries!Queries
    BY DEF Queries!Queries
  <1> QED
  BY <1>1 DEF Queries!Init, QueriesInv, Queries!TypeOK, Past, Made, Emptied, QueriesWorking,
       Queries!Queries, Queries!Entries, Queries!Absent, Queries!NoPage, Queries!NoQuery,
       Queries!NoJob, Queries!Kinds, Queries!QueryCacheAssumption

LEMMA EntryUpdates ==
    ASSUME cache \in [Queries!Queries -> Queries!Entries], NEW q \in Queries!Queries, NEW b \in BOOLEAN,
           NEW c \in BOOLEAN, NEW to,
           \/ to = [cache EXCEPT ![q].known = b, ![q].requested = c]
           \/ to = [cache EXCEPT ![q].requested = b, ![q].data = c]
           \/ to = [cache EXCEPT ![q].requested = b]
           \/ to = [cache EXCEPT ![q].recent = b]
    PROVE  to \in [Queries!Queries -> Queries!Entries]
  BY DEF Queries!Entries

LEMMA AskUpdate ==
    ASSUME worker \in Work, worker.step = "batch", NEW q \in Queries!Queries, NEW w,
           w = [worker EXCEPT !.step = "asking", !.query = q]
    PROVE  w \in Work /\ w.kind = worker.kind /\ worker # Queries!NoJob /\ w.query \in Queries!Queries
  <1>1. worker # Queries!NoJob
    BY DEF Queries!NoJob
  <1>2. w \in Work
    BY DEF Work
  <1>3. w.kind = worker.kind /\ w.query \in Queries!Queries
    BY DEF Work
  <1> QED BY <1>1, <1>2, <1>3

LEMMA BatchUpdate ==
    ASSUME worker \in Work, worker.step = "loaded", NEW b \in SUBSET Queries!Queries, NEW n \in 0..MaxKey,
           NEW w,
           w = [worker EXCEPT !.step = "batch", !.batch = b, !.seen = n]
    PROVE  w \in Work /\ w.kind = worker.kind /\ worker # Queries!NoJob /\ w.step = "batch"
  <1>1. worker # Queries!NoJob
    BY DEF Queries!NoJob
  <1>2. w \in Work
    BY DEF Work
  <1>3. w.kind = worker.kind /\ w.step = "batch"
    BY DEF Work
  <1> QED BY <1>1, <1>2, <1>3

LEMMA QueriesPageInv ==
    ASSUME Queries!QueryCacheAssumption, QueriesInv, Queries!LookUp \/ Queries!GetQuery
    PROVE  QueriesInv'
  <1>1. CASE Queries!LookUp
    <2>1. [key |-> key, scope |-> reach] \in Queries!Queries
      BY DEF QueriesInv, Queries!TypeOK, Queries!Queries
    <2>2. cache[[key |-> key, scope |-> reach]] \in Queries!Entries
      BY <2>1 DEF QueriesInv, Queries!TypeOK
    <2> QED
      BY <1>1, <2>1, <2>2 DEF Queries!LookUp, QueriesInv, Queries!TypeOK, Past, Made, Emptied,
           QueriesWorking, Queries!source, Queries!Entries, Queries!QueryCacheAssumption
  <1>2. CASE Queries!GetQuery
    <2>1. CASE page.query \in Queries!Queries
      <3>1. cache' \in [Queries!Queries -> Queries!Entries]
        <4>1. cache' = [cache EXCEPT ![page.query].known = TRUE, ![page.query].requested = page.requested]
          BY <1>2 DEF Queries!GetQuery
        <4>2. cache \in [Queries!Queries -> Queries!Entries] /\ page.requested \in BOOLEAN
          BY DEF QueriesInv, Queries!TypeOK
        <4> QED BY <2>1, <4>1, <4>2, EntryUpdates
      <3>2. \A q \in Queries!Queries : cache'[q].data = cache[q].data
              /\ (cache'[q].known => cache[q].known \/ q = page.query)
        BY <1>2, <2>1 DEF Queries!GetQuery, QueriesInv, Queries!TypeOK, Queries!Entries
      <3>3. Queries!NoPage \in [query : Queries!Queries \cup {Queries!NoQuery}, requested : BOOLEAN]
              /\ Queries!NoPage.query \notin Queries!Queries
        BY DEF Queries!NoPage, Queries!NoQuery, Queries!Queries
      <3>4. queued' \subseteq Queries!Kinds
        BY <1>2 DEF Queries!GetQuery, QueriesInv, Queries!TypeOK, Queries!Kinds
      <3> QED
        BY <1>2, <2>1, <3>1, <3>2, <3>3, <3>4 DEF Queries!GetQuery, QueriesInv, Queries!TypeOK,
             Past, Made, Emptied, QueriesWorking, Queries!source
    <2>2. CASE page.query \notin Queries!Queries
      <3>1. cache' = cache
        BY <1>2, <2>2 DEF Queries!GetQuery, QueriesInv, Queries!TypeOK
      <3>3. Queries!NoPage \in [query : Queries!Queries \cup {Queries!NoQuery}, requested : BOOLEAN]
              /\ Queries!NoPage.query \notin Queries!Queries
        BY DEF Queries!NoPage, Queries!NoQuery, Queries!Queries
      <3>4. queued' \subseteq Queries!Kinds
        BY <1>2 DEF Queries!GetQuery, QueriesInv, Queries!TypeOK, Queries!Kinds
      <3> QED
        BY <1>2, <3>1, <3>3, <3>4 DEF Queries!GetQuery, QueriesInv, Queries!TypeOK, Past, Made,
             Emptied, QueriesWorking, Queries!source
    <2> QED BY <2>1, <2>2
  <1> QED BY <1>1, <1>2

\* A page's refresh only asks again.
LEMMA RefreshInv ==
    ASSUME QueriesInv, NEW q \in Queries!Queries, Queries!RefreshCosts(q) PROVE QueriesInv'
  <1>1. cache' = [cache EXCEPT ![q].requested = TRUE]
    BY DEF Queries!RefreshCosts
  <1>2. cache' \in [Queries!Queries -> Queries!Entries]
    BY <1>1, EntryUpdates DEF QueriesInv, Queries!TypeOK
  <1>3. \A r \in Queries!Queries : cache'[r].data = cache[r].data /\ cache'[r].known = cache[r].known
    BY <1>1 DEF QueriesInv, Queries!TypeOK, Queries!Entries
  <1> QED
    BY <1>2, <1>3 DEF Queries!RefreshCosts, QueriesInv, Queries!TypeOK, Past, Made, Emptied,
         QueriesWorking, Queries!source

LEMMA JobInv == ASSUME Queries!QueryCacheAssumption, QueriesInv, Queries!Worker PROVE QueriesInv'
  <1> USE DEF QueriesInv, Queries!TypeOK, Queries!source, Past, Made, Emptied, QueriesWorking
  <1>1. Queries!NoJob \in Work
    BY DEF Queries!NoJob, Work, Queries!QueryCacheAssumption
  <1>2. worker \in Work
    BY DEF Work
  <1>3. ASSUME NEW q \in Queries!Queries
        PROVE  Queries!Settled(q) \in Work /\ Queries!Settled(q).step = "batch"
                 /\ Queries!Settled(q).kind = worker.kind
    BY <1>2 DEF Queries!Settled, Work
  <1>4. ASSUME worker' \in Work, worker' = Queries!NoJob \/ worker'.kind \in Queries!Kinds,
               worker'.step \in {"asking", "answered"} => worker'.query \in Queries!Queries,
               cache' \in [Queries!Queries -> Queries!Entries], queued' \subseteq queued,
               UNCHANGED <<key, enabled, reach, page, wiped, crashes>>,
               \A q \in Queries!Queries : cache'[q].known = cache[q].known,
               \A q \in Queries!Queries : cache'[q].data => cache[q].data \/ q.key = key
        PROVE  QueriesInv'
    <2>1. \A q \in wiped : q.key \in Nat /\ q \in Queries!Queries
      BY DEF Queries!Queries, Queries!QueryCacheAssumption
    <2>2. (worker \in Work)'
      BY <1>4
    <2> QED BY <1>4, <2>1, <2>2 DEF Work
  <1>5. ASSUME NEW k \in Queries!Kinds, Queries!Lease(k) PROVE QueriesInv'
    <2>1. worker' \in Work /\ (worker' = Queries!NoJob \/ worker'.kind = k)
            /\ worker'.step \in {"idle", "loaded"}
      BY <1>1, <1>5 DEF Queries!Lease, Queries!NoJob, Work
    <2> QED BY <1>4, <1>5, <2>1 DEF Queries!Lease
  <1>6. CASE Queries!SelectBatch
    <2>1. cache' \in [Queries!Queries -> Queries!Entries]
      BY <1>6 DEF Queries!SelectBatch, Queries!Entries
    <2>2. \A q \in Queries!Queries : cache'[q].data = cache[q].data /\ cache'[q].known = cache[q].known
      BY <1>6 DEF Queries!SelectBatch, Queries!Entries
    <2>3. worker' \in Work /\ worker'.step = "batch" /\ worker'.kind = worker.kind /\ worker # Queries!NoJob
      <3>1. \A rows : Queries!Selected(rows) \subseteq Queries!Queries
        BY DEF Queries!Selected
      <3>2. key \in 0..MaxKey /\ worker.step = "loaded"
        BY <1>6 DEF Queries!SelectBatch, Queries!QueryCacheAssumption
      <3>3. \E b \in SUBSET Queries!Queries : worker' = [worker EXCEPT !.step = "batch", !.batch = b, !.seen = key]
        BY <1>6, <3>1 DEF Queries!SelectBatch
      <3>4. PICK b \in SUBSET Queries!Queries : worker' = [worker EXCEPT !.step = "batch", !.batch = b, !.seen = key]
        BY <3>3
      <3> QED BY <1>2, <3>2, <3>4, BatchUpdate
    <2> QED BY <1>4, <1>6, <2>1, <2>2, <2>3 DEF Queries!SelectBatch
  <1>7. ASSUME NEW q \in Queries!Queries, Queries!Take(q) PROVE QueriesInv'
    <2>0. cache' \in {[cache EXCEPT ![q].requested = FALSE, ![q].data = FALSE], [cache EXCEPT ![q].requested = FALSE],
                     [cache EXCEPT ![q].recent = TRUE]}
      BY <1>7 DEF Queries!Take
    <2>1. cache' \in [Queries!Queries -> Queries!Entries]
      BY <2>0, EntryUpdates
    <2>2. \A r \in Queries!Queries : (cache'[r].data => cache[r].data) /\ cache'[r].known = cache[r].known
      BY <2>0 DEF Queries!Entries
    <2>3. worker' \in {Queries!Settled(q), [worker EXCEPT !.step = "asking", !.query = q]}
            /\ worker.step = "batch"
      BY <1>7 DEF Queries!Take
    <2>4. worker' \in Work /\ worker'.kind = worker.kind /\ worker # Queries!NoJob
      <3>1. Queries!NoJob.step # "batch"
        BY DEF Queries!NoJob
      <3> QED BY <1>2, <1>3, <2>3, <3>1, AskUpdate
    <2>5. worker'.step \in {"asking", "answered"} => worker'.query \in Queries!Queries
      BY <1>2, <1>3, <2>3 DEF Work
    <2>6. UNCHANGED <<key, enabled, reach, queued, page, wiped, crashes>>
      BY <1>7 DEF Queries!Take
    <2> QED BY <1>4, <2>1, <2>2, <2>4, <2>5, <2>6
  <1>8. CASE Queries!Ask
    <2>1. worker.query \in Queries!Queries
      BY <1>8 DEF Queries!Ask
    <2>6. cache' \in {cache, [cache EXCEPT ![worker.query].requested = FALSE]}
      BY <1>8 DEF Queries!Ask
    <2>2. cache' \in [Queries!Queries -> Queries!Entries]
      BY <2>1, <2>6, EntryUpdates
    <2>3. \A r \in Queries!Queries : (cache'[r].data => cache[r].data) /\ cache'[r].known = cache[r].known
      BY <2>1, <2>6 DEF Queries!Entries
    <2>4. worker' \in Work /\ worker'.kind = worker.kind /\ worker # Queries!NoJob
      BY <1>2, <1>3, <1>8, <2>1 DEF Queries!Ask, Work, Queries!NoJob
    <2>5. worker'.step \in {"asking", "answered"} => worker'.query \in Queries!Queries
      BY <1>2, <1>3, <1>8, <2>1 DEF Queries!Ask, Work
    <2> QED BY <1>4, <1>8, <2>2, <2>3, <2>4, <2>5 DEF Queries!Ask
  <1>9. CASE Queries!RunQuery
    <2>1. worker.query \in Queries!Queries /\ cache[worker.query] \in Queries!Entries
      BY <1>9 DEF Queries!RunQuery
    <2>2. (cache[worker.query].data \/ Queries!Fence(worker.query)) \in BOOLEAN
      BY <2>1 DEF Queries!Entries
    <2>3. cache' = [cache EXCEPT ![worker.query].requested = FALSE,
                                 ![worker.query].data = cache[worker.query].data
                                     \/ Queries!Fence(worker.query)]
      BY <1>9, <2>1 DEF Queries!RunQuery
    <2>4. cache' \in [Queries!Queries -> Queries!Entries]
      BY <2>1, <2>2, <2>3, EntryUpdates
    <2>5. \A r \in Queries!Queries : (cache'[r].data => cache[r].data \/ r.key = key)
            /\ cache'[r].known = cache[r].known
      BY <2>1, <2>3 DEF Queries!Entries, Queries!Fence
    <2>6. worker' = Queries!Settled(worker.query) /\ worker # Queries!NoJob
      BY <1>9 DEF Queries!RunQuery, Queries!NoJob
    <2> QED BY <1>3, <1>4, <1>9, <2>1, <2>4, <2>5, <2>6 DEF Queries!RunQuery
  <1>10. CASE Queries!Finish
    <2>1. Queries!NoJob.step = "idle"
      BY DEF Queries!NoJob
    <2> QED BY <1>1, <1>4, <1>10, <2>1 DEF Queries!Finish
  <1> QED BY <1>5, <1>6, <1>7, <1>8, <1>9, <1>10 DEF Queries!Worker

LEMMA SourceInv ==
    ASSUME Queries!QueryCacheAssumption, QueriesInv,
           Queries!Slot \/ Queries!Crash \/ Queries!RotateExternalId \/ Queries!TransferAccount
               \/ Queries!SetPaused \/ Queries!StopCustomer \/ Queries!ChangeMembership
    PROVE  QueriesInv'
  <1> USE DEF QueriesInv, Queries!TypeOK, Queries!source, Past, Made, Emptied, QueriesWorking
  <1>1. \A q \in Queries!Queries : q.key \in Nat
    BY DEF Queries!Queries, Queries!QueryCacheAssumption
  <1>2. key \in Nat /\ (page.query \in Queries!Queries => page.query.key \in Nat)
          /\ \A q \in wiped : q.key \in Nat
    BY <1>1 DEF Queries!QueryCacheAssumption
  <1>3. CASE Queries!Slot
    <2>1. cache' \in [Queries!Queries -> Queries!Entries]
            /\ \A q \in Queries!Queries : cache'[q].data = cache[q].data /\ cache'[q].known = cache[q].known
      BY <1>3 DEF Queries!Slot, Queries!Entries
    <2> QED BY <1>3, <2>1 DEF Queries!Slot, Queries!Kinds
  <1>4. CASE Queries!Crash
    <2>1. crashes' \in 0..MaxCrashes
      BY <1>4 DEF Queries!Crash, Queries!QueryCacheAssumption
    <2>2. queued' \subseteq Queries!Kinds
      BY <1>4 DEF Queries!Crash
    <2>3. Queries!NoJob \in Work /\ Queries!NoJob.step = "idle"
      BY DEF Queries!NoJob, Work, Queries!QueryCacheAssumption
    <2> QED BY <1>4, <2>1, <2>2, <2>3 DEF Queries!Crash, Work
  <1>5. CASE Queries!RotateExternalId
    <2>1. cache' \in [Queries!Queries -> Queries!Entries]
            /\ \A q \in Queries!Queries : cache'[q].data = cache[q].data /\ cache'[q].known = cache[q].known
      BY <1>5 DEF Queries!RotateExternalId, Queries!Withdrawn, Queries!Entries
    <2>2. key' \in 1..MaxKey /\ key' = key + 1
      BY <1>5 DEF Queries!RotateExternalId, Queries!QueryCacheAssumption
    <2> QED BY <1>5, <2>1, <2>2, <1>1, <1>2 DEF Queries!RotateExternalId
  <1>6. CASE Queries!TransferAccount
    <2>1. key' \in 1..MaxKey /\ key' = key + 1
      BY <1>6 DEF Queries!TransferAccount, Queries!QueryCacheAssumption
    <2> QED BY <1>6, <2>1, <1>1, <1>2 DEF Queries!TransferAccount
  <1>7. CASE Queries!SetPaused
    BY <1>7 DEF Queries!SetPaused
  <1>8. CASE Queries!StopCustomer
    <2>1. cache' \in [Queries!Queries -> Queries!Entries]
      BY <1>8 DEF Queries!StopCustomer, Queries!Entries
    <2>2. \A q \in Queries!Queries : ~cache'[q].data /\ cache'[q].known = cache[q].known
      BY <1>8 DEF Queries!StopCustomer, Queries!Entries
    <2>3. key' \in 1..MaxKey /\ key' = key + 1
      <3>1. key < MaxKey /\ key' = key + 1
        BY <1>8 DEF Queries!StopCustomer
      <3> QED BY <3>1, <1>2 DEF Queries!QueryCacheAssumption
    <2>4. wiped' = wiped \cup {q \in Queries!Queries : cache[q].known} /\ queued' = {} /\ enabled' = FALSE
      BY <1>8 DEF Queries!StopCustomer
    <2>5. UNCHANGED <<reach, page, worker, crashes>>
      BY <1>8 DEF Queries!StopCustomer
    <2>6. Queries!TypeOK' /\ QueriesWorking'
      BY <2>1, <2>3, <2>4, <2>5
    <2>8. Past' /\ Made'
      BY <2>2, <2>3, <2>5, <1>1, <1>2
    <2>7. Emptied'
      BY <2>2, <2>3, <2>4, <1>1, <1>2
    <2> QED BY <2>6, <2>7, <2>8
  <1>9. CASE Queries!ChangeMembership
    <2>1. reach' \in 1..MaxScope
      BY <1>9 DEF Queries!ChangeMembership, Queries!QueryCacheAssumption
    <2> QED BY <1>9, <2>1 DEF Queries!ChangeMembership
  <1> QED BY <1>3, <1>4, <1>5, <1>6, <1>7, <1>8, <1>9

LEMMA QueriesNext ==
    ASSUME Queries!QueryCacheAssumption
    PROVE  QueriesInv /\ [Queries!Next]_(Queries!vars) => QueriesInv'
  <1> SUFFICES ASSUME QueriesInv, [Queries!Next]_(Queries!vars) PROVE QueriesInv'
    OBVIOUS
  <1>1. CASE UNCHANGED Queries!vars
    BY <1>1 DEF Queries!vars, Queries!source, QueriesInv, Queries!TypeOK, Past, Made, Emptied,
         QueriesWorking
  <1> QED BY <1>1, QueriesPageInv, RefreshInv, JobInv, SourceInv DEF Queries!Next

LEMMA QueriesInvariance == ASSUME Queries!QueryCacheAssumption PROVE Queries!Spec => []QueriesInv
  BY QueriesInit, QueriesNext, PTL DEF Queries!Spec

THEOREM AnswersStayWiped ==
    ASSUME Queries!QueryCacheAssumption
    PROVE  Queries!Spec => [](Queries!TypeOK /\ Queries!WipedStaysEmpty)
  <1>1. QueriesInv => Queries!TypeOK /\ Queries!WipedStaysEmpty
    BY DEF QueriesInv, Emptied, Queries!WipedStaysEmpty
  <1> QED BY <1>1, QueriesInvariance, PTL

-----------------------------------------------------------------------------
(* Deletions of a customer that left.                                       *)

\* What a purge has locked is a record that is not deleted yet, and nobody else's.
LockedFit ==
    \A p \in Purges : purge[p] # Leaving!NoRecord =>
        purge[p] \in Leaving!Made /\ ~ records[purge[p]].deletion_completed
LockedOnce == \A p, q \in Purges : purge[p] = purge[q] /\ purge[p] # Leaving!NoRecord => p = q
Stopped == Leaving!TypeOK /\ LockedFit /\ LockedOnce

LEMMA StoppedInit == ASSUME MaxRecords \in Nat PROVE Leaving!Init => Stopped
  <1> SUFFICES ASSUME Leaving!Init PROVE Stopped
    OBVIOUS
  <1>1. <<>> \in Seq(Leaving!Record) /\ Len(<<>>) = 0
    OBVIOUS
  <1>2. Leaving!TypeOK
    <2>1. records \in Seq(Leaving!Record) /\ Len(records) <= MaxRecords
      BY <1>1 DEF Leaving!Init
    <2>2. purge \in [Purges -> 0..MaxRecords]
      BY DEF Leaving!Init, Leaving!NoRecord
    <2>3. {present, collecting, jobs, owned, members, dependents, held} \subseteq BOOLEAN
      BY DEF Leaving!Init
    <2> QED BY <2>1, <2>2, <2>3 DEF Leaving!TypeOK
  <1> QED
    BY <1>2 DEF Leaving!Init, Stopped, Leaving!TypeOK, LockedFit, LockedOnce

\* An update of one field of one record.
LEMMA RecordUpdate ==
    ASSUME records \in Seq(Leaving!Record), NEW r \in Leaving!Made, NEW new \in Leaving!Record,
           records' = [records EXCEPT ![r] = new]
    PROVE  records' \in Seq(Leaving!Record) /\ Len(records') = Len(records) /\ Leaving!Made' = Leaving!Made
  <1>1. records' \in Seq(Leaving!Record) /\ Len(records') = Len(records)
    BY ExceptSeq DEF Leaving!Made
  <1> QED BY <1>1 DEF Leaving!Made

LEMMA StoppedNext == ASSUME MaxRecords \in Nat PROVE Stopped /\ [Leaving!Next]_(Leaving!vars) => Stopped'
  <1> SUFFICES ASSUME Stopped, [Leaving!Next]_(Leaving!vars) PROVE Stopped'
    OBVIOUS
  <1>t. Leaving!TypeOK /\ LockedFit /\ LockedOnce
    BY DEF Stopped
  <1>r. \A r \in Leaving!Made : records[r] \in Leaving!Record
    BY <1>t DEF Leaving!TypeOK, Leaving!Made
  <1>1. CASE Leaving!Offboard
    <2> DEFINE new == [running |-> Leaving!Windows, evidence |-> {}, deletion_completed |-> FALSE]
    <2>1. new \in Leaving!Record /\ records' = Append(records, new)
      BY <1>1 DEF Leaving!Offboard, Leaving!StopCustomer, Leaving!Record
    <2> HIDE DEF new
    <2>2. records' \in Seq(Leaving!Record) /\ Len(records') = Len(records) + 1
      BY <1>t, <2>1 DEF Leaving!TypeOK
    <2>3. \A r \in Leaving!Made : r \in Leaving!Made' /\ records'[r] = records[r]
      BY <1>t, <2>1, <2>2 DEF Leaving!Made, Leaving!TypeOK
    <2>4. Len(records') <= MaxRecords
      BY <1>1, <1>t, <2>2 DEF Leaving!Offboard, Leaving!StopCustomer, Leaving!TypeOK
    <2> QED
      BY <1>1, <1>t, <2>2, <2>3, <2>4 DEF Leaving!Offboard, Leaving!StopCustomer, Leaving!TypeOK,
           LockedFit, LockedOnce, Stopped
  <1>2. CASE UNCHANGED <<records, purge>> /\ Leaving!TypeOK'
    BY <1>t, <1>2 DEF Stopped, LockedFit, LockedOnce, Leaving!Made
  <1>3. CASE Leaving!Reactivate \/ Leaving!Transfer \/ Leaving!Grant \/ Leaving!Depend \/ Leaving!Schedule
               \/ Leaving!Publish \/ (\E on \in BOOLEAN : Leaving!SetPaused(on)) \/ UNCHANGED Leaving!vars
    <2>1. UNCHANGED <<records, purge>>
      BY <1>3 DEF Leaving!Reactivate, Leaving!Transfer, Leaving!Grant, Leaving!Depend,
           Leaving!Schedule, Leaving!Publish, Leaving!SetPaused, Leaving!vars
    <2>2. Leaving!TypeOK'
      BY <1>t, <1>3 DEF Leaving!TypeOK, Leaving!Reactivate, Leaving!Transfer, Leaving!Grant,
           Leaving!Depend, Leaving!Schedule, Leaving!Publish, Leaving!SetPaused, Leaving!vars
    <2> QED BY <1>2, <2>1, <2>2
  <1>4. ASSUME NEW r \in Leaving!Made, \/ \E e \in Leaving!Evidence : Leaving!Control(r, e)
                                       \/ \E w \in Leaving!Windows : Leaving!Expires(r, w)
        PROVE  Stopped'
    <2>1. PICK new \in Leaving!Record : records' = [records EXCEPT ![r] = new]
                 /\ new.deletion_completed = records[r].deletion_completed
      <3>1. ASSUME NEW e \in Leaving!Evidence, Leaving!Control(r, e)
            PROVE  \E new \in Leaving!Record : records' = [records EXCEPT ![r] = new]
                     /\ new.deletion_completed = records[r].deletion_completed
        <4> DEFINE new == [records[r] EXCEPT !.evidence = @ \cup {e}]
        <4>1. new \in Leaving!Record /\ new.deletion_completed = records[r].deletion_completed
          BY <1>r DEF Leaving!Record
        <4>2. records' = [records EXCEPT ![r] = new]
          BY <3>1 DEF Leaving!Control
        <4> QED BY <4>1, <4>2
      <3>2. ASSUME NEW w \in Leaving!Windows, Leaving!Expires(r, w)
            PROVE  \E new \in Leaving!Record : records' = [records EXCEPT ![r] = new]
                     /\ new.deletion_completed = records[r].deletion_completed
        <4> DEFINE new == [records[r] EXCEPT !.running = @ \ {w}]
        <4>1. new \in Leaving!Record /\ new.deletion_completed = records[r].deletion_completed
          BY <1>r DEF Leaving!Record
        <4>2. records' = [records EXCEPT ![r] = new]
          BY <3>2 DEF Leaving!Expires
        <4> QED BY <4>1, <4>2
      <3> QED BY <1>4, <3>1, <3>2
    <2>2. records' \in Seq(Leaving!Record) /\ Len(records') = Len(records) /\ Leaving!Made' = Leaving!Made
      BY <1>t, <2>1, RecordUpdate DEF Leaving!TypeOK
    <2>3. \A k \in Leaving!Made : records'[k].deletion_completed = records[k].deletion_completed
      BY <1>t, <2>1 DEF Leaving!TypeOK, Leaving!Made
    <2>4. UNCHANGED <<present, collecting, jobs, owned, members, dependents, held, purge>>
      BY <1>4 DEF Leaving!Control, Leaving!Expires
    <2> QED BY <1>t, <2>2, <2>3, <2>4 DEF Leaving!TypeOK, LockedFit, LockedOnce, Stopped
  <1>5. ASSUME NEW p \in Purges, NEW r \in Leaving!Made, Leaving!PurgeBegin(p, r) PROVE Stopped'
    <2>1. r \in 1..MaxRecords
      BY <1>t DEF Leaving!TypeOK, Leaving!Made
    <2>2. Leaving!TypeOK' /\ Leaving!Made' = Leaving!Made
      BY <1>t, <1>5, <2>1 DEF Leaving!PurgeBegin, Leaving!TypeOK, Leaving!Made
    <2> QED BY <1>t, <1>5, <2>2 DEF Leaving!PurgeBegin, Leaving!Fit, Leaving!Locked, LockedFit,
         LockedOnce, Stopped, Leaving!TypeOK, Leaving!NoRecord
  <1>6. ASSUME NEW p \in Purges, Leaving!PurgeCommit(p) PROVE Stopped'
    <2> DEFINE new == [records[purge[p]] EXCEPT !.deletion_completed = TRUE]
    <2>1. purge[p] \in Leaving!Made /\ new \in Leaving!Record
      BY <1>t, <1>6, <1>r DEF Leaving!PurgeCommit, LockedFit, Leaving!Record
    <2>2. records' = [records EXCEPT ![purge[p]] = new]
      BY <1>6 DEF Leaving!PurgeCommit
    <2> HIDE DEF new
    <2>3. records' \in Seq(Leaving!Record) /\ Len(records') = Len(records) /\ Leaving!Made' = Leaving!Made
      BY <1>t, <2>1, <2>2, RecordUpdate DEF Leaving!TypeOK
    <2>4. \A k \in Leaving!Made : k # purge[p] => records'[k] = records[k]
      BY <1>t, <2>1, <2>2 DEF Leaving!TypeOK, Leaving!Made
    <2>5. \A q \in Purges : purge'[q] = IF q = p THEN Leaving!NoRecord ELSE purge[q]
      BY <1>6, <1>t DEF Leaving!PurgeCommit, Leaving!TypeOK
    <2>6. Leaving!TypeOK'
      <3>1. purge' \in [Purges -> 0..MaxRecords]
        BY <1>t, <1>6 DEF Leaving!PurgeCommit, Leaving!TypeOK, Leaving!NoRecord
      <3>2. {present', collecting', jobs', owned', members', dependents', held'} \subseteq BOOLEAN
        BY <1>t, <1>6 DEF Leaving!PurgeCommit, Leaving!TypeOK
      <3>3. Len(records') <= MaxRecords
        BY <1>t, <2>3 DEF Leaving!TypeOK
      <3> QED BY <2>3, <3>1, <3>2, <3>3 DEF Leaving!TypeOK
    <2>7. LockedFit' /\ LockedOnce'
      BY <1>t, <1>6, <2>3, <2>4, <2>5 DEF Leaving!PurgeCommit, LockedFit, LockedOnce
    <2> QED BY <2>6, <2>7 DEF Stopped
  <1>7. ASSUME NEW p \in Purges, Leaving!PurgeDies(p) PROVE Stopped'
    BY <1>t, <1>7 DEF Leaving!PurgeDies, Stopped, Leaving!TypeOK, LockedFit, LockedOnce,
         Leaving!NoRecord, Leaving!Made
  <1> QED BY <1>1, <1>3, <1>4, <1>5, <1>6, <1>7 DEF Leaving!Next

LEMMA StoppedInvariance == ASSUME MaxRecords \in Nat PROVE Leaving!Spec => []Stopped
  BY StoppedInit, StoppedNext, PTL DEF Leaving!Spec

LEMMA StoppedDeletes == ASSUME Stopped PROVE Leaving!DeletesOnce
  BY DEF Stopped, LockedFit, Leaving!DeletesOnce, Leaving!PurgeCommit

THEOREM RecordsDeleteOnce ==
    ASSUME MaxRecords \in Nat
    PROVE  Leaving!Spec => []Leaving!TypeOK /\ [][Leaving!DeletesOnce]_(Leaving!vars)
  <1>1. Stopped => Leaving!TypeOK /\ [Leaving!DeletesOnce]_(Leaving!vars)
    BY StoppedDeletes DEF Stopped
  <1> QED BY <1>1, StoppedInvariance, PTL

-----------------------------------------------------------------------------
(* Alert mails.                                                             *)

Delivering(m) == watch[m].at = "delivering"
Holding(m) == watch[m].todo \cup watch[m].sent
Acknowledging == {[at |-> "acknowledging", alert |-> e, row |-> r] : e \in Events, r \in Mails!Row}

AlertTypes == Mails!TypeOK /\ acknowledge \in [Operators -> {Mails!Idle} \cup Acknowledging]

\* A run that delivers has the rows of its alerts to itself, open and as it read them ...
HoldsRows ==
    /\ \A m \in Monitors : Delivering(m) =>
         /\ watch[m].todo \cap watch[m].sent = {}
         /\ \A e \in Holding(m) : event[e] = watch[m].rows[e] /\ event[e].seen /\ ~ event[e].acknowledged
    /\ \A m, n \in Monitors : Delivering(m) /\ Delivering(n) /\ m # n => Holding(m) \cap Holding(n) = {}

\* ... an alert that was never observed has no stamps ...
SeenFirst ==
    /\ \A e \in Events : ~ event[e].seen => event[e] = Mails!Unseen
    /\ \A o \in Operators : acknowledge[o] # Mails!Idle => acknowledge[o].row.seen

\* ... an open alert is escalated after it was delivered ...
EscalatedAfter == \A e \in Events : event[e].escalated => event[e].delivered \/ event[e].acknowledged

\* ... and a mail that left is of a run that failed, or recorded, or about to be.
Sent(e) == \E m \in Monitors : Delivering(m) /\ e \in watch[m].sent
Stamped(e, s) ==
    \/ event[e].acknowledged
    \/ s = "alert" /\ (event[e].delivered \/ Sent(e))
    \/ s = "escalation" /\ (event[e].escalated \/ (e \in overdue /\ Sent(e)))
Counted == \A e \in Events,
  s \in Mails!Stages : mailed[e][s] <= failures + 1 /\ (~ Stamped(e, s) => mailed[e][s] <= failures)
MailsInv == AlertTypes /\ HoldsRows /\ SeenFirst /\ EscalatedAfter /\ Counted

LEMMA MailsInit == ASSUME MaxFailures \in Nat, Mails!Init PROVE MailsInv
  <1>1. Mails!Idle.at = "idle" /\ Mails!Unseen \in Mails!Row
    BY DEF Mails!Idle, Mails!Unseen, Mails!Row
  <1>2. Mails!TypeOK /\ acknowledge \in [Operators -> {Mails!Idle} \cup Acknowledging]
    <2>1. event \in [Events -> Mails!Row] /\ overdue \subseteq Events /\ routed \subseteq Events
            /\ failures \in 0..MaxFailures
      BY <1>1 DEF Mails!Init
    <2>2. mailed \in [Events -> [Mails!Stages -> Nat]]
      BY DEF Mails!Init
    <2>3. watch \in [Monitors -> {Mails!Idle}] /\ acknowledge \in [Operators -> {Mails!Idle}]
      BY DEF Mails!Init
    <2> QED BY <2>1, <2>2, <2>3 DEF Mails!TypeOK
  <1>3. HoldsRows
    BY <1>1 DEF Mails!Init, HoldsRows, Delivering
  <1>4. SeenFirst /\ EscalatedAfter /\ Counted
    BY DEF Mails!Init, SeenFirst, EscalatedAfter, Counted, Mails!Unseen
  <1> QED BY <1>2, <1>3, <1>4 DEF MailsInv, AlertTypes

Delivery == [at : {"delivering"}, todo : SUBSET Events, sent : SUBSET Events, rows : [Events -> Mails!Row]]
RunKinds == {Mails!Idle, [at |-> "scanned"]} \cup Delivery

LEMMA RunIs ==
    ASSUME AlertTypes, NEW m \in Monitors
    PROVE  /\ watch[m] \in RunKinds /\ Mails!Idle.at = "idle"
           /\ Delivering(m) <=> watch[m] \in Delivery
  <1>1. watch[m] \in RunKinds
    BY DEF AlertTypes, Mails!TypeOK, RunKinds, Delivery
  <1>2. Mails!Idle.at = "idle" /\ [at |-> "scanned"].at = "scanned"
    BY DEF Mails!Idle
  <1> QED BY <1>1, <1>2 DEF RunKinds, Delivery, Delivering

\* Steps that leave the deliveries alone and disturb no row that one of them holds.
LEMMA RunsAlone ==
    ASSUME MailsInv, UNCHANGED <<mailed, failures>>, event' \in [Events -> Mails!Row],
           watch' \in [Monitors -> RunKinds],
           overdue' \subseteq Events, routed' \subseteq Events,
             acknowledge' \in [Operators -> {Mails!Idle} \cup Acknowledging],
           \A m \in Monitors : (Delivering(m)' <=> Delivering(m)) /\ (Delivering(m) => watch'[m] = watch[m]),
           overdue' = overdue \/ \A m \in Monitors : ~ Delivering(m),
           \A o \in Operators : acknowledge'[o] = Mails!Idle \/ acknowledge'[o].row.seen,
           \A e \in Events : event'[e] # event[e] =>
               \/ event'[e].acknowledged /\ event'[e].seen /\ e \notin Mails!Held
               \/ event[e] = Mails!Unseen /\ event'[e] = Mails!Observed
    PROVE  MailsInv'
  <1>0. /\ Mails!Unseen \in Mails!Row /\ Mails!Observed \in Mails!Row /\ Mails!Observed.seen
           /\ ~ Mails!Observed.escalated /\ ~ Mails!Unseen.seen
        /\ ~ Mails!Unseen.delivered /\ ~ Mails!Unseen.escalated /\ ~ Mails!Unseen.acknowledged
    BY DEF Mails!Unseen, Mails!Observed, Mails!Row
  <1>1. AlertTypes'
    <2>1. \A o \in Operators : acknowledge'[o] = Mails!Idle \/ acknowledge'[o].alert \in Events
      BY DEF Acknowledging
    <2> QED BY <2>1 DEF MailsInv, AlertTypes, Mails!TypeOK, RunKinds, Delivery
  <1>2. ASSUME NEW m \in Monitors, Delivering(m), NEW e \in Holding(m)
        PROVE  e \in Events /\ event'[e] = event[e]
    <2>1. e \in Events
      BY <1>2, RunIs DEF MailsInv, Delivery, Holding
    <2>2. e \in Mails!Held
      BY <1>2 DEF Mails!Held, Holding, Delivering
    <2>3. event[e].seen
      BY <1>2 DEF MailsInv, HoldsRows
    <2> QED BY <1>0, <2>1, <2>2, <2>3
  <1>3. HoldsRows'
    <2>1. \A m \in Monitors : Delivering(m) => Holding(m)' = Holding(m) /\ watch'[m].rows = watch[m].rows
      BY DEF Holding
    <2>2. \A m \in Monitors : Delivering(m) => watch'[m].todo = watch[m].todo
            /\ watch'[m].sent = watch[m].sent
      OBVIOUS
    <2> QED BY <1>2, <2>1, <2>2 DEF MailsInv, HoldsRows
  <1>4. SeenFirst' /\ EscalatedAfter'
    BY <1>0 DEF MailsInv, SeenFirst, EscalatedAfter
  <1>5. Counted'
    <2>1. ASSUME NEW e \in Events, NEW s \in Mails!Stages, Stamped(e, s) PROVE Stamped(e, s)'
      <3>1. Sent(e) => Sent(e)'
        BY DEF Sent
      <3>2. Sent(e) /\ e \in overdue => e \in overdue'
        BY DEF Sent
      <3>3. event'[e] = event[e] \/ event'[e].acknowledged \/ event[e] = Mails!Unseen
        OBVIOUS
      <3>4. event[e] = Mails!Unseen => ~ Sent(e)
        <4>1. ASSUME NEW m \in Monitors, Delivering(m), e \in watch[m].sent PROVE event[e].seen
          BY <4>1 DEF MailsInv, HoldsRows, Holding
        <4> QED BY <4>1, <1>0 DEF Sent
      <3> QED BY <1>0, <2>1, <3>1, <3>2, <3>3, <3>4 DEF Stamped
    <2> QED BY <2>1 DEF MailsInv, Counted
  <1> QED BY <1>1, <1>3, <1>4, <1>5 DEF MailsInv

LEMMA ScanInv == ASSUME MailsInv, NEW m \in Monitors, Mails!Scan(m) PROVE MailsInv'
  <1>1. watch' = [watch EXCEPT ![m] = [at |-> "scanned"]] /\ watch[m] = Mails!Idle
          /\ UNCHANGED <<overdue, routed, acknowledge, mailed, failures>>
    BY DEF Mails!Scan
  <1>2. Mails!Observed \in Mails!Row
    BY DEF Mails!Unseen, Mails!Observed, Mails!Row
  <1>3. event \in [Events -> Mails!Row] /\ overdue \subseteq Events /\ routed \subseteq Events
          /\ acknowledge \in [Operators -> {Mails!Idle} \cup Acknowledging]
    BY DEF MailsInv, AlertTypes, Mails!TypeOK
  <1>4. PICK found \in SUBSET Events : event' = [e \in Events |-> IF e \in found /\ ~ event[e].seen THEN Mails!Observed ELSE event[e]]
    BY DEF Mails!Scan
  <1>5. event' \in [Events -> Mails!Row]
          /\ \A e \in Events : event'[e] = event[e] \/ (event'[e] = Mails!Observed /\ ~ event[e].seen)
    <2>1. \A e \in Events : event'[e] = IF e \in found /\ ~ event[e].seen THEN Mails!Observed ELSE event[e]
      BY <1>4
    <2>2. \A e \in Events : event'[e] \in Mails!Row
            /\ (event'[e] = event[e] \/ (event'[e] = Mails!Observed /\ ~ event[e].seen))
      <3>1. ASSUME NEW e \in Events
            PROVE  event'[e] \in Mails!Row /\ (event'[e] = event[e] \/ (event'[e] = Mails!Observed /\ ~ event[e].seen))
        <4>1. CASE e \in found /\ ~ event[e].seen
          BY <1>2, <2>1, <4>1
        <4>2. CASE ~ (e \in found /\ ~ event[e].seen)
          <5>1. event'[e] = event[e]
            BY <2>1, <4>2
          <5> QED BY <1>3, <5>1
        <4> QED BY <4>1, <4>2
      <3> QED BY <3>1
    <2>3. event' = [e \in Events |-> event'[e]]
      BY <1>4
    <2> QED BY <2>2, <2>3
  <1>6. \A e \in Events : event'[e] = event[e] \/ (event'[e] = Mails!Observed /\ event[e] = Mails!Unseen)
    BY <1>5 DEF MailsInv, SeenFirst
  <1>7. \A o \in Operators : acknowledge'[o] = Mails!Idle \/ acknowledge'[o].row.seen
    BY <1>1 DEF MailsInv, SeenFirst
  <1>8. /\ watch' \in [Monitors -> RunKinds]
        /\ \A n \in Monitors : (Delivering(n)' <=> Delivering(n)) /\ (Delivering(n) => watch'[n] = watch[n])
    BY <1>1, RunIs DEF MailsInv, AlertTypes, Mails!TypeOK, Delivering, RunKinds, Delivery
  <1> QED BY <1>1, <1>3, <1>5, <1>6, <1>7, <1>8, RunsAlone

LEMMA RequestInv ==
    ASSUME MailsInv, UNCHANGED <<watch, mailed, failures, overdue, routed>>, NEW o \in Operators,
           Mails!Acknowledge(o) \/ \E e \in Events : Mails!AcknowledgeBegin(o, e)
    PROVE  MailsInv'
  <1>1. event \in [Events -> Mails!Row] /\ overdue \subseteq Events /\ routed \subseteq Events
          /\ acknowledge \in [Operators -> {Mails!Idle} \cup Acknowledging]
    BY DEF MailsInv, AlertTypes, Mails!TypeOK
  <1>2. watch' \in [Monitors -> RunKinds] /\ \A m \in Monitors : Delivering(m)' <=> Delivering(m)
    BY DEF MailsInv, AlertTypes, Mails!TypeOK, RunKinds, Delivery, Delivering
  <1>3. \A p \in Operators : acknowledge[p] = Mails!Idle \/ acknowledge[p].row.seen
    BY DEF MailsInv, SeenFirst
  <1>4. CASE Mails!Acknowledge(o)
    <2>1. acknowledge[o] # Mails!Idle /\ acknowledge[o].alert \notin Mails!Held
            /\ acknowledge' = [acknowledge EXCEPT ![o] = Mails!Idle]
          /\ event' = [event EXCEPT ![acknowledge[o].alert] = [acknowledge[o].row EXCEPT !.acknowledged = TRUE]]
      BY <1>4 DEF Mails!Acknowledge
    <2>2. acknowledge[o] \in Acknowledging /\ acknowledge[o].row.seen
      BY <1>1, <1>3, <2>1
    <2>3. acknowledge[o].row \in Mails!Row /\ acknowledge[o].alert \in Events
      BY <2>2 DEF Acknowledging
    <2> DEFINE new == [acknowledge[o].row EXCEPT !.acknowledged = TRUE]
    <2>4. new \in Mails!Row /\ new.acknowledged /\ new.seen
      BY <2>2, <2>3 DEF Mails!Row
    <2> HIDE DEF new
    <2>5. event' = [event EXCEPT ![acknowledge[o].alert] = new]
      BY <2>1 DEF new
    <2>6. acknowledge' \in [Operators -> {Mails!Idle} \cup Acknowledging]
            /\ \A p \in Operators : acknowledge'[p] = Mails!Idle \/ acknowledge'[p].row.seen
      BY <1>1, <1>3, <2>1
    <2>7. event' \in [Events -> Mails!Row]
            /\ \A e \in Events : event'[e] # event[e] => event'[e].acknowledged
               /\ event'[e].seen /\ e \notin Mails!Held
      BY <1>1, <2>1, <2>3, <2>4, <2>5
    <2> QED BY <1>1, <1>2, <2>6, <2>7, RunsAlone
  <1>5. ASSUME NEW e \in Events, Mails!AcknowledgeBegin(o, e) PROVE MailsInv'
    <2>1. event' = event /\ e \in Mails!OpenAlerts
          /\ acknowledge' = [acknowledge EXCEPT ![o] = [at |-> "acknowledging", alert |-> e, row |-> event[e]]]
      BY <1>5 DEF Mails!AcknowledgeBegin
    <2>2. event[e].seen /\ [at |-> "acknowledging", alert |-> e, row |-> event[e]] \in Acknowledging
      BY <1>1, <2>1 DEF Mails!OpenAlerts, Acknowledging
    <2>3. acknowledge' \in [Operators -> {Mails!Idle} \cup Acknowledging]
            /\ \A p \in Operators : acknowledge'[p] = Mails!Idle \/ acknowledge'[p].row.seen
      BY <1>1, <1>3, <2>1, <2>2
    <2> QED BY <1>1, <1>2, <2>1, <2>3, RunsAlone
  <1> QED BY <1>4, <1>5

LEMMA RouteInv ==
    ASSUME MailsInv, NEW e \in Events, Mails!Route(e) \/ Mails!TimePasses(e)
    PROVE  MailsInv'
  <1>1. event \in [Events -> Mails!Row] /\ overdue \subseteq Events /\ routed \subseteq Events
          /\ acknowledge \in [Operators -> {Mails!Idle} \cup Acknowledging]
    BY DEF MailsInv, AlertTypes, Mails!TypeOK
  <1>2. UNCHANGED <<event, watch, acknowledge, mailed, failures>> /\ overdue' \subseteq Events
          /\ routed' \subseteq Events
    BY <1>1 DEF Mails!Route, Mails!TimePasses
  <1>3. overdue' = overdue \/ \A m \in Monitors : ~ Delivering(m)
    BY DEF Mails!Route, Mails!TimePasses, Delivering
  <1>4. watch' \in [Monitors -> RunKinds] /\ \A m \in Monitors : Delivering(m)' <=> Delivering(m)
    BY <1>2 DEF MailsInv, AlertTypes, Mails!TypeOK, RunKinds, Delivery, Delivering
  <1>5. \A p \in Operators : acknowledge'[p] = Mails!Idle \/ acknowledge'[p].row.seen
    BY <1>2 DEF MailsInv, SeenFirst
  <1> QED BY <1>1, <1>2, <1>3, <1>4, <1>5, RunsAlone

\* A delivery that begins holds the open alerts as they are, which no other run holds.
LEMMA DeliverBeginInv == ASSUME MailsInv, NEW m \in Monitors, Mails!DeliverBegin(m) PROVE MailsInv'
  <1> DEFINE x == [at |-> "delivering", todo |-> Mails!OpenAlerts, sent |-> {}, rows |-> event]
  <1>1. watch' = [watch EXCEPT ![m] = x] /\ watch[m].at = "scanned" /\ Mails!Held \cap Mails!OpenAlerts = {}
        /\ UNCHANGED <<event, overdue, routed, acknowledge, mailed, failures>>
    BY DEF Mails!DeliverBegin
  <1>2. x \in Delivery /\ x.at = "delivering" /\ x.todo = Mails!OpenAlerts /\ x.sent = {} /\ x.rows = event
    BY DEF Delivery, Mails!OpenAlerts, MailsInv, AlertTypes, Mails!TypeOK
  <1> HIDE DEF x
  <1>3. \A n \in Monitors : watch'[n] = IF n = m THEN x ELSE watch[n]
    BY <1>1 DEF MailsInv, AlertTypes, Mails!TypeOK
  <1>4. AlertTypes'
    BY <1>1, <1>2 DEF MailsInv, AlertTypes, Mails!TypeOK, Delivery
  <1>5. \A n \in Monitors : n # m => (Delivering(n)' <=> Delivering(n)) /\ Holding(n)' = Holding(n)
    BY <1>3 DEF Delivering, Holding
  <1>6. Delivering(m)' /\ ~ Delivering(m) /\ Holding(m)' = Mails!OpenAlerts
    BY <1>1, <1>2, <1>3 DEF Delivering, Holding
  <1>7. \A n \in Monitors : Delivering(n) => Holding(n) \subseteq Mails!Held
    BY DEF Delivering, Holding, Mails!Held
  <1>8. \A e \in Mails!OpenAlerts : e \in Events /\ event[e].seen /\ ~ event[e].acknowledged
    BY DEF Mails!OpenAlerts
  <1>9. HoldsRows'
    <2>1. ASSUME NEW n \in Monitors, Delivering(n)'
          PROVE  /\ watch'[n].todo \cap watch'[n].sent = {}
                 /\ \A e \in Holding(n)' : event[e] = watch'[n].rows[e]
                    /\ event[e].seen /\ ~ event[e].acknowledged
      <3>1. CASE n = m
        BY <3>1, <1>2, <1>3, <1>6, <1>8
      <3>2. CASE n # m
        BY <2>1, <3>2, <1>3, <1>5 DEF MailsInv, HoldsRows
      <3> QED BY <3>1, <3>2
    <2>2. ASSUME NEW n \in Monitors, NEW k \in Monitors, Delivering(n)', Delivering(k)', n # k
          PROVE  Holding(n)' \cap Holding(k)' = {}
      BY <2>2, <1>1, <1>5, <1>6, <1>7 DEF MailsInv, HoldsRows
    <2> QED BY <1>1, <2>1, <2>2 DEF HoldsRows
  <1>10. SeenFirst' /\ EscalatedAfter'
    BY <1>1 DEF MailsInv, SeenFirst, EscalatedAfter
  <1>11. Counted'
    <2>1. \A e \in Events : Sent(e) => Sent(e)'
      BY <1>3, <1>5, <1>6 DEF Sent
    <2> QED BY <1>1, <2>1 DEF MailsInv, Counted, Stamped
  <1> QED BY <1>4, <1>9, <1>10, <1>11 DEF MailsInv

\* A delivery that goes on only moves an alert from those it has to do to those it sent.
LEMMA GoesOn ==
    ASSUME MailsInv, NEW m \in Monitors, Delivering(m), NEW e \in watch[m].todo, NEW d, d \subseteq {e},
           NEW x \in Delivery, x.todo = watch[m].todo \ {e}, x.sent = watch[m].sent \cup d,
             x.rows = watch[m].rows,
           watch' = [watch EXCEPT ![m] = x], UNCHANGED <<event, overdue, routed, acknowledge, failures>>,
           mailed' \in [Events -> [Mails!Stages -> Nat]]
    PROVE  /\ AlertTypes' /\ HoldsRows' /\ SeenFirst' /\ EscalatedAfter'
           /\ e \in Events /\ event[e] = watch[m].rows[e] /\ ~ event[e].acknowledged /\ ~ Sent(e)
           /\ \A f \in Events : Sent(f)' <=> Sent(f) \/ f \in d
  <1>1. watch[m] \in Delivery
    BY RunIs DEF MailsInv
  <1>2. e \in Events
    BY <1>1 DEF Delivery
  <1>3. x.at = "delivering"
    BY DEF Delivery
  <1>4. \A n \in Monitors : watch'[n] = IF n = m THEN x ELSE watch[n]
    BY DEF MailsInv, AlertTypes, Mails!TypeOK
  <1>5. \A n \in Monitors : (Delivering(n)' <=> Delivering(n)) /\ Holding(n)' \subseteq Holding(n)
    BY <1>3, <1>4 DEF Delivering, Holding
  <1>6. AlertTypes'
    BY <1>3 DEF MailsInv, AlertTypes, Mails!TypeOK, Delivery
  <1>7. HoldsRows'
    <2>1. ASSUME NEW n \in Monitors, Delivering(n)
          PROVE  /\ watch'[n].todo \cap watch'[n].sent = {}
                 /\ \A f \in Holding(n)' : event[f] = watch'[n].rows[f]
                    /\ event[f].seen /\ ~ event[f].acknowledged
      <3>1. /\ watch[n].todo \cap watch[n].sent = {}
            /\ \A f \in Holding(n) : event[f] = watch[n].rows[f] /\ event[f].seen /\ ~ event[f].acknowledged
        BY <2>1 DEF MailsInv, HoldsRows
      <3> QED BY <3>1, <1>3, <1>4, <1>5
    <2> QED BY <2>1, <1>5 DEF MailsInv, HoldsRows
  <1>8. SeenFirst' /\ EscalatedAfter'
    BY DEF MailsInv, SeenFirst, EscalatedAfter
  <1>9. event[e] = watch[m].rows[e] /\ ~ event[e].acknowledged
    BY DEF MailsInv, HoldsRows, Holding
  <1>10. ~ Sent(e)
    <2>1. \A n \in Monitors : Delivering(n) /\ n # m => Holding(m) \cap Holding(n) = {}
      BY DEF MailsInv, HoldsRows
    <2>2. watch[m].todo \cap watch[m].sent = {}
      BY DEF MailsInv, HoldsRows
    <2> QED BY <2>1, <2>2 DEF Sent, Holding
  <1>11. \A f \in Events : Sent(f)' <=> Sent(f) \/ f \in d
    BY <1>3, <1>4, <1>5 DEF Sent
  <1> QED BY <1>2, <1>6, <1>7, <1>8, <1>9, <1>10, <1>11

LEMMA SkipInv == ASSUME MailsInv, NEW m \in Monitors, NEW e \in Events, Mails!Skip(m, e) PROVE MailsInv'
  <1> DEFINE x == [watch[m] EXCEPT !.todo = watch[m].todo \ {e}]
  <1>1. Delivering(m) /\ e \in watch[m].todo
          /\ UNCHANGED <<event, overdue, routed, acknowledge, mailed, failures>>
    BY DEF Mails!Skip, Delivering
  <1>2. watch[m] \in Delivery
    BY <1>1, RunIs DEF MailsInv
  <1>3. watch' = [watch EXCEPT ![m] = x]
    BY DEF Mails!Skip, Mails!Skipped
  <1>4. x \in Delivery /\ x.todo = watch[m].todo \ {e} /\ x.sent = watch[m].sent \cup {}
          /\ x.rows = watch[m].rows
    BY <1>2 DEF Delivery
  <1>5. /\ AlertTypes' /\ HoldsRows' /\ SeenFirst' /\ EscalatedAfter'
        /\ \A f \in Events : Sent(f)' <=> Sent(f)
    <2> HIDE DEF x
    <2>1. mailed' \in [Events -> [Mails!Stages -> Nat]] /\ {} \subseteq {e}
      BY <1>1 DEF MailsInv, AlertTypes, Mails!TypeOK
    <2>2. PICK d : d = {}
      OBVIOUS
    <2>3. d \subseteq {e} /\ x.sent = watch[m].sent \cup d
      BY <1>4, <2>2
    <2>4. /\ AlertTypes' /\ HoldsRows' /\ SeenFirst' /\ EscalatedAfter'
          /\ \A f \in Events : Sent(f)' <=> Sent(f) \/ f \in d
      BY <1>1, <1>3, <1>4, <2>1, <2>3, GoesOn
    <2> QED BY <2>2, <2>4
  <1>6. Counted'
    BY <1>1, <1>5 DEF MailsInv, Counted, Stamped
  <1> QED BY <1>5, <1>6 DEF MailsInv

LEMMA MailInv == ASSUME MailsInv, NEW m \in Monitors, NEW e \in Events, Mails!Mail(m, e) PROVE MailsInv'
  <1> DEFINE x == [watch[m] EXCEPT !.todo = watch[m].todo \ {e}, !.sent = watch[m].sent \cup {e}]
  <1>1. Delivering(m) /\ e \in watch[m].todo /\ UNCHANGED <<event, overdue, routed, acknowledge, failures>>
    BY DEF Mails!Mail, Delivering
  <1>2. watch' = [watch EXCEPT ![m] = x]
    BY DEF Mails!Mail
  <1>3. mailed \in [Events -> [Mails!Stages -> Nat]] /\ Mails!Stage(e) \in Mails!Stages
    BY DEF MailsInv, AlertTypes, Mails!TypeOK, Mails!Stage, Mails!Stages
  <1>4. mailed' = [mailed EXCEPT ![e][Mails!Stage(e)] = mailed[e][Mails!Stage(e)] + 1]
    BY DEF Mails!Mail
  <1>5. mailed' \in [Events -> [Mails!Stages -> Nat]]
    BY <1>3, <1>4
  <1>6. \A f \in Events, s \in Mails!Stages :
          mailed'[f][s] = IF f = e /\ s = Mails!Stage(e) THEN mailed[f][s] + 1 ELSE mailed[f][s]
    BY <1>3, <1>4
  <1>7. /\ AlertTypes' /\ HoldsRows' /\ SeenFirst' /\ EscalatedAfter'
        /\ event[e] = watch[m].rows[e] /\ ~ event[e].acknowledged /\ ~ Sent(e)
        /\ \A f \in Events : Sent(f)' <=> Sent(f) \/ f \in {e}
    <2>1. watch[m] \in Delivery
      BY <1>1, RunIs DEF MailsInv
    <2>2. x \in Delivery /\ x.todo = watch[m].todo \ {e} /\ x.sent = watch[m].sent \cup {e}
            /\ x.rows = watch[m].rows
      BY <2>1 DEF Delivery
    <2> HIDE DEF x
    <2> QED BY <1>1, <1>2, <1>5, <2>2, GoesOn
  <1>8. ~ Stamped(e, Mails!Stage(e)) /\ Stamped(e, Mails!Stage(e))'
    <2>1. ~ event[e].delivered \/ (e \in overdue /\ ~ event[e].escalated)
      BY <1>7 DEF Mails!Mail, Mails!Due
    <2>2. event[e].escalated => event[e].delivered
      BY <1>7 DEF MailsInv, EscalatedAfter
    <2> QED BY <1>1, <1>7, <2>1, <2>2 DEF Stamped, Mails!Stage
  <1>9. \A f \in Events, s \in Mails!Stages : Stamped(f, s) => Stamped(f, s)'
    BY <1>1, <1>7 DEF Stamped
  <1>10. Counted'
    <2>1. failures \in Nat
      BY DEF MailsInv, AlertTypes, Mails!TypeOK
    <2>2. ASSUME NEW f \in Events, NEW s \in Mails!Stages
          PROVE  mailed'[f][s] <= failures + 1 /\ (~ Stamped(f, s)' => mailed'[f][s] <= failures)
      <3>1. mailed[f][s] \in Nat /\ mailed[f][s] <= failures + 1
              /\ (~ Stamped(f, s) => mailed[f][s] <= failures)
        BY <1>3 DEF MailsInv, Counted
      <3>2. CASE f = e /\ s = Mails!Stage(e)
        <4>1. mailed'[f][s] = mailed[f][s] + 1
          BY <1>6, <3>2
        <4>2. mailed[f][s] <= failures
          BY <1>8, <3>1, <3>2
        <4>3. Stamped(f, s)'
          BY <1>1, <1>8, <3>2 DEF Mails!Stage
        <4> QED BY <2>1, <3>1, <4>1, <4>2, <4>3
      <3>3. CASE ~ (f = e /\ s = Mails!Stage(e))
        BY <1>6, <1>9, <3>1, <3>3
      <3> QED BY <3>2, <3>3
    <2> QED BY <1>1, <2>2 DEF Counted
  <1> QED BY <1>7, <1>10 DEF MailsInv

LEMMA CommitInv == ASSUME MailsInv, NEW m \in Monitors, Mails!Commit(m) PROVE MailsInv'
  <1>1. Delivering(m) /\ watch' = [watch EXCEPT ![m] = Mails!Idle]
          /\ UNCHANGED <<overdue, routed, acknowledge, mailed, failures>>
    BY DEF Mails!Commit, Delivering
  <1>2. watch[m] \in Delivery /\ Mails!Idle.at = "idle"
    BY <1>1, RunIs DEF MailsInv
  <1>3. event' = [e \in Events |-> IF e \in watch[m].sent
                    THEN [event[e] EXCEPT !.delivered = TRUE, !.escalated = event[e].escalated \/ e \in overdue]
                    ELSE event[e]]
    BY DEF Mails!Commit
  <1>4. event \in [Events -> Mails!Row]
    BY DEF MailsInv, AlertTypes, Mails!TypeOK
  <1>5. \A e \in Events : /\ event'[e] \in Mails!Row
                          /\ e \notin watch[m].sent => event'[e] = event[e]
                          /\ event'[e].seen = event[e].seen /\ event'[e].acknowledged = event[e].acknowledged
                          /\ e \in watch[m].sent => event'[e].delivered
                             /\ event'[e].escalated = (event[e].escalated \/ e \in overdue)
    BY <1>3, <1>4 DEF Mails!Row
  <1>6. event' \in [Events -> Mails!Row]
    <2>1. event' = [e \in Events |-> event'[e]]
      BY <1>3
    <2> QED BY <1>5, <2>1
  <1>7. \A n \in Monitors : watch'[n] = IF n = m THEN Mails!Idle ELSE watch[n]
    BY <1>1 DEF MailsInv, AlertTypes, Mails!TypeOK
  <1>8. AlertTypes'
    BY <1>1, <1>6 DEF MailsInv, AlertTypes, Mails!TypeOK
  <1>9. \A n \in Monitors : n # m => (Delivering(n)' <=> Delivering(n))
          /\ Holding(n)' = Holding(n) /\ watch'[n] = watch[n]
    BY <1>7 DEF Delivering, Holding
  <1>10. ~ Delivering(m)'
    BY <1>2, <1>7 DEF Delivering
  <1>11. HoldsRows'
    <2>1. ASSUME NEW n \in Monitors, Delivering(n), n # m, NEW e \in Holding(n)
          PROVE  e \in Events /\ event'[e] = event[e]
      <3>1. e \in Events
        BY <2>1, RunIs DEF MailsInv, Delivery, Holding
      <3>2. e \notin watch[m].sent
        BY <1>1, <2>1 DEF MailsInv, HoldsRows, Holding
      <3> QED BY <1>5, <3>1, <3>2
    <2>2. ASSUME NEW n \in Monitors, Delivering(n)'
          PROVE  /\ watch'[n].todo \cap watch'[n].sent = {}
                 /\ \A e \in Holding(n)' : event'[e] = watch'[n].rows[e]
                    /\ event'[e].seen /\ ~ event'[e].acknowledged
      <3>1. n # m /\ Delivering(n) /\ Holding(n)' = Holding(n) /\ watch'[n] = watch[n]
        BY <2>2, <1>9, <1>10
      <3>2. /\ watch[n].todo \cap watch[n].sent = {}
            /\ \A f \in Holding(n) : event[f] = watch[n].rows[f] /\ event[f].seen /\ ~ event[f].acknowledged
        BY <3>1 DEF MailsInv, HoldsRows
      <3> QED BY <2>1, <3>1, <3>2
    <2>3. ASSUME NEW n \in Monitors, NEW k \in Monitors, Delivering(n)', Delivering(k)', n # k
          PROVE  Holding(n)' \cap Holding(k)' = {}
      BY <2>3, <1>9, <1>10 DEF MailsInv, HoldsRows
    <2> QED BY <2>2, <2>3 DEF HoldsRows
  <1>12. \A e \in watch[m].sent : e \in Events /\ event[e].seen
    BY <1>1, <1>2 DEF MailsInv, HoldsRows, Holding, Delivery
  <1>13. SeenFirst' /\ EscalatedAfter'
    BY <1>1, <1>5, <1>12 DEF MailsInv, SeenFirst, EscalatedAfter
  <1>14. Counted'
    <2>1. ASSUME NEW e \in Events, NEW s \in Mails!Stages, Stamped(e, s) PROVE Stamped(e, s)'
      <3>1. Sent(e) => Sent(e)' \/ e \in watch[m].sent
        BY <1>9 DEF Sent
      <3>2. event'[e].acknowledged = event[e].acknowledged
        BY <1>5
      <3>3. (event[e].delivered => event'[e].delivered) /\ (event[e].escalated => event'[e].escalated)
        BY <1>5
      <3>4. e \in watch[m].sent => event'[e].delivered /\ (e \in overdue => event'[e].escalated)
        BY <1>5
      <3>5. CASE event[e].acknowledged
        BY <3>2, <3>5 DEF Stamped
      <3>6. CASE s = "alert" /\ (event[e].delivered \/ Sent(e))
        BY <3>1, <3>3, <3>4, <3>6 DEF Stamped
      <3>7. CASE s = "escalation" /\ (event[e].escalated \/ (e \in overdue /\ Sent(e)))
        <4>1. event'[e].escalated \/ (e \in overdue' /\ Sent(e)')
          BY <1>1, <3>1, <3>3, <3>4, <3>7
        <4> QED BY <3>7, <4>1 DEF Stamped
      <3> QED BY <2>1, <3>5, <3>6, <3>7 DEF Stamped
    <2> QED BY <1>1, <2>1 DEF MailsInv, Counted
  <1> QED BY <1>8, <1>11, <1>13, <1>14 DEF MailsInv

LEMMA RollbackInv ==
    ASSUME MaxFailures \in Nat, MailsInv, NEW m \in Monitors, Mails!Rollback(m)
    PROVE  MailsInv'
  <1>1. Delivering(m) /\ watch' = [watch EXCEPT ![m] = Mails!Idle]
          /\ UNCHANGED <<event, overdue, routed, acknowledge, mailed>>
        /\ failures < MaxFailures /\ failures' = failures + 1
    BY DEF Mails!Rollback, Delivering
  <1>2. Mails!Idle.at = "idle" /\ failures \in 0..MaxFailures
    BY RunIs DEF MailsInv, AlertTypes, Mails!TypeOK
  <1>3. \A n \in Monitors : watch'[n] = IF n = m THEN Mails!Idle ELSE watch[n]
    BY <1>1 DEF MailsInv, AlertTypes, Mails!TypeOK
  <1>4. AlertTypes'
    <2>1. failures' \in 0..MaxFailures
      BY <1>1, <1>2
    <2> QED BY <1>1, <2>1 DEF MailsInv, AlertTypes, Mails!TypeOK
  <1>5. \A n \in Monitors : Delivering(n)' => Delivering(n)
          /\ watch'[n] = watch[n] /\ Holding(n)' = Holding(n)
    BY <1>2, <1>3 DEF Delivering, Holding
  <1>6. HoldsRows'
    BY <1>1, <1>5 DEF MailsInv, HoldsRows
  <1>7. SeenFirst' /\ EscalatedAfter'
    BY <1>1 DEF MailsInv, SeenFirst, EscalatedAfter
  <1>8. Counted'
    <2>1. \A e \in Events, s \in Mails!Stages : mailed[e][s] \in Nat /\ mailed[e][s] <= failures + 1
      BY DEF MailsInv, AlertTypes, Mails!TypeOK, Counted
    <2> QED BY <1>1, <1>2, <2>1 DEF Counted
  <1> QED BY <1>4, <1>6, <1>7, <1>8 DEF MailsInv

LEMMA MailsNext == ASSUME MaxFailures \in Nat PROVE MailsInv /\ [Mails!Next]_(Mails!vars) => MailsInv'
  <1> SUFFICES ASSUME MailsInv, [Mails!Next]_(Mails!vars) PROVE MailsInv'
    OBVIOUS
  <1>1. ASSUME NEW o \in Operators, Mails!Acknowledge(o) \/ \E e \in Events : Mails!AcknowledgeBegin(o, e)
        PROVE  MailsInv'
    BY <1>1, RequestInv DEF Mails!Acknowledge, Mails!AcknowledgeBegin
  <1>2. CASE UNCHANGED Mails!vars
    BY <1>2 DEF Mails!vars, MailsInv, AlertTypes, Mails!TypeOK, HoldsRows, SeenFirst,
         EscalatedAfter, Counted,
         Stamped, Sent, Delivering, Holding
  <1> QED
    BY <1>1, <1>2, ScanInv, DeliverBeginInv, SkipInv, MailInv, CommitInv, RollbackInv, RouteInv DEF
         Mails!Next

LEMMA MailsInvariance == ASSUME MaxFailures \in Nat PROVE Mails!Spec => []MailsInv
  BY MailsInit, MailsNext, PTL DEF Mails!Spec

LEMMA MailsMean == ASSUME MailsInv PROVE Mails!TypeOK /\ Mails!MailsAreAccountedFor
  <1>1. failures \in Nat
    BY DEF MailsInv, AlertTypes, Mails!TypeOK
  <1> QED BY <1>1 DEF MailsInv, AlertTypes, Counted, Mails!MailsAreAccountedFor

LEMMA QuietStep ==
    ASSUME MailsInv, [Mails!Next]_(Mails!vars)
    PROVE  [Mails!AcknowledgedStaysQuiet]_(Mails!vars)
  <1>1. ASSUME NEW m \in Monitors, NEW e \in Events, Mails!Mail(m, e) PROVE Mails!AcknowledgedStaysQuiet
    <2>1. ~ event[e].acknowledged
      BY <1>1 DEF Mails!Mail, MailsInv, HoldsRows, Holding, Delivering
    <2>2. \A f \in Events : f # e => mailed'[f] = mailed[f]
      BY <1>1 DEF Mails!Mail, MailsInv, AlertTypes, Mails!TypeOK
    <2> QED BY <2>1, <2>2 DEF Mails!AcknowledgedStaysQuiet
  <1>2. CASE mailed' = mailed
    BY <1>2 DEF Mails!AcknowledgedStaysQuiet
  <1>3. CASE UNCHANGED Mails!vars
    BY <1>3 DEF Mails!vars
  <1> QED
    BY <1>1, <1>2, <1>3 DEF Mails!Next, Mails!Scan, Mails!DeliverBegin, Mails!Skip, Mails!Commit,
         Mails!Rollback, Mails!Acknowledge, Mails!AcknowledgeBegin, Mails!Route, Mails!TimePasses

THEOREM MailsAccounted ==
    ASSUME MaxFailures \in Nat
    PROVE  Mails!Spec => [](Mails!TypeOK /\ Mails!MailsAreAccountedFor)
             /\ [][Mails!AcknowledgedStaysQuiet]_(Mails!vars)
  <1>1. MailsInv => Mails!TypeOK /\ Mails!MailsAreAccountedFor
    BY MailsMean
  <1>2. MailsInv /\ [Mails!Next]_(Mails!vars) => [Mails!AcknowledgedStaysQuiet]_(Mails!vars)
    BY QuietStep
  <1> QED BY <1>1, <1>2, MailsInvariance, PTL DEF Mails!Spec

-----------------------------------------------------------------------------
(* Budgets.                                                                 *)

Less == {p \in Nat \X Nat : p[1] < p[2]}

LEMMA LessIsWellFounded == IsWellFoundedOn(Less, Nat)
  BY NatLessThanWellFounded, Zenon DEF OpToRel, Less

LEMMA Least == ASSUME NEW T, T \subseteq Nat, T # {} PROVE \E x \in T : \A y \in T : x <= y
  <1>1. PICK x \in T : \A y \in T : ~ (<<y, x>> \in Less)
    BY LessIsWellFounded, WFMin, Zenon
  <1>2. ASSUME NEW y \in T, ~ (x <= y) PROVE FALSE
    <2>1. y \in Nat /\ x \in Nat /\ y < x
      BY <1>2
    <2>2. <<y, x>> \in Less
      BY <2>1 DEF Less
    <2> QED BY <1>1, <2>2
  <1> QED BY <1>2

\* A nonempty set of numbers with an upper bound has a largest one.
LEMMA Largest ==
    ASSUME NEW n \in Nat, NEW T, \A x \in T : x \in Nat /\ x <= n, T # {}
    PROVE  \E x \in T : \A y \in T : y <= x
  <1> DEFINE D == {n - x : x \in T}
  <1>1. D \subseteq Nat
    OBVIOUS
  <1>2. D # {}
    OBVIOUS
  <1> HIDE DEF D
  <1>3. PICK d \in D : \A c \in D : d <= c
    BY <1>1, <1>2, Least
  <1>4. PICK x \in T : d = n - x
    BY DEF D
  <1>5. \A y \in T : d <= n - y
    BY <1>3 DEF D
  <1> QED BY <1>4, <1>5

-----------------------------------------------------------------------------
Setting(e) == edit[e].state = "setting"

\* Rows have their numbers to themselves, and what a request read of a row is what it is,
\* but for its end.
Numbered ==
    /\ \A r, s \in limits : r.id = s.id => r = s
    /\ \A r \in limits : r.id <= recorded
    /\ \A e \in Editors : Setting(e) =>
         /\ edit[e].seen <= recorded
         /\ \A r, s \in edit[e].read : r.id = s.id => r = s
         /\ \A r \in edit[e].read : r.to = Budgets!Open /\ r.id <= edit[e].seen
         /\ \A r \in edit[e].read, x \in limits : x.id = r.id => x.from = r.from /\ x.amount = r.amount

\* While no other request wrote, a request knows the open rows; when one did, a row it
\* knows and which that one closed is followed by the new one.
Known ==
    \A e \in Editors : Setting(e) =>
      /\ edit[e].seen = recorded => edit[e].read = {r \in limits : r.to = Budgets!Open}
      /\ recorded = edit[e].seen + 1 =>
           \A r \in edit[e].read, x \in limits : x.id = r.id =>
             \/ x.to = Budgets!Open
             \/ \E n \in limits : n.id = recorded /\ n.to = Budgets!Open /\ n.from = x.to

AmountsInv == Budgets!TypeOK /\ Numbered /\ Known

LEMMA AmountsInit == ASSUME Budgets!BudgetAmountsAssumption, Budgets!Init PROVE AmountsInv
  <1>1. Budgets!TypeOK
    BY DEF Budgets!Init, Budgets!TypeOK, Budgets!Edit, Budgets!BudgetAmountsAssumption
  <1>2. \A e \in Editors : ~ Setting(e)
    BY DEF Budgets!Init, Budgets!Idle, Setting
  <1> QED BY <1>1, <1>2 DEF Budgets!Init, AmountsInv, Numbered, Known

LEMMA RowIs ==
    ASSUME Budgets!BudgetAmountsAssumption, NEW r \in Budgets!Row
    PROVE  r.id \in Nat /\ r.id \in 1..MaxLimits /\ r.amount \in Figures /\ r.from \in Budgets!Months
             /\ r.from \in Nat
           /\ r.to \in Nat /\ r.from < r.to /\ r.to <= Budgets!Open
  BY DEF Budgets!Row, Budgets!Months, Budgets!Open, Budgets!BudgetAmountsAssumption

\* The request of an editor that is setting an amount.
LEMMA EditIs ==
    ASSUME Budgets!TypeOK, NEW e \in Editors, Setting(e)
    PROVE  edit[e].amount \in Figures /\ edit[e].from \in Budgets!Months
             /\ edit[e].read \subseteq Budgets!Row /\ edit[e].seen \in 0..MaxLimits
  BY DEF Budgets!TypeOK, Budgets!Edit, Setting, Budgets!Idle

\* A row that a request closes keeps its number, start and amount.
LEMMA ClosedIs ==
    ASSUME Budgets!BudgetAmountsAssumption, Budgets!TypeOK, NEW e \in Editors, Setting(e),
           NEW c \in Budgets!Closed(e)
    PROVE  \E r \in edit[e].read : /\ r.from < edit[e].from /\ c \in Budgets!Row
                                   /\ c.id = r.id /\ c.from = r.from /\ c.amount = r.amount
                                      /\ c.to = edit[e].from
  <1>1. PICK r \in edit[e].read \ Budgets!Replaced(e) : c = [r EXCEPT !.to = edit[e].from]
    BY DEF Budgets!Closed, Budgets!Closing
  <1>2. r \in Budgets!Row /\ edit[e].from \in Budgets!Months
    BY EditIs
  <1>3. r.from < edit[e].from
    BY <1>1, <1>2, RowIs DEF Budgets!Replaced, Budgets!Months, Budgets!BudgetAmountsAssumption
  <1>4. c.id = r.id /\ c.from = r.from /\ c.amount = r.amount /\ c.to = edit[e].from
    BY <1>1, <1>2 DEF Budgets!Row
  <1>5. c \in Budgets!Row
    BY <1>1, <1>2, <1>3 DEF Budgets!Row
  <1> QED BY <1>3, <1>4, <1>5

\* What a write leaves: rows it did not read, those it closed, and the new one.
NewRow(e) == [id |-> recorded + 1, amount |-> edit[e].amount, from |-> edit[e].from, to |-> Budgets!Open]

LEMMA BudgetsNewRowIs ==
    ASSUME Budgets!BudgetAmountsAssumption, Budgets!TypeOK, NEW e \in Editors, Setting(e),
           recorded < MaxLimits
    PROVE  NewRow(e) \in Budgets!Row /\ NewRow(e).id = recorded + 1 /\ NewRow(e).from = edit[e].from
             /\ NewRow(e).to = Budgets!Open
           /\ NewRow(e).amount = edit[e].amount
  <1>1. edit[e].from \in Budgets!Months /\ edit[e].amount \in Figures
    BY EditIs
  <1>2. edit[e].from < Budgets!Open
    BY <1>1 DEF Budgets!Months, Budgets!Open, Budgets!BudgetAmountsAssumption
  <1>3. recorded + 1 \in 1..MaxLimits
    BY DEF Budgets!TypeOK, Budgets!BudgetAmountsAssumption
  <1> QED BY <1>1, <1>2, <1>3 DEF NewRow, Budgets!Row

LEMMA WriteIs ==
    ASSUME Budgets!BudgetAmountsAssumption, AmountsInv, NEW e \in Editors, Budgets!Write(e)
    PROVE  /\ Setting(e) /\ recorded < MaxLimits /\ recorded' = recorded + 1
           /\ limits' \subseteq Budgets!Row /\ NewRow(e) \in limits' /\ Budgets!Closed(e) \subseteq limits'
           /\ \A x \in limits : (\A r \in edit[e].read : r.id # x.id) => x \in limits'
           /\ \A x \in limits' : \/ x = NewRow(e)
                                 \/ x \in limits /\ \A r \in edit[e].read : r.id # x.id
                                 \/ x \in Budgets!Closed(e)
           /\ \A x \in limits' : x = NewRow(e)
              \/ \E y \in limits : y.id = x.id /\ y.from = x.from /\ y.amount = x.amount
  <1>1. Setting(e) /\ recorded < MaxLimits /\ recorded' = recorded + 1
        /\ limits' = (limits \ Budgets!Same(edit[e].read)) \cup Budgets!Closed(e) \cup {NewRow(e)}
        /\ \A r \in Budgets!Closed(e) : Budgets!Stored(r)
    BY DEF Budgets!Write, Setting, NewRow
  <1>2. Budgets!TypeOK
    BY DEF AmountsInv
  <1>3. limits' \subseteq Budgets!Row
    BY <1>1, <1>2, ClosedIs, BudgetsNewRowIs DEF Budgets!TypeOK
  <1>4. \A x \in limits : x \in Budgets!Same(edit[e].read) <=> \E r \in edit[e].read : r.id = x.id
    BY DEF Budgets!Same
  <1>5. ASSUME NEW x \in Budgets!Closed(e)
        PROVE  \E y \in limits : y.id = x.id /\ y.from = x.from /\ y.amount = x.amount
    <2>1. PICK y \in limits : y.id = x.id
      BY <1>1, <1>5 DEF Budgets!Stored
    <2>2. PICK r \in edit[e].read : r.id = x.id /\ r.from = x.from /\ r.amount = x.amount
      BY <1>1, <1>2, <1>5, ClosedIs
    <2>3. y.from = r.from /\ y.amount = r.amount
      BY <1>1, <2>1, <2>2 DEF AmountsInv, Numbered
    <2> QED BY <2>1, <2>2, <2>3
  <1> QED BY <1>1, <1>3, <1>4, <1>5
-----------------------------------------------------------------------------
\* Who is setting what when one editor's request changes.
LEMMA BudgetsBeginInv ==
    ASSUME Budgets!BudgetAmountsAssumption, AmountsInv, NEW e \in Editors, Budgets!Begin(e)
    PROVE  AmountsInv'
  <1>1. PICK a \in Figures, f \in Budgets!Months :
          edit' = [edit EXCEPT ![e] = [state |-> "setting", amount |-> a, from |-> f,
                                       read |-> {r \in limits : r.to = Budgets!Open}, seen |-> recorded]]
    BY DEF Budgets!Begin
  <1> DEFINE x == [state |-> "setting", amount |-> a, from |-> f, read |-> {r \in limits : r.to = Budgets!Open}, seen |-> recorded]
  <1>2. x \in Budgets!Edit
    BY DEF AmountsInv, Budgets!TypeOK, Budgets!Edit
  <1>3. x.read = {r \in limits : r.to = Budgets!Open} /\ x.seen = recorded
    OBVIOUS
  <1> HIDE DEF x
  <1>4. edit'[e] = x /\ \A g \in Editors : g # e => edit'[g] = edit[g]
    BY <1>1 DEF x, AmountsInv, Budgets!TypeOK
  <1>5. UNCHANGED <<limits, override, recorded>>
    BY DEF Budgets!Begin
  <1>6. Budgets!TypeOK'
    BY <1>1, <1>2, <1>5 DEF AmountsInv, Budgets!TypeOK, x
  <1>7. recorded \in Nat /\ \A r \in limits : r.id \in Nat
    BY RowIs DEF AmountsInv, Budgets!TypeOK, Budgets!BudgetAmountsAssumption
  <1>8. Numbered'
    <2>1. ASSUME NEW g \in Editors, Setting(g)'
          PROVE  /\ edit'[g].seen <= recorded
                 /\ \A r, s \in edit'[g].read : r.id = s.id => r = s
                 /\ \A r \in edit'[g].read : r.to = Budgets!Open /\ r.id <= edit'[g].seen
                 /\ \A r \in edit'[g].read, y \in limits : y.id = r.id => y.from = r.from
                    /\ y.amount = r.amount
      <3>1. CASE g = e
        BY <1>3, <1>4, <1>7, <3>1 DEF AmountsInv, Numbered
      <3>2. CASE g # e
        BY <1>4, <2>1, <3>2 DEF AmountsInv, Numbered, Setting
      <3> QED BY <3>1, <3>2
    <2> QED BY <1>5, <2>1 DEF AmountsInv, Numbered
  <1>9. Known'
    <2>1. ASSUME NEW g \in Editors, Setting(g)'
          PROVE  /\ edit'[g].seen = recorded => edit'[g].read = {r \in limits : r.to = Budgets!Open}
                 /\ recorded = edit'[g].seen + 1 =>
                      \A r \in edit'[g].read, y \in limits : y.id = r.id =>
                        \/ y.to = Budgets!Open
                        \/ \E n \in limits : n.id = recorded /\ n.to = Budgets!Open /\ n.from = y.to
      <3>1. CASE g = e
        BY <1>3, <1>4, <1>7, <3>1
      <3>2. CASE g # e
        BY <1>4, <2>1, <3>2 DEF AmountsInv, Known, Setting
      <3> QED BY <3>1, <3>2
    <2> QED BY <1>5, <2>1 DEF Known
  <1> QED BY <1>6, <1>8, <1>9 DEF AmountsInv

LEMMA WriteInv ==
    ASSUME Budgets!BudgetAmountsAssumption, AmountsInv, NEW e \in Editors, Budgets!Write(e)
    PROVE  AmountsInv'
  <1> DEFINE n == NewRow(e)
  <1>1. /\ Setting(e) /\ recorded < MaxLimits /\ recorded' = recorded + 1
        /\ limits' \subseteq Budgets!Row /\ n \in limits' /\ Budgets!Closed(e) \subseteq limits'
        /\ \A x \in limits' : \/ x = n
                              \/ x \in limits /\ \A r \in edit[e].read : r.id # x.id
                              \/ x \in Budgets!Closed(e)
        /\ \A x \in limits' : x = n \/ \E y \in limits : y.id = x.id /\ y.from = x.from /\ y.amount = x.amount
    BY WriteIs
  <1>2. Budgets!TypeOK /\ recorded \in Nat
    BY DEF AmountsInv, Budgets!TypeOK, Budgets!BudgetAmountsAssumption
  <1>3. n \in Budgets!Row /\ n.id = recorded + 1 /\ n.from = edit[e].from /\ n.to = Budgets!Open
    BY <1>1, <1>2, BudgetsNewRowIs
  <1> HIDE DEF n
  <1>4. edit'[e] = Budgets!Idle /\ (\A g \in Editors : g # e => edit'[g] = edit[g])
          /\ edit' \in [Editors -> Budgets!Edit] /\ override' = override
    BY <1>2 DEF Budgets!Write, Budgets!TypeOK, Budgets!Edit
  <1>5. ~ Setting(e)'
    BY <1>4 DEF Setting, Budgets!Idle
  <1>6. Budgets!TypeOK'
    BY <1>1, <1>2, <1>4 DEF Budgets!TypeOK, Budgets!BudgetAmountsAssumption
  <1>7. \A x \in limits' : x # n => x.id \in Nat /\ x.id <= recorded /\ x.id # n.id
    BY <1>1, <1>2, <1>3, RowIs DEF AmountsInv, Numbered
  <1>8. ASSUME NEW c \in Budgets!Closed(e), NEW d \in Budgets!Closed(e), c.id = d.id PROVE c = d
    <2>1. PICK q \in edit[e].read : c = [q EXCEPT !.to = Budgets!Closing(e)]
      BY DEF Budgets!Closed
    <2>2. PICK r \in edit[e].read : d = [r EXCEPT !.to = Budgets!Closing(e)]
      BY DEF Budgets!Closed
    <2>3. q \in Budgets!Row /\ r \in Budgets!Row
      BY <1>1, <1>2, EditIs
    <2>4. q.id = c.id /\ r.id = d.id
      BY <2>1, <2>2, <2>3 DEF Budgets!Row
    <2>5. q = r
      BY <1>1, <1>8, <2>4 DEF AmountsInv, Numbered
    <2> QED BY <2>1, <2>2, <2>5
  <1>9. \A c \in Budgets!Closed(e) : \E r \in edit[e].read : r.id = c.id
    BY <1>1, <1>2, ClosedIs
  <1>10. \A x, y \in limits' : x.id = y.id => x = y
    <2> SUFFICES ASSUME NEW x \in limits', NEW y \in limits', x.id = y.id PROVE x = y
      OBVIOUS
    <2>1. CASE x = n \/ y = n
      BY <1>7, <2>1
    <2>2. CASE x # n /\ y # n
      <3>1. x \in limits /\ y \in limits => x = y
        BY DEF AmountsInv, Numbered
      <3> QED BY <1>1, <1>8, <1>9, <2>2, <3>1
    <2> QED BY <2>1, <2>2
  <1>11. \A g \in Editors : Setting(g)' => g # e /\ Setting(g) /\ edit'[g] = edit[g]
    BY <1>4, <1>5 DEF Setting
  <1>12. \A g \in Editors : Setting(g) => edit[g].seen \in Nat
           /\ edit[g].seen <= recorded /\ edit[g].read \subseteq Budgets!Row
    BY <1>2, EditIs DEF AmountsInv, Numbered, Budgets!BudgetAmountsAssumption
  <1>13. ASSUME NEW g \in Editors, Setting(g), NEW r \in edit[g].read, NEW x \in limits', x.id = r.id
         PROVE  x # n /\ x.from = r.from /\ x.amount = r.amount
    <2>1. r.id \in Nat /\ r.id <= recorded
      BY <1>2, <1>12, <1>13, RowIs DEF AmountsInv, Numbered
    <2>2. x # n
      BY <1>2, <1>3, <1>13, <2>1
    <2>3. PICK y \in limits : y.id = x.id /\ y.from = x.from /\ y.amount = x.amount
      BY <1>1, <2>2
    <2> QED BY <1>13, <2>2, <2>3 DEF AmountsInv, Numbered
  <1>14. Numbered'
    <2>1. \A x \in limits' : x.id <= recorded'
      BY <1>1, <1>2, <1>3, <1>7
    <2>2. ASSUME NEW g \in Editors, Setting(g)'
          PROVE  /\ edit'[g].seen <= recorded'
                 /\ \A r, s \in edit'[g].read : r.id = s.id => r = s
                 /\ \A r \in edit'[g].read : r.to = Budgets!Open /\ r.id <= edit'[g].seen
                 /\ \A r \in edit'[g].read, x \in limits' : x.id = r.id => x.from = r.from
                    /\ x.amount = r.amount
      <3>1. Setting(g) /\ edit'[g] = edit[g]
        BY <1>11, <2>2
      <3>2. edit[g].seen <= recorded'
        BY <1>1, <1>2, <1>12, <3>1
      <3>3. \A r \in edit[g].read, x \in limits' : x.id = r.id => x.from = r.from /\ x.amount = r.amount
        BY <1>13, <3>1
      <3> QED BY <3>1, <3>2, <3>3 DEF AmountsInv, Numbered
    <2> QED BY <1>10, <2>1, <2>2 DEF Numbered
  <1>15. Known'
    <2>1. ASSUME NEW g \in Editors, Setting(g)'
          PROVE  /\ edit'[g].seen = recorded' => edit'[g].read = {r \in limits' : r.to = Budgets!Open}
                 /\ recorded' = edit'[g].seen + 1 =>
                      \A r \in edit'[g].read, x \in limits' : x.id = r.id =>
                        \/ x.to = Budgets!Open
                        \/ \E y \in limits' : y.id = recorded' /\ y.to = Budgets!Open /\ y.from = x.to
      <3>1. Setting(g) /\ edit'[g] = edit[g]
        BY <1>11, <2>1
      <3>2. edit[g].seen # recorded'
        BY <1>1, <1>2, <1>12, <3>1
      <3>3. ASSUME recorded' = edit[g].seen + 1, NEW r \in edit[g].read, NEW x \in limits', x.id = r.id
            PROVE  x.to = Budgets!Open \/ \E y \in limits' : y.id = recorded'
                     /\ y.to = Budgets!Open /\ y.from = x.to
        <4>1. edit[g].seen = recorded
          BY <1>1, <1>2, <1>12, <3>1, <3>3
        <4>2. r \in limits /\ r.to = Budgets!Open
          BY <3>1, <4>1 DEF AmountsInv, Known
        <4>3. x # n
          BY <1>13, <3>1, <3>3
        <4>4. CASE x \in limits
          BY <3>3, <4>2, <4>4 DEF AmountsInv, Numbered
        <4>5. CASE x \in Budgets!Closed(e)
          <5>1. x.to = edit[e].from
            BY <1>1, <1>2, <4>5, ClosedIs
          <5> QED BY <1>1, <1>3, <5>1
        <4> QED BY <1>1, <4>3, <4>4, <4>5
      <3> QED BY <3>1, <3>2, <3>3
    <2> QED BY <2>1 DEF Known
  <1> QED BY <1>6, <1>14, <1>15 DEF AmountsInv

LEMMA FailsInv ==
    ASSUME AmountsInv, NEW e \in Editors, Budgets!Fails(e)
    PROVE  AmountsInv'
  <1>1. edit'[e] = Budgets!Idle /\ (\A g \in Editors : g # e => edit'[g] = edit[g])
          /\ edit' \in [Editors -> Budgets!Edit]
    BY DEF Budgets!Fails, AmountsInv, Budgets!TypeOK, Budgets!Edit
  <1>2. UNCHANGED <<limits, override, recorded>>
    BY DEF Budgets!Fails
  <1>3. \A g \in Editors : Setting(g)' => Setting(g) /\ edit'[g] = edit[g]
    BY <1>1 DEF Setting, Budgets!Idle
  <1>4. Budgets!TypeOK'
    BY <1>1, <1>2 DEF AmountsInv, Budgets!TypeOK
  <1>5. Numbered'
    BY <1>2, <1>3 DEF AmountsInv, Numbered
  <1>6. Known'
    BY <1>2, <1>3 DEF AmountsInv, Known
  <1> QED BY <1>4, <1>5, <1>6 DEF AmountsInv

LEMMA OverrideInv ==
    ASSUME AmountsInv, NEW m \in Budgets!Months, NEW a \in Figures, Budgets!SetOverride(m, a)
    PROVE  AmountsInv'
  <1>1. override' \in [Budgets!Months -> Figures \cup {Budgets!Unset}] /\ UNCHANGED <<limits, recorded, edit>>
    BY DEF Budgets!SetOverride, AmountsInv, Budgets!TypeOK
  <1>2. Budgets!TypeOK'
    BY <1>1 DEF AmountsInv, Budgets!TypeOK
  <1>3. Numbered' /\ Known'
    BY <1>1 DEF AmountsInv, Numbered, Known, Setting
  <1> QED BY <1>2, <1>3 DEF AmountsInv

LEMMA AmountsNext ==
    ASSUME Budgets!BudgetAmountsAssumption, AmountsInv, [Budgets!Next]_(Budgets!vars)
    PROVE  AmountsInv'
  <1>1. CASE Budgets!Next
    BY <1>1, BudgetsBeginInv, WriteInv, FailsInv, OverrideInv DEF Budgets!Next
  <1>2. CASE UNCHANGED Budgets!vars
    BY <1>2 DEF Budgets!vars, AmountsInv, Budgets!TypeOK, Numbered, Known, Setting
  <1> QED BY <1>1, <1>2

LEMMA AmountsInvariance == ASSUME Budgets!BudgetAmountsAssumption PROVE Budgets!Spec => []AmountsInv
  BY AmountsInit, AmountsNext, PTL DEF Budgets!Spec

-----------------------------------------------------------------------------
\* A month has a limit exactly if it is overridden or an amount is in force.
LEMMA LimitIs ==
    ASSUME Budgets!BudgetAmountsAssumption, Budgets!TypeOK, NEW m \in Budgets!Months
    PROVE  Budgets!AmountFor(m) # {} <=> override[m] # Budgets!Unset \/ Budgets!InForce(m) # {}
  <1>1. CASE override[m] # Budgets!Unset
    BY <1>1 DEF Budgets!AmountFor
  <1>2. CASE override[m] = Budgets!Unset
    <2>1. ASSUME Budgets!InForce(m) # {} PROVE Budgets!AmountFor(m) # {}
      <3> DEFINE T == {r.from : r \in Budgets!InForce(m)}
      <3>1. m \in Nat /\ \A r \in Budgets!InForce(m) : r.from \in Nat /\ r.from <= m
        BY RowIs DEF Budgets!InForce, Budgets!TypeOK, Budgets!Months
      <3>2. T # {} /\ \A x \in T : x \in Nat /\ x <= m
        BY <2>1, <3>1
      <3> HIDE DEF T
      <3>3. PICK x \in T : \A y \in T : y <= x
        BY <3>1, <3>2, Largest
      <3>4. PICK r \in Budgets!InForce(m) : r.from = x
        BY DEF T
      <3>5. \A y \in Budgets!InForce(m) : y.from <= r.from
        BY <3>3, <3>4 DEF T
      <3> QED BY <1>2, <3>5 DEF Budgets!AmountFor
    <2> QED BY <1>2, <2>1 DEF Budgets!AmountFor
  <1> QED BY <1>1, <1>2

LEMMA LimitIsNext ==
    ASSUME Budgets!BudgetAmountsAssumption, Budgets!TypeOK', NEW m \in Budgets!Months
    PROVE  Budgets!AmountFor(m)' # {} <=> override'[m] # Budgets!Unset \/ Budgets!InForce(m)' # {}
  <1>1. CASE override'[m] # Budgets!Unset
    BY <1>1 DEF Budgets!AmountFor
  <1>2. CASE override'[m] = Budgets!Unset
    <2>1. ASSUME Budgets!InForce(m)' # {} PROVE Budgets!AmountFor(m)' # {}
      <3> DEFINE F == Budgets!InForce(m)'
      <3> DEFINE T == {r.from : r \in F}
      <3>1. m \in Nat /\ \A r \in F : r.from \in Nat /\ r.from <= m
        BY RowIs DEF Budgets!InForce, Budgets!TypeOK, Budgets!Months
      <3>2. F # {}
        BY <2>1
      <3>3. Budgets!AmountFor(m)' = {r.amount : r \in {x \in F : \A y \in F : y.from <= x.from}}
        BY <1>2 DEF Budgets!AmountFor
      <3> HIDE DEF F
      <3>4. T # {} /\ \A x \in T : x \in Nat /\ x <= m
        BY <3>1, <3>2
      <3> HIDE DEF T
      <3>5. PICK x \in T : \A y \in T : y <= x
        BY <3>1, <3>4, Largest
      <3>6. PICK r \in F : r.from = x
        BY DEF T
      <3>7. \A y \in F : y.from <= r.from
        BY <3>5, <3>6 DEF T
      <3> QED BY <3>3, <3>7
    <2> QED BY <1>2, <2>1 DEF Budgets!AmountFor
  <1> QED BY <1>1, <1>2

\* What was in force in a month before the start of the new amount still is, with the same
\* start and limit; in later months at least the new amount is.
LEMMA Forward ==
    ASSUME Budgets!BudgetAmountsAssumption, AmountsInv, NEW e \in Editors, Budgets!Write(e),
           NEW m \in Budgets!Months, NEW r \in Budgets!InForce(m)
    PROVE  \/ edit[e].from <= m /\ NewRow(e) \in Budgets!InForce(m)'
           \/ \E s \in Budgets!InForce(m)' : s.from = r.from /\ s.amount = r.amount
  <1>1. /\ Setting(e) /\ recorded < MaxLimits /\ NewRow(e) \in limits' /\ Budgets!Closed(e) \subseteq limits'
        /\ \A x \in limits : (\A q \in edit[e].read : q.id # x.id) => x \in limits'
    BY WriteIs
  <1>2. Budgets!TypeOK /\ m \in Nat /\ m < Budgets!Open
    BY DEF AmountsInv, Budgets!Months, Budgets!Open, Budgets!BudgetAmountsAssumption
  <1>3. NewRow(e).from = edit[e].from /\ NewRow(e).to = Budgets!Open
    BY <1>1, <1>2, BudgetsNewRowIs
  <1>4. edit[e].from \in Budgets!Months /\ edit[e].from \in Nat /\ edit[e].read \subseteq Budgets!Row
    BY <1>1, <1>2, EditIs DEF Budgets!Months
  <1>5. r \in limits /\ r.from <= m /\ m < r.to
    BY DEF Budgets!InForce
  <1>6. CASE edit[e].from <= m
    BY <1>1, <1>2, <1>3, <1>6 DEF Budgets!InForce
  <1>7. CASE ~ edit[e].from <= m /\ \A q \in edit[e].read : q.id # r.id
    BY <1>1, <1>5, <1>7 DEF Budgets!InForce
  <1>8. CASE ~ edit[e].from <= m /\ \E q \in edit[e].read : q.id = r.id
    <2>1. PICK q \in edit[e].read : q.id = r.id
      BY <1>8
    <2>2. r.from = q.from /\ r.amount = q.amount
      BY <1>1, <1>5, <2>1 DEF AmountsInv, Numbered
    <2>3. q \notin Budgets!Replaced(e)
      BY <1>2, <1>4, <1>5, <1>8, <2>2, RowIs DEF Budgets!Replaced
    <2> DEFINE c == [q EXCEPT !.to = Budgets!Closing(e)]
    <2>4. c \in Budgets!Closed(e)
      BY <2>3 DEF Budgets!Closed
    <2>5. c.from = q.from /\ c.amount = q.amount /\ c.to = edit[e].from
      BY <1>4 DEF Budgets!Row, Budgets!Closing
    <2> HIDE DEF c
    <2>6. c.from <= m /\ m < c.to
      BY <1>2, <1>4, <1>5, <1>8, <2>2, <2>5
    <2>7. c \in Budgets!InForce(m)'
      BY <1>1, <2>4, <2>6 DEF Budgets!InForce
    <2> QED BY <2>2, <2>5, <2>7
  <1> QED BY <1>6, <1>7, <1>8

\* An amount in force in an earlier month after the write was so before, or has a later one
\* over it: the one that followed it when another request closed it.
LEMMA Backward ==
    ASSUME Budgets!BudgetAmountsAssumption, AmountsInv, NEW e \in Editors, Budgets!Write(e),
           Budgets!OvertakenOnce(e),
           NEW m \in Budgets!Months, m < edit[e].from, NEW s \in Budgets!InForce(m)'
    PROVE  \/ \E y \in Budgets!InForce(m) : y.from = s.from /\ y.amount = s.amount
           \/ \E n \in Budgets!InForce(m) : n \in Budgets!InForce(m)' /\ s.from < n.from
  <1>1. /\ Setting(e) /\ recorded < MaxLimits /\ limits' \subseteq Budgets!Row
        /\ \A x \in limits : (\A q \in edit[e].read : q.id # x.id) => x \in limits'
        /\ \A x \in limits' : \/ x = NewRow(e)
                              \/ x \in limits /\ \A q \in edit[e].read : q.id # x.id
                              \/ x \in Budgets!Closed(e)
        /\ \A x \in limits' : x = NewRow(e)
           \/ \E y \in limits : y.id = x.id /\ y.from = x.from /\ y.amount = x.amount
    BY WriteIs
  <1>2. Budgets!TypeOK /\ m \in Nat /\ m < Budgets!Open
    BY DEF AmountsInv, Budgets!Months, Budgets!Open, Budgets!BudgetAmountsAssumption
  <1>3. NewRow(e).from = edit[e].from
    BY <1>1, <1>2, BudgetsNewRowIs
  <1>4. edit[e].from \in Nat /\ edit[e].read \subseteq Budgets!Row /\ edit[e].seen \in Nat /\ recorded \in Nat
    BY <1>1, <1>2, EditIs DEF Budgets!Months, Budgets!TypeOK, Budgets!BudgetAmountsAssumption
  <1>5. s \in limits' /\ s.from <= m /\ m < s.to /\ s.from \in Nat
    BY <1>1, RowIs DEF Budgets!InForce
  <1>6. s # NewRow(e)
    BY <1>2, <1>3, <1>4, <1>5
  <1>7. CASE s \in limits /\ \A q \in edit[e].read : q.id # s.id
    BY <1>5, <1>7 DEF Budgets!InForce
  <1>8. CASE s \in Budgets!Closed(e)
    <2>1. PICK q \in edit[e].read : q.id = s.id /\ q.from = s.from
      BY <1>1, <1>2, <1>8, ClosedIs
    <2>2. PICK y \in limits : y.id = s.id /\ y.from = s.from /\ y.amount = s.amount
      BY <1>1, <1>5, <1>6
    <2>3. y \in Budgets!Row /\ y.from \in Nat /\ y.to \in Nat /\ y.from < y.to /\ y.to <= Budgets!Open
      BY <1>2, RowIs DEF Budgets!TypeOK
    <2>4. CASE m < y.to
      BY <1>5, <2>2, <2>4 DEF Budgets!InForce
    <2>5. CASE ~ m < y.to
      <3>1. y.to # Budgets!Open
        BY <1>2, <2>5
      <3>2. edit[e].seen <= recorded
        BY <1>1 DEF AmountsInv, Numbered
      <3>3. recorded = edit[e].seen \/ recorded = edit[e].seen + 1
        BY <1>4, <3>2 DEF Budgets!OvertakenOnce
      <3>4. recorded # edit[e].seen
        <4>1. ASSUME recorded = edit[e].seen PROVE FALSE
          <5>1. q \in limits /\ q.to = Budgets!Open
            BY <1>1, <4>1 DEF AmountsInv, Known
          <5>2. q = y
            BY <2>1, <2>2, <5>1 DEF AmountsInv, Numbered
          <5> QED BY <3>1, <5>1, <5>2
        <4> QED BY <4>1
      <3>5. PICK n \in limits : n.id = recorded /\ n.to = Budgets!Open /\ n.from = y.to
        BY <1>1, <2>1, <2>2, <3>1, <3>3, <3>4 DEF AmountsInv, Known
      <3>6. \A r \in edit[e].read : r.id # n.id
        BY <1>1, <1>4, <3>3, <3>4, <3>5, RowIs DEF AmountsInv, Numbered
      <3>7. n.from <= m /\ m < n.to /\ s.from < n.from
        BY <1>2, <2>2, <2>3, <2>5, <3>5
      <3>8. n \in limits'
        BY <1>1, <3>6
      <3> QED BY <3>7, <3>8 DEF Budgets!InForce
    <2> QED BY <2>4, <2>5
  <1> QED BY <1>1, <1>5, <1>6, <1>7, <1>8

LEMMA BudgetsHistoryStep ==
    ASSUME Budgets!BudgetAmountsAssumption, AmountsInv
    PROVE  Budgets!HistoryIsPreserved
  <1> SUFFICES ASSUME NEW e \in Editors, Budgets!Write(e), Budgets!OvertakenOnce(e),
                      NEW m \in Budgets!Months, m < edit[e].from
               PROVE  Budgets!AmountFor(m)' = Budgets!AmountFor(m)
    BY DEF Budgets!HistoryIsPreserved
  <1> DEFINE B == Budgets!InForce(m)
             A == Budgets!InForce(m)'
  <1>1. \A r \in B : r.from \in Nat
    BY RowIs DEF Budgets!InForce, AmountsInv, Budgets!TypeOK
  <1>2. \A s \in A : s.from \in Nat
    BY WriteIs, RowIs DEF Budgets!InForce
  <1>3. edit[e].from \in Nat /\ m \in Nat
    BY EditIs, WriteIs DEF Budgets!Months, AmountsInv
  <1>4. \A r \in B : \E s \in A : s.from = r.from /\ s.amount = r.amount
    BY <1>3, Forward
  <1>5. \A s \in A : (\E y \in B : y.from = s.from /\ y.amount = s.amount)
          \/ \E n \in B : n \in A /\ s.from < n.from
    BY Backward
  <1>6. override' = override
    BY DEF Budgets!Write
  <1>7. CASE override[m] # Budgets!Unset
    BY <1>6, <1>7 DEF Budgets!AmountFor
  <1>8. CASE override[m] = Budgets!Unset
    <2>1. Budgets!AmountFor(m) = {r.amount : r \in {x \in B : \A y \in B : y.from <= x.from}}
      BY <1>8 DEF Budgets!AmountFor
    <2>2. Budgets!AmountFor(m)' = {r.amount : r \in {x \in A : \A y \in A : y.from <= x.from}}
      BY <1>6, <1>8 DEF Budgets!AmountFor
    <2> HIDE DEF A, B
    <2>3. ASSUME NEW r \in B, \A y \in B : y.from <= r.from
          PROVE  \E s \in A : s.amount = r.amount /\ \A y \in A : y.from <= s.from
      <3>1. PICK s \in A : s.from = r.from /\ s.amount = r.amount
        BY <1>4
      <3>2. ASSUME NEW y \in A PROVE y.from <= s.from
        BY <1>1, <1>2, <1>5, <2>3, <3>1
      <3> QED BY <3>1, <3>2
    <2>4. ASSUME NEW s \in A, \A y \in A : y.from <= s.from
          PROVE  \E r \in B : r.amount = s.amount /\ \A y \in B : y.from <= r.from
      <3>1. ~ \E n \in B : n \in A /\ s.from < n.from
        BY <1>2, <2>4
      <3>2. PICK r \in B : r.from = s.from /\ r.amount = s.amount
        BY <1>5, <3>1
      <3>3. ASSUME NEW y \in B PROVE y.from <= r.from
        <4>1. PICK z \in A : z.from = y.from
          BY <1>4
        <4> QED BY <2>4, <3>2, <4>1
      <3> QED BY <3>2, <3>3
    <2> QED BY <2>1, <2>2, <2>3, <2>4
  <1> QED BY <1>7, <1>8

LEMMA LimitStep ==
    ASSUME Budgets!BudgetAmountsAssumption, AmountsInv, [Budgets!Next]_(Budgets!vars)
    PROVE  Budgets!NoMonthLosesItsLimit
  <1> SUFFICES ASSUME NEW m \in Budgets!Months, Budgets!AmountFor(m) # {} PROVE Budgets!AmountFor(m)' # {}
    BY DEF Budgets!NoMonthLosesItsLimit
  <1>1. Budgets!TypeOK /\ Budgets!TypeOK'
    BY AmountsNext DEF AmountsInv
  <1>2. override[m] # Budgets!Unset \/ Budgets!InForce(m) # {}
    BY <1>1, LimitIs
  <1>3. ASSUME NEW e \in Editors, Budgets!Write(e) PROVE Budgets!AmountFor(m)' # {}
    <2>1. override' = override
      BY <1>3 DEF Budgets!Write
    <2>2. Budgets!InForce(m) # {} => Budgets!InForce(m)' # {}
      BY <1>3, Forward
    <2> QED BY <1>1, <1>2, <2>1, <2>2, LimitIsNext
  <1>4. ASSUME NEW n \in Budgets!Months, NEW a \in Figures, Budgets!SetOverride(n, a)
        PROVE  Budgets!AmountFor(m)' # {}
    <2>1. limits' = limits /\ override' = [override EXCEPT ![n] = a]
      BY <1>4 DEF Budgets!SetOverride
    <2>2. override[m] # Budgets!Unset => override'[m] # Budgets!Unset
      BY <1>1, <2>1 DEF Budgets!TypeOK, Budgets!Unset, Budgets!BudgetAmountsAssumption
    <2>3. Budgets!InForce(m)' = Budgets!InForce(m)
      BY <2>1 DEF Budgets!InForce
    <2> QED BY <1>1, <1>2, <2>2, <2>3, LimitIsNext
  <1>5. CASE UNCHANGED <<limits, override>>
    BY <1>5 DEF Budgets!AmountFor, Budgets!InForce
  <1> QED BY <1>3, <1>4, <1>5 DEF Budgets!Next, Budgets!Begin, Budgets!Fails, Budgets!vars

THEOREM LimitsKept ==
    ASSUME Budgets!BudgetAmountsAssumption
    PROVE  Budgets!Spec => []Budgets!TypeOK
             /\ [][Budgets!HistoryIsPreserved /\ Budgets!NoMonthLosesItsLimit]_(Budgets!vars)
  <1>1. AmountsInv /\ [Budgets!Next]_(Budgets!vars) => [Budgets!HistoryIsPreserved /\ Budgets!NoMonthLosesItsLimit]_(Budgets!vars)
    BY BudgetsHistoryStep, LimitStep
  <1>2. AmountsInv => Budgets!TypeOK
    BY DEF AmountsInv
  <1> QED BY <1>1, <1>2, AmountsInvariance, PTL DEF Budgets!Spec

-----------------------------------------------------------------------------
(* Allocation rules.                                                        *)

StoredRule == [project : Projects, kind : Criteria, accounts : SUBSET Members, key : Keys, values : SUBSET Values,
               start : Starts, end : Rules!Days \cup {Rules!Forever}, active : BOOLEAN]

\* A stored rule is as a form gives it, but for its end and its retirement.
WellFormed ==
    {r \in StoredRule :
       /\ r.start < r.end
       /\ Rules!UsesAccounts(r) <=> r.accounts # {}
       /\ r.kind = "accounts" <=> r.values = {}
       /\ r.kind = "accounts" => r.key = CHOOSE k \in Keys : TRUE}

AllocationAssumption ==
    MaxNow \in Nat \ {0} /\ MaxRules \in Nat /\ Starts \subseteq Rules!Days /\ Ends \subseteq Rules!Days

Busy == [kind : {"busy"}, project : Projects, read : Seq(WellFormed), left : SUBSET ((1..MaxRules) \X Rules!Months)]

Ruled == rules \in Seq(WellFormed) /\ Len(rules) <= MaxRules
Placed == \A x \in portions : x \in Rules!Row /\ x.rule \in DOMAIN rules /\ rules[x.rule].start <= x.day
Added == adding \in [Allocators -> Rules!Rule \cup {Rules!Nothing}]

\* The worker knows every rule that was stored when it began, with the start it still has;
\* the months it recomputes are the current one and the one before.
RulesWorking ==
    allocator # Rules!Idle =>
      /\ allocator \in Busy
      /\ Len(allocator.read) <= Len(rules)
      /\ \A i \in DOMAIN allocator.read : allocator.read[i].start = rules[i].start
      /\ \A y \in allocator.left : y[1] \in DOMAIN allocator.read /\ y[2] \in Rules!RecentMonths
Clock == imported \in BOOLEAN /\ now \in Rules!Months /\ now >= 1

AllocationInv == Ruled /\ Placed /\ Added /\ RulesWorking /\ Clock

LEMMA WellFormedIs ==
    ASSUME AllocationAssumption, NEW r \in WellFormed
    PROVE  /\ r.project \in Projects /\ r.kind \in Criteria /\ r.accounts \in SUBSET Members /\ r.key \in Keys
           /\ r.values \in SUBSET Values /\ r.start \in Starts /\ r.end \in Rules!Days \cup {Rules!Forever}
              /\ r.active \in BOOLEAN
           /\ r.start \in Nat /\ r.end \in Nat /\ r.start < r.end /\ r.end <= Rules!Forever
  <1>1. /\ r.project \in Projects /\ r.kind \in Criteria /\ r.accounts \in SUBSET Members /\ r.key \in Keys
        /\ r.values \in SUBSET Values /\ r.start \in Starts /\ r.end \in Rules!Days \cup {Rules!Forever}
           /\ r.active \in BOOLEAN
        /\ r.start < r.end
    BY DEF WellFormed, StoredRule
  <1>2. Rules!Days \subseteq Nat /\ Rules!Forever \in Nat /\ \A d \in Rules!Days : d <= Rules!Forever
    BY DEF AllocationAssumption, Rules!Days, Rules!Forever
  <1>3. r.start \in Nat
    BY <1>1, <1>2 DEF AllocationAssumption
  <1>4. r.end \in Nat /\ r.end <= Rules!Forever
    <2>1. CASE r.end \in Rules!Days
      BY <1>2, <2>1
    <2>2. CASE r.end = Rules!Forever
      BY <1>2, <2>2
    <2> QED BY <1>1, <2>1, <2>2
  <1> QED BY <1>1, <1>3, <1>4

LEMMA RuleIs ==
    ASSUME AllocationAssumption, NEW r \in Rules!Rule
    PROVE  r \in WellFormed /\ r.active = TRUE
  <1>1. r.end \in Rules!Days \cup {Rules!Forever} /\ r.active = TRUE
    BY DEF Rules!Rule, AllocationAssumption
  <1>2. r \in StoredRule
    BY <1>1 DEF Rules!Rule, StoredRule, AllocationAssumption
  <1> QED BY <1>1, <1>2 DEF Rules!Rule, WellFormed

\* A rule that is retired keeps everything but its end, which may only move forward, and its
\* activity; one that started before the month stays active.
LEMMA RetiredIs ==
    ASSUME AllocationAssumption, Clock, NEW r \in WellFormed, r.active, r.end = Rules!Forever
    PROVE  \E s \in WellFormed :
             /\ s = Rules!Retired(r)
             /\ s.project = r.project /\ s.kind = r.kind /\ s.accounts = r.accounts /\ s.key = r.key
             /\ s.values = r.values /\ s.start = r.start /\ s.end <= r.end
             /\ r.start < Rules!First(now) => s.active
  <1>1. Rules!First(now) \in Rules!Days /\ Rules!First(now) \in Nat /\ Rules!First(now) <= Rules!Forever
    BY DEF Rules!First, Rules!Days, Rules!Months, Clock, AllocationAssumption, Rules!Forever
  <1>2. CASE r.start >= Rules!First(now)
    <2> DEFINE s == [r EXCEPT !.active = FALSE]
    <2>1. /\ s \in StoredRule
          /\ s.project = r.project /\ s.kind = r.kind /\ s.accounts = r.accounts /\ s.key = r.key
          /\ s.values = r.values /\ s.start = r.start /\ s.end = r.end
      BY DEF WellFormed, StoredRule
    <2>2. s = Rules!Retired(r)
      BY <1>2 DEF Rules!Retired
    <2> HIDE DEF s
    <2>3. s \in WellFormed
      BY <2>1 DEF WellFormed, Rules!UsesAccounts
    <2> QED BY <1>1, <1>2, <2>1, <2>2, <2>3, WellFormedIs
  <1>3. CASE ~ r.start >= Rules!First(now)
    <2> DEFINE s == [r EXCEPT !.end = Rules!First(now)]
    <2>1. /\ s \in StoredRule
          /\ s.project = r.project /\ s.kind = r.kind /\ s.accounts = r.accounts /\ s.key = r.key
          /\ s.values = r.values /\ s.start = r.start /\ s.end = Rules!First(now) /\ s.active = r.active
      BY <1>1 DEF WellFormed, StoredRule
    <2>2. s = Rules!Retired(r)
      BY <1>3 DEF Rules!Retired
    <2> HIDE DEF s
    <2>3. s.start < s.end
      BY <1>1, <1>3, <2>1, WellFormedIs
    <2>4. s \in WellFormed
      BY <2>1, <2>3 DEF WellFormed, Rules!UsesAccounts
    <2> QED BY <1>1, <1>3, <2>1, <2>2, <2>4
  <1> QED BY <1>2, <1>3

LEMMA AllocationTypes == ASSUME AllocationAssumption, AllocationInv PROVE Rules!TypeOK
  <1>1. ASSUME NEW i \in DOMAIN rules
        PROVE  [rules[i] EXCEPT !.active = TRUE, !.end = Rules!Forever] \in Rules!Rule
                 /\ rules[i].end \in Rules!Days \cup {Rules!Forever}
    <2> DEFINE r == rules[i]
               s == [r EXCEPT !.active = TRUE, !.end = Rules!Forever]
    <2>1. r \in WellFormed
      BY DEF AllocationInv, Ruled
    <2> HIDE DEF r
    <2>2. /\ s \in [project : Projects, kind : Criteria, accounts : SUBSET Members, key : Keys, values : SUBSET Values,
                    start : Starts, end : Ends \cup {Rules!Forever}, active : {TRUE}]
          /\ s.kind = r.kind /\ s.accounts = r.accounts /\ s.key = r.key /\ s.values = r.values
          /\ s.start = r.start /\ s.end = Rules!Forever
      BY <2>1 DEF WellFormed, StoredRule
    <2> HIDE DEF s
    <2>3. s.start < s.end
      BY <2>1, <2>2, WellFormedIs DEF Rules!Forever, AllocationAssumption
    <2>4. s \in Rules!Rule
      BY <2>1, <2>2, <2>3 DEF Rules!Rule, WellFormed, Rules!UsesAccounts
    <2>5. r.end \in Rules!Days \cup {Rules!Forever}
      BY <2>1, WellFormedIs
    <2> QED BY <2>4, <2>5 DEF r, s
  <1>2. allocator # Rules!Idle => allocator.project \in Projects
          /\ allocator.left \subseteq (1..MaxRules) \X Rules!Months
    BY DEF AllocationInv, RulesWorking, Busy
  <1>3. portions \subseteq Rules!Row
    BY DEF AllocationInv, Placed
  <1> QED BY <1>1, <1>2, <1>3 DEF AllocationInv, Rules!TypeOK, Ruled, Added, Clock

LEMMA AllocationInit == ASSUME AllocationAssumption, Rules!Init PROVE AllocationInv
  <1>1. rules = <<>> /\ portions = {} /\ allocator = Rules!Idle /\ now = 1
          /\ adding = [e \in Allocators |-> Rules!Nothing] /\ imported \in BOOLEAN
    BY DEF Rules!Init
  <1>2. Ruled
    BY <1>1 DEF Ruled, AllocationAssumption
  <1>3. Clock
    BY <1>1 DEF Clock, Rules!Months, AllocationAssumption
  <1> QED BY <1>1, <1>2, <1>3 DEF AllocationInv, Placed, Added, RulesWorking

-----------------------------------------------------------------------------
\* The recomputation of a month touches neither earlier days nor later ones, and gives a rule
\* only days that it covers.
LEMMA WindowIs ==
    ASSUME AllocationAssumption, NEW r \in WellFormed, NEW m \in Int, NEW d \in Rules!Window(r, m)
    PROVE  d \in Int /\ r.start <= d /\ Rules!First(m) <= d /\ d < Rules!First(m + 1)
  BY WellFormedIs DEF Rules!Window, Rules!Lower, Rules!Upper, Rules!First

LEMMA RecomputedKeeps ==
    ASSUME AllocationAssumption, NEW r \in WellFormed, NEW m \in Int, NEW old, NEW known, NEW i, NEW answered,
           NEW x \in old, x.day \in Int, x.day < Rules!First(m)
    PROVE  x \in Rules!Recomputed(old, known, i, r, m, answered)
  <1>1. x.day \notin Rules!Window(r, m)
    BY WindowIs DEF Rules!First
  <1>2. x.day \notin Rules!First(m)..(Rules!First(m + 1) - 1)
    BY DEF Rules!First
  <1> QED BY <1>1, <1>2 DEF Rules!Recomputed

LEMMA RecomputedIs ==
    ASSUME AllocationAssumption, NEW r \in WellFormed, NEW m \in Int, NEW old, NEW known, NEW i, NEW answered,
           NEW x \in Rules!Recomputed(old, known, i, r, m, answered)
    PROVE  x \in old \/ (~ (m > now) /\ x \in [rule : {i}, day : Rules!Window(r, m), account : Members])
  <1> DEFINE scope == Rules!Scope(known, i, r, m)
             found == {a \in scope : r.kind = "accounts" \/ SourceOf[a] \in answered}
  <1>1. scope \subseteq Members
    BY WellFormedIs DEF Rules!Scope
  <1> HIDE DEF scope
  <1>2. found \subseteq Members
    BY <1>1
  <1>3. x \in old \/ (~ (m > now) /\ x \in [rule : {i}, day : Rules!Window(r, m), account : found])
    BY DEF Rules!Recomputed, scope
  <1> HIDE DEF found
  <1>4. [rule : {i}, day : Rules!Window(r, m), account : found] \subseteq [rule : {i}, day : Rules!Window(r, m), account : Members]
    BY <1>2
  <1> QED BY <1>3, <1>4

LEMMA DroppedIs ==
    ASSUME NEW old, NEW known, NEW p
    PROVE  Rules!Dropped(old, known, p) \subseteq old
             /\ \A x \in old : known[x.rule].active => x \in Rules!Dropped(old, known, p)
  BY DEF Rules!Dropped

\* Months that are recomputed: the current one and the one before.
Recent(m) == m = now - 1 \/ m = now

LEMMA AllocatedIs ==
    ASSUME AllocationAssumption, Clock, NEW known \in Seq(WellFormed), NEW p, NEW answered,
           NEW x \in Rules!Allocated(known, p, answered)
    PROVE  \/ x \in portions
           \/ \E i \in DOMAIN known, m \in Int : Recent(m)
              /\ x \in [rule : {i}, day : Rules!Window(known[i], m), account : Members]
  <1> DEFINE earlier(i) == Rules!Recomputed(portions, known, i, known[i], now - 1, answered)
             mine(i) == Rules!Recomputed(earlier(i), known, i, known[i], now, answered)
             kept == {y \in portions : y.rule \notin Rules!Reached(known, p)}
  <1>1. Rules!Allocated(known, p, answered) = Rules!Dropped(kept \cup UNION {{y \in mine(i) : y.rule = i} : i \in Rules!Reached(known, p)}, known, p)
    BY DEF Rules!Allocated
  <1>2. now \in Int /\ now - 1 \in Int
    BY DEF Clock, Rules!Months
  <1>3. Rules!Reached(known, p) \subseteq DOMAIN known
    BY DEF Rules!Reached, Rules!OfProject
  <1>4. \A i \in DOMAIN known : known[i] \in WellFormed
    OBVIOUS
  <1>5. x \in kept \cup UNION {{y \in mine(i) : y.rule = i} : i \in Rules!Reached(known, p)}
    BY <1>1, DroppedIs
  <1> HIDE DEF mine
  <1>6. CASE x \in kept
    BY <1>6
  <1>7. CASE x \notin kept
    <2>1. PICK i \in Rules!Reached(known, p) : x \in mine(i)
      BY <1>5, <1>7
    <2>2. i \in DOMAIN known /\ known[i] \in WellFormed
      BY <1>3, <1>4
    <2> HIDE DEF earlier
    <2>3. x \in earlier(i) \/ x \in [rule : {i}, day : Rules!Window(known[i], now), account : Members]
      BY <1>2, <2>1, <2>2, RecomputedIs DEF mine
    <2>4. x \in earlier(i) => (x \in portions \/ x \in [rule : {i}, day : Rules!Window(known[i], now - 1), account : Members])
      BY <1>2, <2>2, RecomputedIs DEF earlier
    <2> QED BY <1>2, <2>2, <2>3, <2>4 DEF Recent
  <1> QED BY <1>6, <1>7

LEMMA AllocatedKeeps ==
    ASSUME AllocationAssumption, Clock, NEW known \in Seq(WellFormed), NEW p, NEW answered,
           NEW x \in portions, x.day \in Int, x.day < Rules!First(now - 1), known[x.rule].active
    PROVE  x \in Rules!Allocated(known, p, answered)
  <1> DEFINE earlier(i) == Rules!Recomputed(portions, known, i, known[i], now - 1, answered)
             mine(i) == Rules!Recomputed(earlier(i), known, i, known[i], now, answered)
             kept == {y \in portions : y.rule \notin Rules!Reached(known, p)}
  <1>1. Rules!Allocated(known, p, answered) = Rules!Dropped(kept \cup UNION {{y \in mine(i) : y.rule = i} : i \in Rules!Reached(known, p)}, known, p)
    BY DEF Rules!Allocated
  <1>2. now \in Int /\ now - 1 \in Int /\ x.day < Rules!First(now)
    BY DEF Clock, Rules!Months, Rules!First
  <1>3. Rules!Reached(known, p) \subseteq DOMAIN known /\ \A i \in DOMAIN known : known[i] \in WellFormed
    BY DEF Rules!Reached, Rules!OfProject
  <1> HIDE DEF mine
  <1>4. CASE x.rule \in Rules!Reached(known, p)
    <2> HIDE DEF earlier
    <2>1. known[x.rule] \in WellFormed
      BY <1>3, <1>4
    <2>2. x \in earlier(x.rule)
      BY <1>2, <2>1, RecomputedKeeps DEF earlier
    <2>3. x \in mine(x.rule)
      BY <1>2, <2>1, <2>2, RecomputedKeeps DEF mine
    <2>4. x \in kept \cup UNION {{y \in mine(i) : y.rule = i} : i \in Rules!Reached(known, p)}
      BY <1>4, <2>3
    <2> QED BY <1>1, <2>4, DroppedIs
  <1>5. CASE x.rule \notin Rules!Reached(known, p)
    <2>1. x \in kept \cup UNION {{y \in mine(i) : y.rule = i} : i \in Rules!Reached(known, p)}
      BY <1>5
    <2> QED BY <1>1, <2>1, DroppedIs
  <1> QED BY <1>4, <1>5

\* A row that a recomputation of a recent month adds.
LEMMA RulesNewRowIs ==
    ASSUME AllocationAssumption, Clock, NEW r \in WellFormed, NEW i \in 1..MaxRules, NEW m \in Int, Recent(m),
           NEW x \in [rule : {i}, day : Rules!Window(r, m), account : Members]
    PROVE  x \in Rules!Row /\ x.rule = i /\ r.start <= x.day
  <1>1. now \in Int /\ 1 <= now /\ now <= MaxNow /\ MaxNow \in Int
    BY DEF Clock, Rules!Months, AllocationAssumption
  <1>2. m >= 0 /\ m <= MaxNow
    BY <1>1 DEF Recent
  <1>3. x.day \in Rules!Window(r, m) /\ x.rule = i /\ x.account \in Members
    OBVIOUS
  <1>4. x.day \in Int /\ r.start <= x.day /\ Rules!First(m) <= x.day /\ x.day < Rules!First(m + 1)
    BY <1>3, WindowIs
  <1>5. x.day \in Rules!Days
    BY <1>1, <1>2, <1>4 DEF Rules!First, Rules!Days
  <1>6. x \in [rule : 1..MaxRules, day : Rules!Days, account : Members]
    BY <1>3, <1>5
  <1> QED BY <1>3, <1>4, <1>6 DEF Rules!Row

\* The rules after a step, and the rows a request leaves with them.
LEMMA RowsAfter ==
    ASSUME AllocationAssumption, AllocationInv, NEW p, NEW answered,
           rules' \in Seq(WellFormed), Len(rules') <= MaxRules, Len(rules) <= Len(rules'),
           \A i \in DOMAIN rules : rules'[i].start = rules[i].start,
           portions' = Rules!Allocated(rules', p, answered)
    PROVE  Ruled' /\ Placed'
  <1>1. DOMAIN rules' = 1..Len(rules') /\ DOMAIN rules = 1..Len(rules) /\ Len(rules) \in Nat
          /\ Len(rules') \in Nat
    BY DEF AllocationInv, Ruled
  <1>2. ASSUME NEW x \in portions'
        PROVE  x \in Rules!Row /\ x.rule \in DOMAIN rules' /\ rules'[x.rule].start <= x.day
    <2>1. CASE x \in portions
      BY <1>1, <2>1 DEF AllocationInv, Placed
    <2>2. ASSUME NEW i \in DOMAIN rules', NEW m \in Int, Recent(m),
                 x \in [rule : {i}, day : Rules!Window(rules'[i], m), account : Members]
          PROVE  x \in Rules!Row /\ x.rule \in DOMAIN rules' /\ rules'[x.rule].start <= x.day
      <3>1. i \in 1..MaxRules /\ rules'[i] \in WellFormed
        BY <1>1 DEF AllocationAssumption
      <3> QED BY <2>2, <3>1, RulesNewRowIs DEF AllocationInv
    <2> QED BY <2>1, <2>2, AllocatedIs DEF AllocationInv
  <1> QED BY <1>2 DEF Ruled, Placed

\* What the worker knows stays true of rules that only grow and keep their starts.
LEMMA WorkingAfter ==
    ASSUME AllocationInv, UNCHANGED <<allocator, now>>, rules' \in Seq(WellFormed), Len(rules) <= Len(rules'),
           \A i \in DOMAIN rules : rules'[i].start = rules[i].start
    PROVE  RulesWorking'
  <1>1. DOMAIN rules = 1..Len(rules) /\ Len(rules) \in Nat /\ Len(rules') \in Nat
    BY DEF AllocationInv, Ruled
  <1>2. CASE allocator = Rules!Idle
    BY <1>2 DEF RulesWorking
  <1>3. CASE allocator # Rules!Idle
    <2>1. allocator.read \in Seq(WellFormed)
      BY <1>3 DEF AllocationInv, RulesWorking, Busy
    <2>2. DOMAIN allocator.read = 1..Len(allocator.read) /\ Len(allocator.read) \in Nat
            /\ Len(allocator.read) <= Len(rules)
      BY <1>3, <2>1 DEF AllocationInv, RulesWorking
    <2> QED BY <1>1, <1>3, <2>2 DEF AllocationInv, RulesWorking, Rules!RecentMonths
  <1> QED BY <1>2, <1>3

-----------------------------------------------------------------------------
LEMMA CheckInv ==
    ASSUME AllocationAssumption, AllocationInv, NEW e \in Allocators, NEW r \in Rules!Rule, Rules!Check(e, r)
    PROVE  AllocationInv'
  <1>1. adding' \in [Allocators -> Rules!Rule \cup {Rules!Nothing}]
          /\ UNCHANGED <<rules, portions, allocator, imported, now>>
    BY DEF Rules!Check, AllocationInv, Added
  <1> QED BY <1>1 DEF AllocationInv, Ruled, Placed, Added, RulesWorking, Clock, Rules!RecentMonths

LEMMA SaveIs ==
    ASSUME AllocationAssumption, AllocationInv, NEW e \in Allocators, Rules!Save(e)
    PROVE  /\ adding[e] \in Rules!Rule /\ rules' \in Seq(WellFormed) /\ Len(rules') = Len(rules) + 1 /\ Len(rules') <= MaxRules
           /\ \A i \in DOMAIN rules : rules'[i] = rules[i]
           /\ rules'[Len(rules')] = adding[e]
           /\ \E answered \in SUBSET Origins : portions' = Rules!Allocated(rules', adding[e].project, answered)
           /\ adding' = [adding EXCEPT ![e] = Rules!Nothing] /\ UNCHANGED <<allocator, imported, now>>
  <1>1. adding[e] \in Rules!Rule /\ Len(rules) < MaxRules /\ rules' = Append(rules, adding[e])
        /\ (\E answered \in SUBSET Origins : portions' = Rules!Allocated(rules', adding[e].project, answered))
        /\ adding' = [adding EXCEPT ![e] = Rules!Nothing] /\ UNCHANGED <<allocator, imported, now>>
    BY DEF Rules!Save, AllocationInv, Added
  <1>2. adding[e] \in WellFormed
    BY <1>1, RuleIs
  <1>3. rules \in Seq(WellFormed) /\ Len(rules) \in Nat /\ DOMAIN rules = 1..Len(rules)
    BY DEF AllocationInv, Ruled
  <1>4. rules' \in Seq(WellFormed) /\ Len(rules') = Len(rules) + 1
        /\ (\A i \in 1..Len(rules) : rules'[i] = rules[i]) /\ rules'[Len(rules) + 1] = adding[e]
    BY <1>1, <1>2, <1>3, AppendProperties
  <1> QED BY <1>1, <1>3, <1>4 DEF AllocationAssumption

LEMMA SaveInv ==
    ASSUME AllocationAssumption, AllocationInv, NEW e \in Allocators, Rules!Save(e)
    PROVE  AllocationInv'
  <1>1. /\ rules' \in Seq(WellFormed) /\ Len(rules') <= MaxRules /\ Len(rules') = Len(rules) + 1
        /\ \A i \in DOMAIN rules : rules'[i].start = rules[i].start
        /\ \E answered \in SUBSET Origins : portions' = Rules!Allocated(rules', adding[e].project, answered)
        /\ adding' = [adding EXCEPT ![e] = Rules!Nothing] /\ UNCHANGED <<allocator, imported, now>>
    BY SaveIs
  <1>2. Len(rules) <= Len(rules')
    BY <1>1 DEF AllocationInv, Ruled
  <1>3. Ruled' /\ Placed' /\ RulesWorking'
    BY <1>1, <1>2, RowsAfter, WorkingAfter
  <1>4. Added'
    BY <1>1 DEF AllocationInv, Added
  <1> QED BY <1>1, <1>3, <1>4 DEF AllocationInv, Clock

LEMMA RetireIs ==
    ASSUME AllocationAssumption, AllocationInv, NEW i \in DOMAIN rules, Rules!Retire(i)
    PROVE  \E s \in WellFormed :
             /\ s.project = rules[i].project /\ s.kind = rules[i].kind /\ s.accounts = rules[i].accounts
                /\ s.key = rules[i].key
             /\ s.values = rules[i].values /\ s.start = rules[i].start /\ s.end <= rules[i].end
             /\ rules[i].active /\ (rules[i].start < Rules!First(now) => s.active)
             /\ rules' \in Seq(WellFormed) /\ Len(rules') = Len(rules) /\ rules'[i] = s
             /\ \A j \in DOMAIN rules : j # i => rules'[j] = rules[j]
             /\ \E answered \in SUBSET Origins : portions' = Rules!Allocated(rules', rules[i].project, answered)
             /\ UNCHANGED <<adding, allocator, imported, now>>
  <1>1. /\ rules[i].active /\ rules[i].end = Rules!Forever
           /\ rules' = [rules EXCEPT ![i] = Rules!Retired(rules[i])]
        /\ (\E answered \in SUBSET Origins : portions' = Rules!Allocated(rules', rules[i].project, answered))
        /\ UNCHANGED <<adding, allocator, imported, now>>
    BY DEF Rules!Retire
  <1>2. rules \in Seq(WellFormed) /\ DOMAIN rules = 1..Len(rules) /\ rules[i] \in WellFormed
    BY DEF AllocationInv, Ruled
  <1>3. PICK s \in WellFormed :
             /\ s = Rules!Retired(rules[i])
             /\ s.project = rules[i].project /\ s.kind = rules[i].kind /\ s.accounts = rules[i].accounts
                /\ s.key = rules[i].key
             /\ s.values = rules[i].values /\ s.start = rules[i].start /\ s.end <= rules[i].end
             /\ rules[i].start < Rules!First(now) => s.active
    BY <1>1, <1>2, RetiredIs DEF AllocationInv
  <1>4. rules' \in Seq(WellFormed) /\ Len(rules') = Len(rules)
        /\ \A j \in 1..Len(rules) : rules'[j] = IF j = i THEN s ELSE rules[j]
    BY <1>1, <1>2, <1>3, ExceptSeq
  <1>5. rules'[i] = s /\ \A j \in DOMAIN rules : j # i => rules'[j] = rules[j]
    BY <1>2, <1>4
  <1> QED BY <1>1, <1>3, <1>4, <1>5

LEMMA RetireInv ==
    ASSUME AllocationAssumption, AllocationInv, NEW i \in DOMAIN rules, Rules!Retire(i)
    PROVE  AllocationInv'
  <1>1. PICK s \in WellFormed :
             /\ s.start = rules[i].start
             /\ rules' \in Seq(WellFormed) /\ Len(rules') = Len(rules) /\ rules'[i] = s
             /\ \A j \in DOMAIN rules : j # i => rules'[j] = rules[j]
             /\ \E answered \in SUBSET Origins : portions' = Rules!Allocated(rules', rules[i].project, answered)
             /\ UNCHANGED <<adding, allocator, imported, now>>
    BY RetireIs
  <1>2. (\A j \in DOMAIN rules : rules'[j].start = rules[j].start) /\ Len(rules') <= MaxRules
          /\ Len(rules) <= Len(rules')
    BY <1>1 DEF AllocationInv, Ruled
  <1>3. Ruled' /\ Placed' /\ RulesWorking'
    BY <1>1, <1>2, RowsAfter, WorkingAfter
  <1> QED BY <1>1, <1>3 DEF AllocationInv, Added, Clock

LEMMA RulesBeginInv ==
    ASSUME AllocationAssumption, AllocationInv, NEW p \in Projects, Rules!AllocateProject(p)
    PROVE  AllocationInv'
  <1> DEFINE x == [kind |-> "busy", project |-> p, read |-> rules, left |-> Rules!Reached(rules, p) \X Rules!RecentMonths]
  <1>1. allocator' = x /\ UNCHANGED <<rules, portions, adding, imported, now>>
    BY DEF Rules!AllocateProject
  <1>2. Rules!Reached(rules, p) \subseteq DOMAIN rules
    BY DEF Rules!Reached, Rules!OfProject
  <1>3. rules \in Seq(WellFormed) /\ DOMAIN rules \subseteq 1..MaxRules
    BY DEF AllocationInv, Ruled, AllocationAssumption
  <1>4. Rules!Reached(rules, p) \X Rules!RecentMonths \in SUBSET ((1..MaxRules) \X Rules!Months)
    BY <1>2, <1>3 DEF Rules!RecentMonths
  <1>5. x \in Busy /\ x.read = rules /\ \A y \in x.left : y[1] \in DOMAIN rules /\ y[2] \in Rules!RecentMonths
    BY <1>2, <1>3, <1>4 DEF Busy
  <1> HIDE DEF x
  <1>6. Len(rules) <= Len(rules)
    BY <1>3
  <1>7. RulesWorking'
    BY <1>1, <1>5, <1>6 DEF RulesWorking, Rules!RecentMonths
  <1> QED BY <1>1, <1>7 DEF AllocationInv, Ruled, Placed, Added, Clock

\* A month the worker recomputes: the rows it leaves.
LEMMA MonthIs ==
    ASSUME AllocationAssumption, AllocationInv, Rules!AllocateMonth
    PROVE  /\ allocator # Rules!Idle
           /\ \E y \in allocator.left, answered \in SUBSET Origins :
                /\ y[1] \in DOMAIN allocator.read /\ y[1] \in DOMAIN rules /\ y[1] \in 1..MaxRules
                   /\ y[2] \in Int /\ Recent(y[2])
                /\ allocator.read[y[1]] \in WellFormed /\ allocator.read[y[1]].start = rules[y[1]].start
                /\ portions' = Rules!Recomputed(portions, rules, y[1], allocator.read[y[1]], y[2], answered)
                /\ allocator' = [allocator EXCEPT !.left = allocator.left \ {y}]
           /\ UNCHANGED <<rules, adding, imported, now>>
  <1>1. allocator # Rules!Idle
    BY DEF Rules!AllocateMonth
  <1>2. PICK y \in allocator.left : \E answered \in SUBSET Origins :
          /\ portions' = Rules!Recomputed(portions, rules, y[1], allocator.read[y[1]], y[2], answered)
          /\ allocator' = [allocator EXCEPT !.left = allocator.left \ {y}]
    BY DEF Rules!AllocateMonth
  <1>3. y[1] \in DOMAIN allocator.read /\ y[2] \in Rules!RecentMonths
    BY <1>1 DEF AllocationInv, RulesWorking
  <1>4. allocator.read \in Seq(WellFormed) /\ allocator.read[y[1]] \in WellFormed
          /\ allocator.read[y[1]].start = rules[y[1]].start
    BY <1>1, <1>3 DEF AllocationInv, RulesWorking, Busy
  <1>5. rules \in Seq(WellFormed) /\ Len(rules) <= MaxRules /\ Len(allocator.read) <= Len(rules)
    BY <1>1 DEF AllocationInv, Ruled, RulesWorking
  <1>6. y[1] \in DOMAIN rules /\ y[1] \in 1..MaxRules
    BY <1>3, <1>4, <1>5 DEF AllocationAssumption
  <1>7. y[2] \in Int /\ Recent(y[2])
    BY <1>3 DEF Rules!RecentMonths, Rules!Months, Recent
  <1> QED BY <1>1, <1>2, <1>3, <1>4, <1>6, <1>7 DEF Rules!AllocateMonth

LEMMA MonthInv == ASSUME AllocationAssumption, AllocationInv, Rules!AllocateMonth PROVE AllocationInv'
  <1>1. PICK y \in allocator.left : \E answered \in SUBSET Origins :
                /\ y[1] \in DOMAIN rules /\ y[1] \in 1..MaxRules /\ y[2] \in Int /\ Recent(y[2])
                /\ allocator.read[y[1]] \in WellFormed /\ allocator.read[y[1]].start = rules[y[1]].start
                /\ portions' = Rules!Recomputed(portions, rules, y[1], allocator.read[y[1]], y[2], answered)
                /\ allocator' = [allocator EXCEPT !.left = allocator.left \ {y}]
    BY MonthIs
  <1>2. allocator # Rules!Idle /\ allocator \in Busy /\ UNCHANGED <<rules, adding, imported, now>>
    BY MonthIs DEF AllocationInv, RulesWorking
  <1>3. ASSUME NEW x \in portions'
        PROVE  x \in Rules!Row /\ x.rule \in DOMAIN rules /\ rules[x.rule].start <= x.day
    <2>1. CASE x \in portions
      BY <2>1 DEF AllocationInv, Placed
    <2>2. CASE x \notin portions
      <3> DEFINE r == allocator.read[y[1]]
      <3>1. r \in WellFormed /\ y[2] \in Int
        BY <1>1
      <3>2. x \in [rule : {y[1]}, day : Rules!Window(r, y[2]), account : Members]
        BY <1>1, <2>2, <3>1, RecomputedIs
      <3>3. x \in Rules!Row /\ x.rule = y[1] /\ r.start <= x.day
        BY <1>1, <3>1, <3>2, RulesNewRowIs DEF AllocationInv
      <3> QED BY <1>1, <3>3
    <2> QED BY <2>1, <2>2
  <1> DEFINE w == [allocator EXCEPT !.left = allocator.left \ {y}]
  <1>4. w \in Busy /\ w.read = allocator.read /\ w.left \subseteq allocator.left /\ w = allocator'
    BY <1>1, <1>2 DEF Busy
  <1> HIDE DEF w
  <1>5. RulesWorking'
    BY <1>2, <1>4 DEF AllocationInv, RulesWorking, Rules!RecentMonths
  <1> QED BY <1>2, <1>3, <1>5 DEF AllocationInv, Ruled, Placed, Added, Clock

LEMMA EndsInv == ASSUME AllocationAssumption, AllocationInv, Rules!AllocateEnds PROVE AllocationInv'
  <1>1. portions' \subseteq portions /\ allocator' = Rules!Idle /\ UNCHANGED <<rules, adding, imported, now>>
    BY DEF Rules!AllocateEnds
  <1> QED BY <1>1 DEF AllocationInv, Ruled, Placed, Added, RulesWorking, Clock

LEMMA AllocationNext ==
    ASSUME AllocationAssumption, AllocationInv, [Rules!Next]_(Rules!vars)
    PROVE  AllocationInv'
  <1>1. CASE Rules!Import
    BY <1>1 DEF Rules!Import, AllocationInv, Ruled, Placed, Added, RulesWorking, Clock, Rules!RecentMonths
  <1>2. CASE Rules!NextMonth
    <2>1. allocator = Rules!Idle /\ allocator' = Rules!Idle /\ now' \in Rules!Months /\ now' >= 1
            /\ UNCHANGED <<rules, portions, adding, imported>>
      BY <1>2 DEF Rules!NextMonth, AllocationInv, Clock, Rules!Months, AllocationAssumption
    <2> QED BY <2>1 DEF AllocationInv, Ruled, Placed, Added, RulesWorking, Clock
  <1>3. CASE UNCHANGED Rules!vars
    BY <1>3 DEF Rules!vars, AllocationInv, Ruled, Placed, Added, RulesWorking, Clock, Rules!RecentMonths
  <1> QED BY <1>1, <1>2, <1>3, CheckInv, SaveInv, RetireInv, RulesBeginInv, MonthInv, EndsInv DEF Rules!Next

LEMMA AllocationInvariance == ASSUME AllocationAssumption PROVE Rules!Spec => []AllocationInv
  BY AllocationInit, AllocationNext, PTL DEF Rules!Spec

-----------------------------------------------------------------------------
\* A recomputation takes nothing an active rule was given before the previous month.
LEMMA RulesHistoryStep ==
    ASSUME AllocationAssumption, AllocationInv, [Rules!Next]_(Rules!vars)
    PROVE  Rules!HistoryIsKept
  <1> SUFFICES ASSUME NEW x \in portions, x.day < Rules!First(now - 1),
                      rules[x.rule].active PROVE x \in portions'
    BY DEF Rules!HistoryIsKept
  <1>1. x.rule \in DOMAIN rules /\ rules[x.rule].start <= x.day /\ x.day \in Int
    BY DEF AllocationInv, Placed, Rules!Row, Rules!Days
  <1>2. now \in Int /\ x.day < Rules!First(now)
    BY <1>1 DEF AllocationInv, Clock, Rules!Months, Rules!First
  <1>3. ASSUME NEW e \in Allocators, Rules!Save(e) PROVE x \in portions'
    <2>1. PICK answered \in SUBSET Origins : portions' = Rules!Allocated(rules', adding[e].project, answered)
      BY <1>3, SaveIs
    <2>2. rules' \in Seq(WellFormed) /\ rules'[x.rule].active
      BY <1>1, <1>3, SaveIs
    <2> QED BY <1>1, <2>1, <2>2, AllocatedKeeps DEF AllocationInv
  <1>4. ASSUME NEW i \in DOMAIN rules, Rules!Retire(i) PROVE x \in portions'
    <2>1. PICK s \in WellFormed :
             /\ s.start = rules[i].start /\ (rules[i].start < Rules!First(now) => s.active)
             /\ rules' \in Seq(WellFormed) /\ rules'[i] = s
             /\ \A j \in DOMAIN rules : j # i => rules'[j] = rules[j]
             /\ \E answered \in SUBSET Origins : portions' = Rules!Allocated(rules', rules[i].project, answered)
      BY <1>4, RetireIs
    <2>2. rules'[x.rule].active
      <3>1. CASE x.rule = i
        <4>1. rules[i] \in WellFormed
          BY DEF AllocationInv, Ruled
        <4>2. rules[i].start \in Nat
          BY <4>1, WellFormedIs
        <4>3. rules[i].start < Rules!First(now)
          BY <1>1, <1>2, <3>1, <4>2 DEF Rules!First
        <4> QED BY <2>1, <3>1, <4>3
      <3>2. CASE x.rule # i
        BY <1>1, <2>1, <3>2
      <3> QED BY <3>1, <3>2
    <2> QED BY <1>1, <2>1, <2>2, AllocatedKeeps DEF AllocationInv
  <1>5. CASE Rules!AllocateMonth
    <2>1. PICK y \in allocator.left : \E answered \in SUBSET Origins :
                /\ y[2] \in Int /\ Recent(y[2]) /\ allocator.read[y[1]] \in WellFormed
                /\ portions' = Rules!Recomputed(portions, rules, y[1], allocator.read[y[1]], y[2], answered)
      BY <1>5, MonthIs
    <2>2. x.day < Rules!First(y[2])
      BY <1>1, <1>2, <2>1 DEF Recent, Rules!First
    <2> DEFINE r == allocator.read[y[1]]
    <2>3. r \in WellFormed
      BY <2>1
    <2> QED BY <1>1, <2>1, <2>2, <2>3, RecomputedKeeps
  <1>6. CASE Rules!AllocateEnds
    BY <1>6 DEF Rules!AllocateEnds
  <1>7. CASE portions' = portions
    BY <1>7
  <1> QED BY <1>3, <1>4, <1>5, <1>6, <1>7 DEF Rules!Next, Rules!Check, Rules!AllocateProject,
       Rules!Import, Rules!NextMonth, Rules!vars

-----------------------------------------------------------------------------
\* With one editor, what was checked against the rules stored is still right when it is saved.
Apart ==
    \A i, j \in DOMAIN rules :
      i < j /\ rules[i].active /\ rules[j].active
          /\ Rules!OverlappingDates(rules[i], rules[j]) => ~Rules!Conflict(rules[i], rules[j])
Checked == \A e \in Allocators : adding[e] # Rules!Nothing => Rules!Valid(adding[e])
OneEditor == \A e, f \in Allocators : e = f

DisjointInv == AllocationInv /\ Apart /\ Checked

LEMMA ConflictIsMutual ==
    \A a, b : (Rules!Conflict(a, b) <=> Rules!Conflict(b, a))
        /\ (Rules!OverlappingDates(a, b) <=> Rules!OverlappingDates(b, a))
  BY DEF Rules!Conflict, Rules!SameScope, Rules!Shared, Rules!OverlappingDates

LEMMA DisjointInit == ASSUME AllocationAssumption, Rules!Init PROVE DisjointInv
  <1>1. rules = <<>> /\ adding = [e \in Allocators |-> Rules!Nothing]
    BY DEF Rules!Init
  <1>2. DOMAIN rules = {}
    BY <1>1
  <1> QED BY <1>1, <1>2, AllocationInit DEF DisjointInv, Apart, Checked

LEMMA SaveApart ==
    ASSUME AllocationAssumption, OneEditor, DisjointInv, NEW e \in Allocators, Rules!Save(e)
    PROVE  Apart' /\ Checked'
  <1> DEFINE r == adding[e]
             n == Len(rules')
  <1>1. /\ r \in Rules!Rule /\ rules' \in Seq(WellFormed) /\ n = Len(rules) + 1
        /\ \A i \in DOMAIN rules : rules'[i] = rules[i]
        /\ rules'[n] = r
        /\ adding' = [adding EXCEPT ![e] = Rules!Nothing]
    BY SaveIs DEF DisjointInv
  <1>2. Rules!Valid(r)
    BY DEF DisjointInv, Checked, Rules!Save
  <1>3. DOMAIN rules = 1..Len(rules) /\ Len(rules) \in Nat /\ DOMAIN rules' = 1..n
    BY <1>1 DEF DisjointInv, AllocationInv, Ruled
  <1> HIDE DEF r, n
  <1>4. ASSUME NEW i \in DOMAIN rules', NEW j \in DOMAIN rules', i < j, rules'[i].active, rules'[j].active,
               Rules!OverlappingDates(rules'[i], rules'[j])
        PROVE  ~Rules!Conflict(rules'[i], rules'[j])
    <2>1. i \in DOMAIN rules
      BY <1>1, <1>3, <1>4
    <2>2. CASE j \in DOMAIN rules
      <3>1. rules'[i] = rules[i] /\ rules'[j] = rules[j]
        BY <1>1, <2>1, <2>2
      <3> QED BY <1>4, <2>1, <2>2, <3>1 DEF DisjointInv, Apart
    <2>3. CASE j \notin DOMAIN rules
      <3>1. j = n
        BY <1>1, <1>3, <2>3
      <3>2. rules'[i] = rules[i] /\ rules'[j] = r
        BY <1>1, <2>1, <3>1
      <3> QED BY <1>2, <1>4, <2>1, <3>2, ConflictIsMutual DEF Rules!Valid
    <2> QED BY <2>2, <2>3
  <1>5. \A f \in Allocators : adding'[f] = Rules!Nothing
    BY <1>1 DEF OneEditor, DisjointInv, AllocationInv, Added
  <1> QED BY <1>4, <1>5 DEF Apart, Checked

LEMMA RetireApart ==
    ASSUME AllocationAssumption, DisjointInv, NEW k \in DOMAIN rules, Rules!Retire(k)
    PROVE  Apart' /\ Checked'
  <1>1. PICK s \in WellFormed :
             /\ s.kind = rules[k].kind /\ s.accounts = rules[k].accounts /\ s.key = rules[k].key
             /\ s.values = rules[k].values /\ s.start = rules[k].start /\ s.end <= rules[k].end
                /\ rules[k].active
             /\ rules' \in Seq(WellFormed) /\ Len(rules') = Len(rules) /\ rules'[k] = s
             /\ \A j \in DOMAIN rules : j # k => rules'[j] = rules[j]
             /\ UNCHANGED <<adding, allocator, imported, now>>
    BY RetireIs DEF DisjointInv
  <1>2. DOMAIN rules' = DOMAIN rules /\ \A i \in DOMAIN rules : rules[i] \in WellFormed
    BY <1>1 DEF DisjointInv, AllocationInv, Ruled
  <1>3. \A i \in DOMAIN rules :
          /\ rules'[i].kind = rules[i].kind /\ rules'[i].accounts = rules[i].accounts
             /\ rules'[i].key = rules[i].key
          /\ rules'[i].values = rules[i].values /\ rules'[i].start = rules[i].start
          /\ rules'[i].end \in Nat /\ rules[i].end \in Nat /\ rules'[i].end <= rules[i].end
          /\ (rules'[i].active => rules[i].active)
    <2> SUFFICES ASSUME NEW i \in DOMAIN rules
                 PROVE  /\ rules'[i].kind = rules[i].kind /\ rules'[i].accounts = rules[i].accounts
                        /\ rules'[i].key = rules[i].key
                        /\ rules'[i].values = rules[i].values /\ rules'[i].start = rules[i].start
                        /\ rules'[i].end \in Nat /\ rules[i].end \in Nat /\ rules'[i].end <= rules[i].end
                        /\ (rules'[i].active => rules[i].active)
      OBVIOUS
    <2>1. rules[i].end \in Nat /\ s.end \in Nat
      BY <1>2, WellFormedIs
    <2>2. CASE i = k
      BY <1>1, <2>1, <2>2
    <2>3. CASE i # k
      BY <1>1, <2>1, <2>3
    <2> QED BY <2>2, <2>3
  <1>4. \A i \in DOMAIN rules : \A b :
          /\ Rules!Conflict(b, rules'[i]) <=> Rules!Conflict(b, rules[i])
          /\ Rules!Conflict(rules'[i], b) <=> Rules!Conflict(rules[i], b)
    BY <1>3 DEF Rules!Conflict, Rules!SameScope, Rules!Shared, Rules!UsesAccounts
  <1>5. ASSUME NEW i \in DOMAIN rules, NEW j \in DOMAIN rules, i < j, rules'[i].active, rules'[j].active,
               Rules!OverlappingDates(rules'[i], rules'[j])
        PROVE  ~Rules!Conflict(rules'[i], rules'[j])
    <2>1. rules[i].start \in Nat /\ rules[j].start \in Nat
      BY <1>2, WellFormedIs
    <2>2. Rules!OverlappingDates(rules[i], rules[j])
      BY <1>3, <1>5, <2>1 DEF Rules!OverlappingDates
    <2>3. ~Rules!Conflict(rules[i], rules[j])
      BY <1>3, <1>5, <2>2 DEF DisjointInv, Apart
    <2> QED BY <1>4, <2>3
  <1>6. ASSUME NEW e \in Allocators, adding[e] # Rules!Nothing PROVE Rules!Valid(adding[e])'
    <2> DEFINE r == adding[e]
    <2>1. r \in WellFormed /\ Rules!Valid(r)
      BY <1>6, RuleIs DEF DisjointInv, AllocationInv, Added, Checked
    <2> HIDE DEF r
    <2>2. ASSUME NEW i \in DOMAIN rules, rules'[i].active, Rules!OverlappingDates(r, rules'[i])
          PROVE  ~Rules!Conflict(r, rules'[i])
      <3>1. rules[i].start \in Nat /\ r.start \in Nat
        BY <1>2, <2>1, WellFormedIs
      <3>2. Rules!OverlappingDates(r, rules[i])
        BY <1>3, <2>2, <3>1 DEF Rules!OverlappingDates
      <3> QED BY <1>3, <1>4, <2>1, <2>2, <3>2 DEF Rules!Valid
    <2>3. adding'[e] = r
      BY <1>1 DEF r
    <2> QED BY <1>2, <2>2, <2>3 DEF Rules!Valid
  <1> QED BY <1>1, <1>2, <1>5, <1>6 DEF Apart, Checked

LEMMA DisjointNext ==
    ASSUME AllocationAssumption, OneEditor, DisjointInv, [Rules!Next]_(Rules!vars)
    PROVE  DisjointInv'
  <1>1. AllocationInv'
    BY AllocationNext DEF DisjointInv
  <1>2. ASSUME NEW e \in Allocators, NEW r \in Rules!Rule, Rules!Check(e, r) PROVE Apart' /\ Checked'
    <2>1. Rules!Valid(r) /\ adding' = [adding EXCEPT ![e] = r] /\ rules' = rules
      BY <1>2 DEF Rules!Check
    <2>2. \A f \in Allocators : adding'[f] = r
      BY <2>1 DEF OneEditor, DisjointInv, AllocationInv, Added
    <2> QED BY <2>1, <2>2 DEF DisjointInv, Apart, Checked, Rules!Valid
  <1>3. ASSUME UNCHANGED <<rules, adding>> PROVE Apart' /\ Checked'
    <2>1. rules' = rules /\ adding' = adding
      BY <1>3
    <2>2. Apart'
      BY <2>1 DEF DisjointInv, Apart
    <2>3. Checked'
      BY <2>1 DEF DisjointInv, Checked, Rules!Valid
    <2> QED BY <1>3, <2>2, <2>3
  <1>4. (Rules!AllocateMonth \/ Rules!AllocateEnds \/ Rules!Import \/ Rules!NextMonth) => UNCHANGED <<rules, adding>>
    BY DEF Rules!AllocateMonth, Rules!AllocateEnds, Rules!Import, Rules!NextMonth
  <1>5. (UNCHANGED Rules!vars \/ \E p \in Projects : Rules!AllocateProject(p)) => UNCHANGED <<rules, adding>>
    BY DEF Rules!AllocateProject, Rules!vars
  <1>6. Apart' /\ Checked'
    BY <1>2, <1>3, <1>4, <1>5, SaveApart, RetireApart DEF Rules!Next
  <1> QED BY <1>1, <1>6 DEF DisjointInv

\* Rules by account and by tag that do not conflict select no spend in common.
ByAccountAndTag == Criteria \subseteq {"accounts", "tag", "account_tag"}

LEMMA ApartMeans ==
    ASSUME AllocationAssumption, ByAccountAndTag, DisjointInv
    PROVE  Rules!RulesAreDisjoint
  <1> SUFFICES ASSUME NEW i \in DOMAIN rules, NEW j \in DOMAIN rules, i < j, rules[i].active, rules[j].active,
                      Rules!OverlappingDates(rules[i], rules[j])
               PROVE  \/ Rules!LeavesOut(rules[i], rules[j])
                      \/ Rules!ScopeOf(rules[i]) \cap Rules!ScopeOf(rules[j]) = {}
                      \/ ~Rules!SelectsSame(rules[i], rules[j])
    BY DEF Rules!RulesAreDisjoint
  <1> DEFINE a == rules[i]
             b == rules[j]
  <1>1. a \in WellFormed /\ b \in WellFormed
    BY DEF DisjointInv, AllocationInv, Ruled
  <1>2. ~Rules!Conflict(a, b)
    BY DEF DisjointInv, Apart
  <1> HIDE DEF a, b
  <1>3. a.kind \in {"accounts", "tag", "account_tag"} /\ b.kind \in {"accounts", "tag", "account_tag"}
    BY <1>1, WellFormedIs DEF ByAccountAndTag
  <1>4. CASE "accounts" \in {a.kind, b.kind}
    <2>1. a.accounts \cap b.accounts = {}
      BY <1>2, <1>4 DEF Rules!Conflict, Rules!Shared
    <2>2. CASE Rules!UsesAccounts(a) /\ Rules!UsesAccounts(b)
      BY <2>1, <2>2 DEF Rules!ScopeOf, a, b
    <2>3. CASE ~(Rules!UsesAccounts(a) /\ Rules!UsesAccounts(b))
      BY <1>4, <2>3 DEF Rules!LeavesOut, Rules!UsesAccounts, a, b
    <2> QED BY <2>2, <2>3
  <1>5. CASE "accounts" \notin {a.kind, b.kind}
    <2>1. ~Rules!SameScope(a, b) \/ (a.key = b.key /\ a.values \cap b.values = {})
      BY <1>2, <1>5 DEF Rules!Conflict
    <2>2. CASE ~Rules!SameScope(a, b)
      BY <2>2 DEF Rules!SameScope, Rules!Shared, Rules!ScopeOf, a, b
    <2>3. CASE a.key = b.key /\ a.values \cap b.values = {}
      <3>1. Rules!Dimension(a) = Rules!Dimension(b)
        BY <1>3, <2>3 DEF Rules!Dimension
      <3>2. ~Rules!SelectsSame(a, b)
        BY <1>5, <2>3, <3>1 DEF Rules!SelectsSame
      <3> QED BY <3>2 DEF a, b
    <2> QED BY <2>1, <2>2, <2>3
  <1> QED BY <1>4, <1>5

LEMMA DisjointInvariance == ASSUME AllocationAssumption, OneEditor PROVE Rules!Spec => []DisjointInv
  BY DisjointInit, DisjointNext, PTL DEF Rules!Spec

THEOREM AllocationsKept ==
    ASSUME AllocationAssumption
    PROVE  Rules!Spec => []Rules!TypeOK /\ [][Rules!HistoryIsKept]_(Rules!vars)
  <1>1. AllocationInv => Rules!TypeOK
    BY AllocationTypes
  <1>2. AllocationInv /\ [Rules!Next]_(Rules!vars) => [Rules!HistoryIsKept]_(Rules!vars)
    BY RulesHistoryStep
  <1> QED BY <1>1, <1>2, AllocationInvariance, PTL DEF Rules!Spec

THEOREM RulesDisjoint ==
    ASSUME AllocationAssumption, OneEditor, ByAccountAndTag
    PROVE  Rules!Spec => []Rules!RulesAreDisjoint
  <1>1. DisjointInv => Rules!RulesAreDisjoint
    BY ApartMeans
  <1> QED BY <1>1, DisjointInvariance, PTL

-----------------------------------------------------------------------------
(* The handoff to the alliance.                                             *)

\* What a post has read is of the latest imports as long as its locks hold every connection
\* with costs of the account: no other can publish.  The reporting month may end meanwhile;
\* what was read before is not complete.
ReadRight(x) ==
    /\ x.at \in {"locked", "read"} => x.form \in Handoff!Forms
    /\ x.at = "read" =>
         /\ x.totals.state \in Handoff!States
         /\ Handoff!KnownSources \subseteq x.locks =>
              /\ x.totals.current = Handoff!Value(Handoff!Month)
                 /\ x.totals.prior = Handoff!Value(Handoff!Prior)
              /\ x.totals = Handoff!Totals \/ x.totals.state # "Complete"

Pages == screen = [e \in Recorders |-> screen[e]]
\* One request at a time holds the customer.
OneRequest ==
    /\ \A e, o \in Recorders : Handoff!InRequest(e) /\ Handoff!InRequest(o) => e = o
    /\ \A e \in Recorders : Handoff!InRequest(e) => handoff.revision < MaxRevisions
HandoffInv == Handoff!TypeOK /\ Pages /\ OneRequest /\ \A e \in Recorders : ReadRight(screen[e])

LEMMA HandoffInit == ASSUME MaxImports \in Nat, MaxRevisions \in Nat, Handoff!Init PROVE HandoffInv
  <1>1. facts \in [Sources -> [Handoff!Months -> Handoff!Figures \cup {Handoff!NoFacts}]]
    BY DEF Handoff!Init
  <1>2. period \in [Sources -> [Handoff!Months -> [status : {"pending", "complete", "partial"}, whole : BOOLEAN, estimated : BOOLEAN]]]
    BY DEF Handoff!Init
  <1>3. /\ handoff.snapshot = Handoff!NoSnapshot
        /\ handoff.revision \in 0..MaxRevisions /\ handoff.marked \in BOOLEAN /\ handoff.shared \in BOOLEAN
    BY DEF Handoff!Init
  <1>4. imports \in 0..MaxImports
    BY DEF Handoff!Init
  <1>8. ended \in BOOLEAN
    BY DEF Handoff!Init
  <1>a. Handoff!Away.at = "away"
    BY DEF Handoff!Away
  <1>b. \A e \in Recorders : screen[e].at = "away"
    BY <1>a DEF Handoff!Init
  <1>5. Handoff!TypeOK
    BY <1>1, <1>2, <1>3, <1>4, <1>8, <1>b DEF Handoff!TypeOK
  <1>6. OneRequest /\ \A e \in Recorders : ReadRight(screen[e])
    BY <1>b DEF OneRequest, Handoff!InRequest, ReadRight
  <1>7. Pages
    BY DEF Handoff!Init, Pages
  <1> QED BY <1>5, <1>6, <1>7 DEF HandoffInv

\* The figures depend on the costs, the collections and the month only.
LEMMA FiguresSame ==
    ASSUME UNCHANGED <<facts, period, ended>>
    PROVE  Handoff!Totals' = Handoff!Totals /\ Handoff!KnownSources' = Handoff!KnownSources
             /\ Handoff!Value(Handoff!Month)' = Handoff!Value(Handoff!Month)
                /\ Handoff!Value(Handoff!Prior)' = Handoff!Value(Handoff!Prior)
  BY DEF Handoff!Totals, Handoff!State, Handoff!Covered, Handoff!Estimated, Handoff!Behind,
       Handoff!Collecting, Handoff!Running, Handoff!Value, Handoff!AmountOf, Handoff!Amount,
       Handoff!KnownSources

LEMMA StatesAre == \A m : Handoff!State(m) \in Handoff!States
  BY DEF Handoff!State, Handoff!States

LEMMA TotalsAre ==
    /\ Handoff!Totals.current = Handoff!Value(Handoff!Month)
       /\ Handoff!Totals.prior = Handoff!Value(Handoff!Prior)
    /\ Handoff!Totals.state = Handoff!State(Handoff!Month)
       /\ Handoff!Totals.priorState = Handoff!State(Handoff!Prior)
  BY DEF Handoff!Totals

\* A snapshot has the totals and the states it was made of.
LEMMA SnapshotIs ==
    ASSUME NEW t
    PROVE  Handoff!Snapshot(t).current = t.current /\ Handoff!Snapshot(t).prior = t.prior
             /\ Handoff!Snapshot(t).state = t.state
  BY DEF Handoff!Snapshot

LEMMA HandoffPageInv ==
    ASSUME HandoffInv, UNCHANGED <<facts, period, imports, ended>>, NEW e \in Recorders, NEW x,
           screen' = [screen EXCEPT ![e] = x],
           x.at \in {"away", "open", "locked", "read"}, ReadRight(x),
           handoff'.snapshot = Handoff!NoSnapshot \/ handoff'.snapshot.state \in Handoff!States,
           handoff'.revision \in 0..MaxRevisions, handoff'.marked \in BOOLEAN, handoff'.shared \in BOOLEAN,
           x.at \in {"locked", "read"} => handoff'.revision < MaxRevisions
               /\ \A o \in Recorders : Handoff!InRequest(o) => o = e,
           handoff'.revision = handoff.revision \/ \A o \in Recorders : Handoff!InRequest(o) => o = e
    PROVE  HandoffInv'
  <1>1. Pages
    BY DEF HandoffInv
  <1>2. Pages' /\ screen'[e] = x /\ \A g \in Recorders : g # e => screen'[g] = screen[g]
    BY <1>1 DEF Pages
  <1>3. \A g \in Recorders : screen'[g].at \in {"away", "open", "locked", "read"}
    BY <1>2 DEF HandoffInv, Handoff!TypeOK
  <1>4. \A g \in Recorders : ReadRight(screen[g])
    BY DEF HandoffInv
  <1>5. \A g \in Recorders : ReadRight(screen[g])'
    <2> SUFFICES ASSUME NEW g \in Recorders PROVE ReadRight(screen[g])'
      OBVIOUS
    <2>1. CASE g = e
      BY <1>2, <2>1, FiguresSame DEF ReadRight
    <2>2. CASE g # e
      BY <1>2, <1>4, <2>2, FiguresSame DEF ReadRight
    <2> QED BY <2>1, <2>2
  <1>6. Handoff!TypeOK'
    BY <1>3 DEF HandoffInv, Handoff!TypeOK
  <1>7. OneRequest'
    <2>1. \A g \in Recorders : g # e => (Handoff!InRequest(g)' <=> Handoff!InRequest(g))
      BY <1>2 DEF Handoff!InRequest
    <2>2. Handoff!InRequest(e)' <=> x.at \in {"locked", "read"}
      BY <1>2 DEF Handoff!InRequest
    <2> QED BY <2>1, <2>2 DEF HandoffInv, OneRequest
  <1> QED BY <1>2, <1>5, <1>6, <1>7 DEF HandoffInv

LEMMA PublishInv ==
    ASSUME HandoffInv, MaxImports \in Nat,
           NEW s \in Sources, NEW m \in Handoff!Months, NEW f \in Handoff!Figures,
             NEW estimated \in BOOLEAN, Handoff!Publish(s, m, f, estimated)
    PROVE  HandoffInv'
  <1>1. f # Handoff!NoFacts
    BY DEF Handoff!Figures, Handoff!NoFacts
  <1>2. /\ ~Handoff!Locked(s) /\ imports' = imports + 1 /\ imports < MaxImports
           /\ UNCHANGED <<handoff, screen, ended>>
        /\ facts' = [facts EXCEPT ![s] = [facts[s] EXCEPT ![m] = f]]
    BY DEF Handoff!Publish
  <1>3. facts' \in [Sources -> [Handoff!Months -> Handoff!Figures \cup {Handoff!NoFacts}]] /\ facts'[s][m] = f
    BY <1>2 DEF HandoffInv, Handoff!TypeOK
  <1> DEFINE c == [status |-> "complete", whole |-> ~Handoff!Running(m), estimated |-> estimated \/ Handoff!Running(m)]
  <1>4. c \in [status : {"pending", "complete", "partial"}, whole : BOOLEAN, estimated : BOOLEAN]
    BY DEF Handoff!Running
  <1>5. period' = [period EXCEPT ![s] = [period[s] EXCEPT ![m] = c]]
    BY DEF Handoff!Publish
  <1> HIDE DEF c
  <1>6. period' \in [Sources -> [Handoff!Months -> [status : {"pending", "complete", "partial"}, whole : BOOLEAN, estimated : BOOLEAN]]]
    BY <1>4, <1>5 DEF HandoffInv, Handoff!TypeOK
  <1>7. Handoff!TypeOK'
    BY <1>2, <1>3, <1>6 DEF HandoffInv, Handoff!TypeOK
  <1>8. s \in Handoff!KnownSources'
    BY <1>1, <1>3 DEF Handoff!KnownSources
  <1>9. ASSUME NEW e \in Recorders PROVE ReadRight(screen[e])'
    <2>1. screen[e].at = "read" => s \notin screen[e].locks
      BY <1>2 DEF Handoff!Locked, Handoff!InRequest
    <2>2. ReadRight(screen[e]) /\ screen' = screen
      BY <1>2 DEF HandoffInv
    <2> QED BY <1>8, <2>1, <2>2 DEF ReadRight
  <1> QED BY <1>2, <1>7, <1>9 DEF HandoffInv, Pages, OneRequest, Handoff!InRequest

LEMMA FailMonthInv ==
    ASSUME HandoffInv, NEW s \in Sources, NEW m \in Handoff!Months, Handoff!FailMonth(s, m)
    PROVE  HandoffInv'
  <1>1. ~Handoff!Locked(s) /\ UNCHANGED <<facts, imports, handoff, screen, ended>>
    BY DEF Handoff!FailMonth
  <1>2. period' = [period EXCEPT ![s] = [period[s] EXCEPT ![m] = [period[s][m] EXCEPT !.status = "partial"]]]
    BY DEF Handoff!FailMonth
  <1> DEFINE c == [period[s][m] EXCEPT !.status = "partial"]
  <1>3. c \in [status : {"pending", "complete", "partial"}, whole : BOOLEAN, estimated : BOOLEAN]
    <2>1. period[s][m] \in [status : {"pending", "complete", "partial"}, whole : BOOLEAN, estimated : BOOLEAN]
      BY DEF HandoffInv, Handoff!TypeOK
    <2> QED BY <2>1
  <1> HIDE DEF c
  <1>4. period' \in [Sources -> [Handoff!Months -> [status : {"pending", "complete", "partial"}, whole : BOOLEAN, estimated : BOOLEAN]]]
    BY <1>2, <1>3 DEF HandoffInv, Handoff!TypeOK, c
  <1>5. Handoff!TypeOK'
    BY <1>1, <1>4 DEF HandoffInv, Handoff!TypeOK
  <1>6. Handoff!KnownSources' = Handoff!KnownSources
    BY <1>1 DEF Handoff!KnownSources
  <1>7. \A n : Handoff!Value(n)' = Handoff!Value(n)
          /\ Handoff!Behind(n)' = Handoff!Behind(n) /\ Handoff!Running(n)' = Handoff!Running(n)
    BY <1>1 DEF Handoff!Value, Handoff!AmountOf, Handoff!Amount, Handoff!Collecting, Handoff!Behind,
         Handoff!Running
  <1>8. ASSUME s \notin Handoff!KnownSources PROVE Handoff!Totals' = Handoff!Totals
    <2>1. \A t : t # s => period'[t] = period[t]
      BY <1>2 DEF HandoffInv, Handoff!TypeOK
    <2>2. \A n \in Handoff!Months : s \notin Handoff!Behind(n)
      BY <1>8 DEF Handoff!KnownSources, Handoff!Behind, Handoff!Collecting
    <2>3. \A n \in Handoff!Months : Handoff!Covered(n)' = Handoff!Covered(n)
      BY <1>7, <2>1, <2>2 DEF Handoff!Covered
    <2>4. \A n \in Handoff!Months : Handoff!Estimated(n)' = Handoff!Estimated(n)
      BY <1>7, <2>1, <2>2 DEF Handoff!Estimated
    <2>5. \A n \in Handoff!Months : Handoff!State(n)' = Handoff!State(n)
      BY <1>7, <2>3, <2>4 DEF Handoff!State
    <2> QED BY <1>7, <2>5 DEF Handoff!Totals, Handoff!Months
  <1>9. ASSUME NEW e \in Recorders PROVE ReadRight(screen[e])'
    <2>1. screen[e].at = "read" => s \notin screen[e].locks
      BY <1>1 DEF Handoff!Locked, Handoff!InRequest
    <2>2. ReadRight(screen[e]) /\ screen' = screen
      BY <1>1 DEF HandoffInv
    <2> QED BY <1>6, <1>7, <1>8, <2>1, <2>2 DEF ReadRight
  <1> QED BY <1>1, <1>5, <1>9 DEF HandoffInv, Pages, OneRequest, Handoff!InRequest

LEMMA MonthEndsInv == ASSUME HandoffInv, Handoff!MonthEnds PROVE HandoffInv'
  <1>1. ended = FALSE /\ ended' = TRUE /\ UNCHANGED <<facts, period, imports, handoff, screen>>
    BY DEF Handoff!MonthEnds, HandoffInv, Handoff!TypeOK
  <1>2. Handoff!TypeOK'
    BY <1>1 DEF HandoffInv, Handoff!TypeOK
  <1>3. Handoff!State(Handoff!Month) # "Complete"
    BY <1>1 DEF Handoff!State, Handoff!Estimated, Handoff!Running
  <1>4. Handoff!KnownSources' = Handoff!KnownSources /\ \A n : Handoff!Value(n)' = Handoff!Value(n)
    BY <1>1 DEF Handoff!Value, Handoff!AmountOf, Handoff!Amount, Handoff!Collecting, Handoff!KnownSources
  <1>5. ASSUME NEW e \in Recorders PROVE ReadRight(screen[e])'
    <2>1. ReadRight(screen[e]) /\ screen' = screen
      BY <1>1 DEF HandoffInv
    <2> QED BY <1>3, <1>4, <2>1, TotalsAre DEF ReadRight
  <1> QED BY <1>1, <1>2, <1>5 DEF HandoffInv, Pages, OneRequest, Handoff!InRequest

LEMMA EditorInv ==
    ASSUME HandoffInv, MaxRevisions \in Nat, NEW e \in Recorders,
           Handoff!Open(e) \/ Handoff!Leave(e) \/ Handoff!ReadTotals(e)
               \/ \E form \in Handoff!Forms : Handoff!Post(e, form)
    PROVE  HandoffInv'
  <1>1. UNCHANGED <<facts, period, imports, ended>> /\ handoff' = handoff
    BY DEF Handoff!Open, Handoff!Leave, Handoff!ReadTotals, Handoff!Post
  <1>2. handoff'.snapshot = Handoff!NoSnapshot \/ handoff'.snapshot.state \in Handoff!States
    BY <1>1 DEF HandoffInv, Handoff!TypeOK
  <1>3. handoff'.revision \in 0..MaxRevisions /\ handoff'.marked \in BOOLEAN /\ handoff'.shared \in BOOLEAN
    BY <1>1 DEF HandoffInv, Handoff!TypeOK
  <1>4. PICK x : /\ screen' = [screen EXCEPT ![e] = x]
                 /\ x.at \in {"away", "open", "locked", "read"} /\ ReadRight(x)
                 /\ x.at \in {"locked", "read"} =>
                      handoff.revision < MaxRevisions /\ \A o \in Recorders : Handoff!InRequest(o) => o = e
    <2>1. CASE Handoff!Open(e)
      <3> DEFINE x == [at |-> "open", version |-> handoff.revision]
      <3>1. screen' = [screen EXCEPT ![e] = x] /\ x.at = "open"
        BY <2>1 DEF Handoff!Open
      <3> HIDE DEF x
      <3> QED BY <3>1 DEF ReadRight
    <2>2. CASE Handoff!Leave(e)
      <3>1. screen' = [screen EXCEPT ![e] = Handoff!Away] /\ Handoff!Away.at = "away"
        BY <2>2 DEF Handoff!Leave, Handoff!Away
      <3> QED BY <3>1 DEF ReadRight
    <2>3. CASE Handoff!ReadTotals(e)
      <3> DEFINE x == [at |-> "read", version |-> screen[e].version, form |-> screen[e].form,
                       locks |-> screen[e].locks, totals |-> Handoff!Totals]
      <3>1. screen' = [screen EXCEPT ![e] = x] /\ x.at = "read" /\ x.totals = Handoff!Totals
              /\ x.form = screen[e].form
        BY <2>3 DEF Handoff!ReadTotals
      <3>4. screen[e].form \in Handoff!Forms
        BY <2>3 DEF Handoff!ReadTotals, HandoffInv, ReadRight
      <3> HIDE DEF x
      <3>2. Handoff!InRequest(e)
        BY <2>3 DEF Handoff!ReadTotals, Handoff!InRequest
      <3>3. handoff.revision < MaxRevisions /\ \A o \in Recorders : Handoff!InRequest(o) => o = e
        BY <3>2 DEF HandoffInv, OneRequest
      <3> QED BY <3>1, <3>3, <3>4, StatesAre, TotalsAre DEF ReadRight
    <2>4. ASSUME NEW form \in Handoff!Forms, Handoff!Post(e, form)
          PROVE  \E x : /\ screen' = [screen EXCEPT ![e] = x]
                        /\ x.at \in {"away", "open", "locked", "read"} /\ ReadRight(x)
                        /\ x.at \in {"locked", "read"} =>
                             handoff.revision < MaxRevisions
                                 /\ \A o \in Recorders : Handoff!InRequest(o) => o = e
      <3> DEFINE x == [at |-> "locked", version |-> screen[e].version, form |-> form, locks |-> Handoff!KnownSources]
      <3>1. screen' = [screen EXCEPT ![e] = x] /\ x.at = "locked" /\ x.form \in Handoff!Forms
              /\ handoff.revision < MaxRevisions
            /\ \A o \in Recorders : ~Handoff!InRequest(o)
        BY <2>4 DEF Handoff!Post
      <3> HIDE DEF x
      <3> QED BY <3>1 DEF ReadRight
    <2> QED BY <2>1, <2>2, <2>3, <2>4
  <1> QED BY <1>1, <1>2, <1>3, <1>4, HandoffPageInv

\* What a request that finishes does to the record.
LEMMA FinishIs ==
    ASSUME HandoffInv, NEW e \in Recorders, Handoff!Finish(e), handoff' # handoff
    PROVE  /\ screen[e].at = "read" /\ screen[e].version = handoff.revision
           /\ handoff'.revision = handoff.revision + 1
           /\ handoff'.marked = screen[e].form.marked /\ handoff'.shared = screen[e].form.shared
           /\ \/ /\ handoff'.snapshot = handoff.snapshot
                 /\ screen[e].form.marked => Handoff!Closable(handoff.snapshot, Handoff!Revised(Handoff!Snapshot(screen[e].totals)))
              \/ handoff'.snapshot = Handoff!Snapshot(screen[e].totals) /\ ~handoff.marked
                 /\ ~screen[e].form.marked
  <1> DEFINE fresh == Handoff!Snapshot(screen[e].totals)
  <1>1. /\ Handoff!Accepted(e, fresh) /\ screen[e].at = "read"
        /\ handoff' = [snapshot |-> IF screen[e].form.action = "capture" THEN fresh ELSE handoff.snapshot,
                      revision |-> handoff.revision + 1, marked |-> screen[e].form.marked,
                        shared |-> screen[e].form.shared]
    BY DEF Handoff!Finish
  <1> HIDE DEF fresh
  <1>2. /\ handoff'.snapshot = (IF screen[e].form.action = "capture" THEN fresh ELSE handoff.snapshot)
        /\ handoff'.revision = handoff.revision + 1
        /\ handoff'.marked = screen[e].form.marked /\ handoff'.shared = screen[e].form.shared
    BY <1>1
  <1>3. screen[e].version = handoff.revision
    BY <1>1 DEF Handoff!Accepted, Handoff!SeenVersion
  <1>4. CASE screen[e].form.action = "capture"
    BY <1>1, <1>2, <1>3, <1>4 DEF Handoff!Accepted, Handoff!Capturable, fresh
  <1>5. CASE screen[e].form.action # "capture"
    BY <1>1, <1>2, <1>3, <1>5 DEF Handoff!Accepted, Handoff!FormValid, fresh
  <1> QED BY <1>4, <1>5


LEMMA FinishInv ==
    ASSUME HandoffInv, MaxRevisions \in Nat, NEW e \in Recorders, Handoff!Finish(e)
    PROVE  HandoffInv'
  <1>1. screen[e].at = "read" /\ UNCHANGED <<facts, period, imports, ended>>
    BY DEF Handoff!Finish
  <1>2. Handoff!InRequest(e)
    BY <1>1 DEF Handoff!InRequest
  <1>3. handoff.revision < MaxRevisions /\ \A o \in Recorders : Handoff!InRequest(o) => o = e
    BY <1>2 DEF HandoffInv, OneRequest
  <1>4. PICK x : screen' = [screen EXCEPT ![e] = x] /\ x.at \in {"away", "open"}
    <2>1. Handoff!Away.at = "away"
      BY DEF Handoff!Away
    <2> DEFINE x == [at |-> "open", version |-> screen[e].version]
    <2>2. x.at = "open"
      OBVIOUS
    <2>3. screen' = [screen EXCEPT ![e] = Handoff!Away] \/ screen' = [screen EXCEPT ![e] = x]
      BY DEF Handoff!Finish
    <2> HIDE DEF x
    <2> QED BY <2>1, <2>2, <2>3
  <1>5. ReadRight(x)
    BY <1>4 DEF ReadRight
  <1>6. CASE handoff' = handoff
    <2>1. handoff'.snapshot = Handoff!NoSnapshot \/ handoff'.snapshot.state \in Handoff!States
      BY <1>6 DEF HandoffInv, Handoff!TypeOK
    <2>2. handoff'.revision \in 0..MaxRevisions /\ handoff'.marked \in BOOLEAN /\ handoff'.shared \in BOOLEAN
      BY <1>6 DEF HandoffInv, Handoff!TypeOK
    <2> QED BY <1>1, <1>3, <1>4, <1>5, <2>1, <2>2, HandoffPageInv
  <1>7. CASE handoff' # handoff
    <2>1. screen[e].form \in Handoff!Forms
      BY <1>1 DEF HandoffInv, ReadRight
    <2>2. handoff'.snapshot = Handoff!NoSnapshot \/ handoff'.snapshot.state \in Handoff!States
      <3>1. screen[e].totals.state \in Handoff!States
        BY <1>1 DEF HandoffInv, ReadRight
      <3> QED BY <1>7, <3>1, FinishIs, SnapshotIs DEF HandoffInv, Handoff!TypeOK
    <2>3. handoff'.revision \in 0..MaxRevisions
      BY <1>3, <1>7, FinishIs DEF HandoffInv, Handoff!TypeOK
    <2>4. handoff'.marked \in BOOLEAN /\ handoff'.shared \in BOOLEAN
      BY <1>7, <2>1, FinishIs DEF Handoff!Forms
    <2> QED BY <1>1, <1>3, <1>4, <1>5, <2>2, <2>3, <2>4, HandoffPageInv
  <1> QED BY <1>6, <1>7

LEMMA HandoffNext ==
    ASSUME MaxImports \in Nat, MaxRevisions \in Nat, HandoffInv, [Handoff!Next]_(Handoff!vars)
    PROVE  HandoffInv'
  <1>1. CASE UNCHANGED Handoff!vars
    <2>1. UNCHANGED <<facts, period, imports, handoff, screen, ended>>
      BY <1>1 DEF Handoff!vars
    <2>2. Handoff!TypeOK' /\ Pages' /\ OneRequest'
      BY <2>1 DEF HandoffInv, Handoff!TypeOK, Pages, OneRequest, Handoff!InRequest
    <2>3. \A e \in Recorders : ReadRight(screen[e])'
      BY <2>1, FiguresSame DEF HandoffInv, ReadRight
    <2> QED BY <2>2, <2>3 DEF HandoffInv
  <1> QED BY <1>1, PublishInv, FailMonthInv, MonthEndsInv, EditorInv, FinishInv DEF Handoff!Next

LEMMA HandoffInvariance ==
    ASSUME MaxImports \in Nat, MaxRevisions \in Nat
    PROVE  Handoff!Spec => []HandoffInv
  BY HandoffInit, HandoffNext, PTL DEF Handoff!Spec

-----------------------------------------------------------------------------
\* Only a request that finishes changes the record.
LEMMA RecordIs ==
    ASSUME [Handoff!Next]_(Handoff!vars), handoff' # handoff
    PROVE  \E e \in Recorders : Handoff!Finish(e)
  BY DEF Handoff!Next, Handoff!vars, Handoff!Publish, Handoff!FailMonth, Handoff!MonthEnds,
       Handoff!Open, Handoff!Leave, Handoff!ReadTotals, Handoff!Post

LEMMA SoundStep == ASSUME HandoffInv, [Handoff!Next]_(Handoff!vars) PROVE Handoff!HandoffsAreSound
  <1>1. handoff.marked /\ handoff'.marked => handoff'.snapshot = handoff.snapshot
    <2>1. CASE handoff' = handoff
      BY <2>1
    <2>2. CASE handoff' # handoff
      BY <2>2, RecordIs, FinishIs
    <2> QED BY <2>1, <2>2
  <1>2. ASSUME NEW e \in Recorders, Handoff!Finish(e), Handoff!AllLocked(e)
        PROVE  /\ handoff'.snapshot # handoff.snapshot =>
                     handoff'.snapshot.current = Handoff!Value(Handoff!Month)
                         /\ handoff'.snapshot.prior = Handoff!Value(Handoff!Prior)
               /\ handoff'.marked /\ handoff' # handoff =>
                     ended /\ handoff'.snapshot = Handoff!Snapshot(Handoff!Totals)
                         /\ Handoff!Totals.state = "Complete"
    <2> DEFINE t == screen[e].totals
    <2>1. /\ t.current = Handoff!Value(Handoff!Month) /\ t.prior = Handoff!Value(Handoff!Prior)
          /\ t = Handoff!Totals \/ t.state # "Complete"
      BY <1>2 DEF Handoff!AllLocked, HandoffInv, ReadRight, Handoff!Finish
    <2>2. ASSUME handoff'.snapshot # handoff.snapshot
          PROVE  handoff'.snapshot.current = Handoff!Value(Handoff!Month)
                   /\ handoff'.snapshot.prior = Handoff!Value(Handoff!Prior)
      BY <1>2, <2>1, <2>2, FinishIs, SnapshotIs
    <2>3. ASSUME handoff'.marked, handoff' # handoff
          PROVE  ended /\ handoff'.snapshot = Handoff!Snapshot(Handoff!Totals)
                   /\ Handoff!Totals.state = "Complete"
      <3>1. handoff'.snapshot = handoff.snapshot
              /\ Handoff!Closable(handoff.snapshot, Handoff!Revised(Handoff!Snapshot(t)))
        BY <1>2, <2>3, FinishIs
      <3>2. ended /\ handoff.snapshot.state = "Complete" /\ handoff.snapshot = Handoff!Snapshot(t)
        BY <3>1 DEF Handoff!Closable, Handoff!Revised
      <3>3. t.state = "Complete"
        BY <3>2, SnapshotIs
      <3> QED BY <2>1, <3>1, <3>2, <3>3
    <2> QED BY <2>2, <2>3
  <1>3. handoff' # handoff => \E e \in Recorders : screen[e].at = "read"
          /\ screen[e].version = handoff.revision
    BY RecordIs, FinishIs
  <1> QED BY <1>1, <1>2, <1>3 DEF Handoff!HandoffsAreSound

THEOREM HandoffsSound ==
    ASSUME MaxImports \in Nat, MaxRevisions \in Nat
    PROVE  Handoff!Spec => []Handoff!TypeOK /\ [][Handoff!HandoffsAreSound]_(Handoff!vars)
  <1>1. HandoffInv /\ [Handoff!Next]_(Handoff!vars) => [Handoff!HandoffsAreSound]_(Handoff!vars)
    BY SoundStep
  <1>2. HandoffInv => Handoff!TypeOK
    BY DEF HandoffInv
  <1> QED BY <1>1, <1>2, HandoffInvariance, PTL DEF Handoff!Spec

-----------------------------------------------------------------------------
(* Evidence that a customer is ready.                                       *)

\* A reconciliation that has begun, or a run it recorded, remembers a past of the ownership
\* version: as long as the account has not moved, that version has only grown ...
Behind(x) ==
    /\ x.moves \in Nat /\ x.moves <= moves
    /\ \A s \in DOMAIN x.begun : x.begun[s][2] \in Nat
    /\ x.moves = moves /\ at \in DOMAIN x.begun => x.begun[at][2] <= ownership[at]

\* ... and while it has not, no transfer has changed the days.
Fresh(x) ==
    x.moves = moves /\ at \in DOMAIN x.begun /\ x.begun[at][2] = ownership[at] => x.window = window

EvidenceTyped ==
    /\ at \in Evidence!Sources /\ moves \in Nat /\ ownership \in [Evidence!Sources -> Nat]
    /\ holder \in {"customer", "other", "nobody"}

Remembers(x) ==
    /\ x.step \in {"idle", "owned", "totals", "periods"}
    /\ x.step # "idle" => Behind(x)
    /\ x.step \in {"totals", "periods"} => Fresh(x)

Commanded == \A k \in Commands : Remembers(command[k])
Recorded == \A r \in runs : Behind(r) /\ Fresh(r)
Domain == DOMAIN command = Commands
EvidenceInv == EvidenceTyped /\ Domain /\ Commanded /\ Recorded

-----------------------------------------------------------------------------
\* No reconciliation has begun and no run is recorded in the initial state.
LEMMA EvidenceInit == Evidence!Init => EvidenceInv
  BY DEF Evidence!Init, EvidenceInv, EvidenceTyped, Domain, Commanded, Recorded, Remembers,
       Evidence!Idle, Evidence!Sources

\* The configuration names the ownership version of every connection it covers.
LEMMA ConfigurationIs ==
    /\ DOMAIN Evidence!Configuration = Evidence!CustomerSources
    /\ \A s \in Evidence!CustomerSources : Evidence!Configuration[s][2] = ownership[s]
    /\ Evidence!CustomerSources \subseteq Evidence!Sources
  BY DEF Evidence!Configuration, Evidence!CustomerSources

\* A command that begins remembers the present.
LEMMA EvidenceBeginInv ==
    ASSUME EvidenceInv, NEW k \in Commands, NEW whole \in BOOLEAN, Evidence!Begin(k, whole)
    PROVE  EvidenceInv'
  <1> DEFINE x == [step |-> "owned", whole |-> whole, window |-> {}, passed |-> FALSE,
                   begun |-> Evidence!Configuration, moves |-> moves]
  <1>1. command' = [command EXCEPT ![k] = x]
    BY DEF Evidence!Begin
  <1>2. UNCHANGED <<holder, at, moves, ownership, window, runs>>
    BY DEF Evidence!Begin, Evidence!account, Evidence!connections
  <1>3. Behind(x)
    <2>1. x.moves = moves /\ x.begun = Evidence!Configuration
      OBVIOUS
    <2>2. moves \in Nat /\ \A s \in Evidence!Sources : ownership[s] \in Nat
      BY DEF EvidenceInv, EvidenceTyped
    <2> QED
      BY <2>1, <2>2, ConfigurationIs DEF Behind
  <1>4. x.step = "owned"
    OBVIOUS
  <1> HIDE DEF x
  <1>5. Remembers(x)
    BY <1>3, <1>4 DEF Remembers
  <1> QED
    BY <1>1, <1>2, <1>5
       DEF EvidenceInv, EvidenceTyped, Domain, Commanded, Recorded, Remembers, Behind, Fresh

\* One that reads the rows sees the days of the present; the verdict changes neither.
LEMMA ReadInv ==
    ASSUME EvidenceInv, NEW k \in Commands, Evidence!ReadTotals(k) \/ Evidence!ReadPeriods(k)
    PROVE  EvidenceInv'
  <1>1. UNCHANGED <<holder, at, moves, ownership, window, runs>>
    BY DEF Evidence!ReadTotals, Evidence!ReadPeriods, Evidence!account, Evidence!connections
  <1>2. CASE Evidence!ReadTotals(k)
    <2>1. command' = [command EXCEPT ![k].step = "totals", ![k].window = window]
          /\ command[k].step = "owned"
      BY <1>2 DEF Evidence!ReadTotals
    <2>2. /\ command'[k].step = "totals" /\ command'[k].window = window
          /\ command'[k].begun = command[k].begun /\ command'[k].moves = command[k].moves
          /\ DOMAIN command' = Commands
          /\ \A j \in Commands : j # k => command'[j] = command[j]
      BY <2>1 DEF EvidenceInv, Domain
    <2>3. Behind(command[k])
      BY <2>1 DEF EvidenceInv, Commanded, Remembers
    <2>4. Remembers(command'[k])
      BY <2>2, <2>3 DEF Remembers, Behind, Fresh
    <2> QED
      BY <1>1, <2>2, <2>4 DEF EvidenceInv, EvidenceTyped, Domain, Commanded, Recorded, Remembers,
           Behind, Fresh
  <1>3. CASE Evidence!ReadPeriods(k)
    <2>1. PICK passed \in BOOLEAN :
             /\ command' = [command EXCEPT ![k].step = "periods", ![k].passed = passed]
             /\ command[k].step = "totals"
      BY <1>3 DEF Evidence!ReadPeriods
    <2>2. /\ command'[k].step = "periods" /\ command'[k].window = command[k].window
          /\ command'[k].begun = command[k].begun /\ command'[k].moves = command[k].moves
          /\ DOMAIN command' = Commands
          /\ \A j \in Commands : j # k => command'[j] = command[j]
      BY <2>1 DEF EvidenceInv, Domain
    <2>3. Behind(command[k]) /\ Fresh(command[k])
      BY <2>1 DEF EvidenceInv, Commanded, Remembers
    <2>4. Remembers(command'[k])
      BY <2>2, <2>3 DEF Remembers, Behind, Fresh
    <2> QED
      BY <1>1, <2>2, <2>4 DEF EvidenceInv, EvidenceTyped, Domain, Commanded, Recorded, Remembers,
           Behind, Fresh
  <1> QED BY <1>2, <1>3

\* A recorded run remembers what its command did.
LEMMA RecordInv == ASSUME EvidenceInv, NEW k \in Commands, Evidence!Record(k) PROVE EvidenceInv'
  <1> DEFINE x == [whole |-> command[k].whole, passed |-> command[k].passed,
                   configuration |-> Evidence!Configuration, window |-> command[k].window,
                   begun |-> command[k].begun, moves |-> command[k].moves]
  <1>1. UNCHANGED <<holder, at, moves, ownership, window>>
    BY DEF Evidence!Record, Evidence!account, Evidence!connections
  <1>2. runs' = runs \cup {x} /\ command' = [command EXCEPT ![k] = Evidence!Idle]
    BY DEF Evidence!Record
  <1>3. Behind(command[k]) /\ Fresh(command[k])
    BY DEF Evidence!Record, EvidenceInv, Commanded, Remembers
  <1>4. x.begun = command[k].begun /\ x.moves = command[k].moves /\ x.window = command[k].window
    OBVIOUS
  <1> HIDE DEF x
  <1>5. Behind(x) /\ Fresh(x)
    BY <1>3, <1>4 DEF Behind, Fresh
  <1>6. DOMAIN command' = Commands /\ \A j \in Commands : Remembers(command'[j])
    BY <1>2 DEF EvidenceInv, Domain, Commanded, Remembers, Evidence!Idle
  <1> QED
    BY <1>1, <1>2, <1>5, <1>6
       DEF EvidenceInv, EvidenceTyped, Domain, Commanded, Recorded, Remembers, Behind, Fresh

LEMMA CommandDiesInv ==
    ASSUME EvidenceInv, NEW k \in Commands, Evidence!CommandDies(k)
    PROVE  EvidenceInv'
  <1>1. UNCHANGED <<holder, at, moves, ownership, window, runs>>
    BY DEF Evidence!CommandDies, Evidence!account, Evidence!connections
  <1>2. DOMAIN command' = Commands /\ \A j \in Commands : Remembers(command'[j])
    BY DEF Evidence!CommandDies, EvidenceInv, Domain, Commanded, Remembers, Evidence!Idle
  <1> QED
    BY <1>1, <1>2 DEF EvidenceInv, EvidenceTyped, Domain, Commanded, Recorded, Remembers, Behind, Fresh

-----------------------------------------------------------------------------
\* A change that raises the ownership version of the account's connection puts everything
\* that was remembered behind it, whatever it does to the days.
LEMMA Outdated ==
    ASSUME EvidenceInv, ownership' = [ownership EXCEPT ![at] = @ + 1],
           holder' \in {"customer", "other", "nobody"}, UNCHANGED <<at, moves, command, runs>>
    PROVE  EvidenceInv'
  <1>1. at \in Evidence!Sources /\ ownership[at] \in Nat /\ ownership'[at] = ownership[at] + 1
        /\ ownership' \in [Evidence!Sources -> Nat]
    BY DEF EvidenceInv, EvidenceTyped
  <1>2. ASSUME NEW x, Behind(x)
        PROVE  Behind(x)' /\ Fresh(x)'
    BY <1>1, <1>2 DEF Behind, Fresh
  <1> QED
    BY <1>1, <1>2 DEF EvidenceInv, EvidenceTyped, Domain, Commanded, Recorded, Remembers

\* So does a move of the account, by the count of moves.
LEMMA Moved ==
    ASSUME EvidenceInv, moves' = moves + 1, at' \in Evidence!Sources,
           UNCHANGED <<holder, ownership, command, runs>>
    PROVE  EvidenceInv'
  <1>1. ASSUME NEW x, Behind(x)
        PROVE  Behind(x)' /\ Fresh(x)'
    BY <1>1 DEF EvidenceInv, EvidenceTyped, Behind, Fresh
  <1> QED
    BY <1>1 DEF EvidenceInv, EvidenceTyped, Domain, Commanded, Recorded, Remembers

\* The rest of the administration touches neither.
LEMMA Kept ==
    ASSUME EvidenceInv, UNCHANGED <<holder, at, moves, ownership, window, command, runs>>
    PROVE  EvidenceInv'
  BY DEF EvidenceInv, EvidenceTyped, Domain, Commanded, Recorded, Remembers, Behind, Fresh

LEMMA EvidenceNext == EvidenceInv /\ [Evidence!Next]_(Evidence!vars) => EvidenceInv'
  <1> SUFFICES ASSUME EvidenceInv, [Evidence!Next]_(Evidence!vars) PROVE EvidenceInv'
    OBVIOUS
  <1>1. CASE \E k \in Commands : (\E whole \in BOOLEAN : Evidence!Begin(k, whole))
               \/ Evidence!ReadTotals(k) \/ Evidence!ReadPeriods(k) \/ Evidence!Record(k)
                  \/ Evidence!CommandDies(k)
    BY <1>1, EvidenceBeginInv, ReadInv, RecordInv, CommandDiesInv
  <1>2. CASE \E to \in {"customer", "other"}, start \in Evidence!Days : Evidence!Transfer(to, start)
    BY <1>2, Outdated DEF Evidence!Transfer, Evidence!OwnershipChanged
  <1>3. CASE \E s \in Evidence!Sources : Evidence!Reconfigure(s) \/ Evidence!Verify(s)
    BY <1>3, Kept DEF Evidence!Reconfigure, Evidence!Verify, Evidence!account
  <1>4. CASE Evidence!Offboard
    <2>1. CASE holder = "customer"
      BY <1>4, <2>1, Outdated DEF Evidence!Offboard
    <2>2. CASE holder # "customer"
      BY <1>4, <2>2, Kept DEF Evidence!Offboard
    <2> QED BY <2>1, <2>2
  <1>5. CASE Evidence!Reactivate
    BY <1>5, Kept DEF Evidence!Reactivate, Evidence!account, Evidence!connections
  <1>6. CASE Evidence!Move
    BY <1>6, Moved DEF Evidence!Move, Evidence!account, Evidence!connections
  <1>7. CASE UNCHANGED Evidence!vars
    BY <1>7, Kept DEF Evidence!vars, Evidence!account, Evidence!connections
  <1> QED
    BY <1>1, <1>2, <1>3, <1>4, <1>5, <1>6, <1>7 DEF Evidence!Next

LEMMA EvidenceInvariance == Evidence!Spec => []EvidenceInv
  BY EvidenceInit, EvidenceNext, PTL DEF Evidence!Spec

-----------------------------------------------------------------------------
\* A ready customer holds the account of the range, whose connection is then one of its own
\* or one it has a part of: an equal configuration is an equal ownership version.
LEMMA ReadyIsCurrent == EvidenceInv => Evidence!EvidenceIsCurrent
  <1> SUFFICES ASSUME EvidenceInv, Evidence!Ready, NEW r \in runs, Evidence!Counts(r), Evidence!Undisturbed(r)
               PROVE  r.window = window
    BY DEF Evidence!EvidenceIsCurrent
  <1>1. at \in Evidence!CustomerSources
    BY DEF Evidence!Ready, Evidence!CustomerSources, EvidenceInv, EvidenceTyped
  <1>2. r.begun = Evidence!Configuration /\ r.moves = moves
    BY DEF Evidence!Counts, Evidence!Undisturbed
  <1>3. at \in DOMAIN r.begun /\ r.begun[at][2] = ownership[at]
    BY <1>1, <1>2, ConfigurationIs
  <1> QED
    BY <1>2, <1>3 DEF EvidenceInv, Recorded, Fresh

\* A connection change or a transfer invalidates the evidence (reconciliation.py, readiness.sql),
\* unless it fell between the first and the last query of the run, or the account moved.
THEOREM EvidenceCurrent == Evidence!Spec => []Evidence!EvidenceIsCurrent
  BY EvidenceInvariance, ReadyIsCurrent, PTL


\* The configuration of the present is one of those a run can record.
LEMMA ConfigurationTyped ==
    ASSUME Evidence!TypeOK
    PROVE  Evidence!Configuration \in Evidence!Configurations
  <1>1. Evidence!CustomerSources \subseteq Evidence!Sources
    BY DEF Evidence!CustomerSources
  <1>2. Evidence!Configuration \in [Evidence!CustomerSources -> (1..MaxVersions) \X (1..MaxOwnership)]
    <2>1. \A s \in Evidence!Sources : version[s] \in 1..MaxVersions /\ ownership[s] \in 1..MaxOwnership
      BY DEF Evidence!TypeOK
    <2> QED BY <1>1, <2>1 DEF Evidence!Configuration
  <1> QED BY <1>1, <1>2 DEF Evidence!Configurations

\* What a command that is not idle knows.
Begun == [step : {"owned", "totals", "periods"}, whole : BOOLEAN, window : SUBSET Evidence!Days,
          passed : BOOLEAN, begun : Evidence!Configurations, moves : 0..MaxMoves]

\* A step of a command, of the account or of the connections, as the types see it.
LEMMA CommandTyped ==
    ASSUME Evidence!TypeOK, NEW k \in Commands, NEW c \in Evidence!Command,
           command' = [command EXCEPT ![k] = c],
           UNCHANGED <<active, Evidence!account, at, Evidence!connections, runs, moves>>
    PROVE  Evidence!TypeOK'
  BY DEF Evidence!TypeOK, Evidence!account, Evidence!connections

LEMMA ReconcileTyped ==
    ASSUME Evidence!ReadinessAssumption, Evidence!TypeOK, NEW k \in Commands,
           (\E whole \in BOOLEAN : Evidence!Begin(k, whole)) \/ Evidence!ReadTotals(k)
               \/ Evidence!ReadPeriods(k)
              \/ Evidence!Record(k) \/ Evidence!CommandDies(k)
    PROVE  Evidence!TypeOK'
  <1>0. command[k] \in Evidence!Command /\ Evidence!Idle \in Evidence!Command /\ moves \in 0..MaxMoves
          /\ window \subseteq Evidence!Days
    BY DEF Evidence!TypeOK, Evidence!Command
  <1>1. ASSUME NEW whole \in BOOLEAN, Evidence!Begin(k, whole) PROVE Evidence!TypeOK'
    <2> DEFINE x == [step |-> "owned", whole |-> whole, window |-> {}, passed |-> FALSE,
                     begun |-> Evidence!Configuration, moves |-> moves]
    <2>1. x \in Evidence!Command
      BY <1>0, ConfigurationTyped DEF Evidence!Command
    <2>2. command' = [command EXCEPT ![k] = x]
            /\ UNCHANGED <<active, Evidence!account, at, Evidence!connections, runs, moves>>
      BY <1>1 DEF Evidence!Begin
    <2> HIDE DEF x
    <2> QED BY <2>1, <2>2, CommandTyped
  <1>2. CASE Evidence!ReadTotals(k)
    <2> DEFINE x == [command[k] EXCEPT !.step = "totals", !.window = window]
    <2>1. x \in Evidence!Command
      <3>1. command[k] \in Begun
        BY <1>0, <1>2 DEF Evidence!Command, Begun, Evidence!ReadTotals, Evidence!Idle
      <3> QED BY <1>0, <3>1 DEF Evidence!Command, Begun
    <2>2. command' = [command EXCEPT ![k] = x]
            /\ UNCHANGED <<active, Evidence!account, at, Evidence!connections, runs, moves>>
      BY <1>2 DEF Evidence!ReadTotals, Evidence!TypeOK
    <2> HIDE DEF x
    <2> QED BY <2>1, <2>2, CommandTyped
  <1>3. CASE Evidence!ReadPeriods(k)
    <2>0. PICK passed \in BOOLEAN :
             command' = [command EXCEPT ![k].step = "periods", ![k].passed = passed]
      BY <1>3 DEF Evidence!ReadPeriods
    <2> DEFINE x == [command[k] EXCEPT !.step = "periods", !.passed = passed]
    <2>1. x \in Evidence!Command
      <3>1. command[k] \in Begun
        BY <1>0, <1>3 DEF Evidence!Command, Begun, Evidence!ReadPeriods, Evidence!Idle
      <3> QED BY <1>0, <3>1 DEF Evidence!Command, Begun
    <2>2. command' = [command EXCEPT ![k] = x]
            /\ UNCHANGED <<active, Evidence!account, at, Evidence!connections, runs, moves>>
      BY <1>3, <2>0 DEF Evidence!ReadPeriods, Evidence!TypeOK
    <2> HIDE DEF x
    <2> QED BY <2>1, <2>2, CommandTyped
  <1>4. CASE Evidence!Record(k)
    <2> DEFINE x == [whole |-> command[k].whole, passed |-> command[k].passed,
                     configuration |-> Evidence!Configuration, window |-> command[k].window,
                     begun |-> command[k].begun, moves |-> command[k].moves]
    <2>1. x \in Evidence!Run
      BY <1>0, <1>4, ConfigurationTyped DEF Evidence!Command, Evidence!Run, Evidence!Record, Evidence!Idle
    <2>2. /\ command' = [command EXCEPT ![k] = Evidence!Idle] /\ runs' = runs \cup {x}
          /\ UNCHANGED <<active, Evidence!account, at, Evidence!connections, moves>>
      BY <1>4 DEF Evidence!Record
    <2> HIDE DEF x
    <2> QED BY <1>0, <2>1, <2>2 DEF Evidence!TypeOK, Evidence!account, Evidence!connections
  <1>5. CASE Evidence!CommandDies(k)
    BY <1>0, <1>5, CommandTyped DEF Evidence!CommandDies
  <1> QED BY <1>1, <1>2, <1>3, <1>4, <1>5

LEMMA EvidenceTypesInit == ASSUME Evidence!ReadinessAssumption PROVE Evidence!Init => Evidence!TypeOK
  BY DEF Evidence!ReadinessAssumption, Evidence!Init, Evidence!TypeOK, Evidence!Idle,
       Evidence!Command, Evidence!Days, Evidence!Sources

LEMMA EvidenceTypesNext ==
    ASSUME Evidence!ReadinessAssumption
    PROVE  Evidence!TypeOK /\ [Evidence!Next]_(Evidence!vars) => Evidence!TypeOK'
  <1> SUFFICES ASSUME Evidence!TypeOK, [Evidence!Next]_(Evidence!vars) PROVE Evidence!TypeOK'
    OBVIOUS
  <1>0. /\ \A s \in Evidence!Sources : version[s] \in 1..MaxVersions /\ ownership[s] \in 1..MaxOwnership
        /\ MaxVersions \in Nat \ {0} /\ MaxOwnership \in Nat \ {0} /\ LastDay \in Nat /\ MaxMoves \in Nat
        /\ Own \in Evidence!Sources /\ at \in Evidence!Sources /\ moves \in 0..MaxMoves
    BY DEF Evidence!TypeOK, Evidence!ReadinessAssumption, Evidence!Sources
  <1>1. CASE \E k \in Commands : (\E whole \in BOOLEAN : Evidence!Begin(k, whole))
               \/ Evidence!ReadTotals(k) \/ Evidence!ReadPeriods(k) \/ Evidence!Record(k)
                  \/ Evidence!CommandDies(k)
    BY <1>1, ReconcileTyped
  <1>2. ASSUME NEW to \in {"customer", "other"}, NEW start \in Evidence!Days, Evidence!Transfer(to, start)
        PROVE  Evidence!TypeOK'
    <2>1. ownership' \in [Evidence!Sources -> 1..MaxOwnership]
            /\ UNCHANGED <<version, verified, active, at, command, runs, moves>>
      BY <1>0, <1>2 DEF Evidence!Transfer, Evidence!OwnershipChanged, Evidence!TypeOK
    <2>2. holder' = to /\ since' \in 0..LastDay
      BY <1>0, <1>2 DEF Evidence!Transfer, Evidence!TypeOK, Evidence!Days
    <2>3. window' \subseteq Evidence!Days
      BY <1>2 DEF Evidence!Transfer, Evidence!TypeOK, Evidence!From
    <2> QED BY <2>1, <2>2, <2>3 DEF Evidence!TypeOK
  <1>3. ASSUME NEW s \in Evidence!Sources, Evidence!Reconfigure(s) PROVE Evidence!TypeOK'
    BY <1>0, <1>3 DEF Evidence!Reconfigure, Evidence!TypeOK, Evidence!account
  <1>4. ASSUME NEW s \in Evidence!Sources, Evidence!Verify(s) PROVE Evidence!TypeOK'
    BY <1>0, <1>4 DEF Evidence!Verify, Evidence!TypeOK, Evidence!account
  <1>5. CASE Evidence!Offboard
    <2>1. version' \in [Evidence!Sources -> 1..MaxVersions]
            /\ verified' \in [Evidence!Sources -> 0..MaxVersions]
      BY <1>0, <1>5 DEF Evidence!Offboard, Evidence!TypeOK
    <2>2. ownership' \in [Evidence!Sources -> 1..MaxOwnership] /\ holder' \in {"customer", "other", "nobody"}
      BY <1>0, <1>5 DEF Evidence!Offboard, Evidence!TypeOK
    <2> QED BY <1>5, <2>1, <2>2 DEF Evidence!Offboard, Evidence!TypeOK
  <1>6. CASE Evidence!Reactivate
    BY <1>6 DEF Evidence!Reactivate, Evidence!TypeOK, Evidence!account, Evidence!connections
  <1>7. CASE Evidence!Move
    BY <1>0, <1>7 DEF Evidence!Move, Evidence!TypeOK, Evidence!account, Evidence!connections
  <1>8. CASE UNCHANGED Evidence!vars
    BY <1>8 DEF Evidence!vars, Evidence!TypeOK, Evidence!account, Evidence!connections
  <1> QED
    BY <1>1, <1>2, <1>3, <1>4, <1>5, <1>6, <1>7, <1>8 DEF Evidence!Next

=============================================================================
