----------------------------- MODULE Readiness -----------------------------
(***************************************************************************)
(* The evidence an external customer is admitted on.  The administration   *)
(* command reconcile_customer compares the stored costs with an approved   *)
(* reference, one query after the other, and records the configuration of  *)
(* connections and ownership it reads last; the gate of the portal counts  *)
(* a run while that configuration is the present one (reconciliation.py,   *)
(* governance.py, readiness.sql, portal-admission.sql).                    *)
(***************************************************************************)
EXTENDS Naturals, FiniteSets

CONSTANTS
    Commands,       \* reconciliations under way
    Own, Shared,    \* the customer's connection and a payer of somebody else
    LastDay,        \* the reconciled range is 1..LastDay, all of it past
    MaxVersions,    \* bound: settings of a connection
    MaxOwnership,   \* bound: owners of a connection's account
    MaxMoves,       \* bound: moves of the account between the connections
    MaxRuns         \* bound: recorded runs

ReadinessAssumption == Own # Shared /\ {LastDay, MaxMoves} \subseteq Nat /\ {MaxVersions, MaxOwnership} \subseteq Nat \ {0}

VARIABLES
    active,         \* the customer is not offboarded
    holder, since,  \* who the account's open assignment names, and from which day on
    window,         \* the days of the range assigned to the customer, whose rows carry its stamp
    at,             \* the connection the inventory row of the account names
    version, ownership, verified,   \* of each connection; the version verified, or 0
    command, runs,
    moves           \* history: how often `at` changed

connections == <<version, ownership, verified>>
account == <<holder, since, window>>
vars == <<active, account, at, connections, command, runs, moves>>

Sources == {Own, Shared}
Days == 1..LastDay
From(start) == {d \in Days : d >= start}

\* customer_sources: its own, and those of the accounts assigned to it now.
CustomerSources == {s \in Sources : s = Own \/ (s = at /\ holder = "customer")}

\* A mutant: the evidence names the connections and not their ownership.
Configuration_Version == [s \in CustomerSources |-> <<version[s], 1>>]

Configuration == [s \in CustomerSources |-> <<version[s], ownership[s]>>]

Configurations == UNION {[S -> (1..MaxVersions) \X (1..MaxOwnership)] : S \in SUBSET Sources}
Idle == [step |-> "idle"]
Command == {Idle} \cup [step : {"owned", "totals", "periods"}, whole : BOOLEAN, window : SUBSET Days,
                        passed : BOOLEAN, begun : Configurations, moves : 0..MaxMoves]
Run == [whole : BOOLEAN, passed : BOOLEAN, configuration : Configurations,
        window : SUBSET Days, begun : Configurations, moves : 0..MaxMoves]

TypeOK ==
    /\ active \in BOOLEAN
    /\ holder \in {"customer", "other", "nobody"} /\ since \in 0..LastDay /\ window \subseteq Days
    /\ at \in Sources /\ moves \in 0..MaxMoves
    /\ version \in [Sources -> 1..MaxVersions] /\ ownership \in [Sources -> 1..MaxOwnership]
    /\ verified \in [Sources -> 0..MaxVersions]
    /\ command \in [Commands -> Command] /\ runs \subseteq Run

Init ==
    /\ active = TRUE /\ holder = "customer" /\ since = 0 /\ window = Days
    /\ at \in Sources
    /\ version = [s \in Sources |-> 1] /\ ownership = [s \in Sources |-> 1]
    /\ verified = [s \in Sources |-> 0]
    /\ command = [k \in Commands |-> Idle] /\ runs = {} /\ moves = 0

----------------------------------------------------------------------------
(* reconcile, in a command without a transaction around it. *)

\* The accounts of the range: a reference may name no other.  A run of one connection
\* or of a synthetic fixture is recorded like any other.
Begin(k, whole) ==
    /\ command[k] = Idle /\ window # {} /\ Cardinality(runs) < MaxRuns
    /\ command' = [command EXCEPT ![k] = [step |-> "owned", whole |-> whole, window |-> {}, passed |-> FALSE,
                                          begun |-> Configuration, moves |-> moves]]
    /\ UNCHANGED <<active, account, at, connections, runs, moves>>

\* The rows that carry the customer's stamp.
ReadTotals(k) ==
    /\ command[k].step = "owned"
    /\ command' = [command EXCEPT ![k].step = "totals", ![k].window = window]
    /\ UNCHANGED <<active, account, at, connections, runs, moves>>

\* The published periods, and the verdict: whether the reference matches, and whether
\* every month is published in full, is anything.
ReadPeriods(k) ==
    /\ command[k].step = "totals"
    /\ \E passed \in BOOLEAN : command' = [command EXCEPT ![k].step = "periods", ![k].passed = passed]
    /\ UNCHANGED <<active, account, at, connections, runs, moves>>

Record(k) ==
    /\ command[k].step = "periods"
    /\ command' = [command EXCEPT ![k] = Idle]
    /\ runs' = runs \cup {[whole |-> command[k].whole, passed |-> command[k].passed,
                           configuration |-> Configuration, window |-> command[k].window,
                           begun |-> command[k].begun, moves |-> command[k].moves]}
    /\ UNCHANGED <<active, account, at, connections, moves>>

CommandDies(k) ==
    /\ command[k] # Idle /\ command' = [command EXCEPT ![k] = Idle]
    /\ UNCHANGED <<active, account, at, connections, runs, moves>>

----------------------------------------------------------------------------
(* What changes meanwhile. *)

\* The signal of every saved assignment.
OwnershipChanged ==
    /\ ownership[at] < MaxOwnership
    /\ ownership' = [ownership EXCEPT ![at] = @ + 1]
    /\ UNCHANGED <<version, verified>>

\* A transfer and its restamping, one transaction.  An account nobody holds was let go
\* by an offboarding after the range, which nobody's assignment may overlap.
Transfer(to, start) ==
    /\ holder # to /\ OwnershipChanged
    /\ IF holder = "nobody" THEN UNCHANGED <<since, window>>
       ELSE /\ start > since /\ since' = start
            /\ window' = IF to = "customer" THEN window \cup From(start) ELSE window \ From(start)
    /\ holder' = to
    /\ UNCHANGED <<active, at, command, runs, moves>>

\* The settings are edited, the external id is rotated, or the role is approved again.
Reconfigure(s) ==
    /\ version[s] < MaxVersions
    /\ version' = [version EXCEPT ![s] = @ + 1] /\ verified' = [verified EXCEPT ![s] = 0]
    /\ UNCHANGED <<active, account, at, ownership, command, runs, moves>>

\* A connection that is resumed, approved and verified, or no longer all of it.
Verify(s) ==
    /\ verified' \in {[verified EXCEPT ![s] = v] : v \in {0, version[s]}}
    /\ UNCHANGED <<active, account, at, version, ownership, command, runs, moves>>

\* offboard_customer: its connections get a new version, its assignments end today.
Offboard ==
    /\ active /\ version[Own] < MaxVersions
    /\ active' = FALSE
    /\ version' = [version EXCEPT ![Own] = @ + 1] /\ verified' = [verified EXCEPT ![Own] = 0]
    /\ IF holder = "customer"
       THEN /\ holder' = "nobody" /\ ownership[at] < MaxOwnership
            /\ ownership' = [ownership EXCEPT ![at] = @ + 1]
       ELSE UNCHANGED <<holder, ownership>>
    /\ UNCHANGED <<since, window, at, command, runs, moves>>

Reactivate ==
    /\ ~active /\ active' = TRUE
    /\ UNCHANGED <<account, at, connections, command, runs, moves>>

\* A discovery finds the account behind the other connection: no version changes.
Move ==
    /\ moves < MaxMoves /\ moves' = moves + 1
    /\ at' \in Sources \ {at}
    /\ UNCHANGED <<active, account, connections, command, runs>>

Next ==
    \/ \E k \in Commands : \/ \E whole \in BOOLEAN : Begin(k, whole)
                           \/ ReadTotals(k) \/ ReadPeriods(k) \/ Record(k) \/ CommandDies(k)
    \/ \E to \in {"customer", "other"}, start \in Days : Transfer(to, start)
    \/ \E s \in Sources : Reconfigure(s) \/ Verify(s)
    \/ Offboard \/ Reactivate \/ Move

Spec == Init /\ [][Next]_vars

----------------------------------------------------------------------------
(* The gate: one statement of the guarded function that accepts an         *)
(* invitation.  Memberships and the rollout record, which only people      *)
(* fill in, are left out.                                                  *)
Counts(r) == r.passed /\ r.whole /\ r.configuration = Configuration
Ready ==
    /\ active /\ holder = "customer"
    /\ \A s \in CustomerSources : verified[s] = version[s]
    /\ \E r \in runs : Counts(r)

\* No change of a connection or of ownership was committed while the run read, and the
\* account has stayed with its connection since.
Undisturbed(r) == r.begun = r.configuration /\ r.moves = moves

(* "Connection changes or ownership transfers invalidate that evidence."   *)
(* (docs/reconciliation.md:29): a customer that is ready is so on runs     *)
(* that compared the days it owns now, however often the account went      *)
(* away and came back.  A change between the first and the last query of a *)
(* run escapes this, and so do transfers while the inventory names another *)
(* connection, which then returns.                                         *)
EvidenceIsCurrent == Ready => \A r \in runs : Counts(r) /\ Undisturbed(r) => r.window = window
=============================================================================
