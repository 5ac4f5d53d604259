----------------------------- MODULE Discovery ------------------------------
(***************************************************************************)
(* The inventory of linked accounts (collector.py:220-271).  Each payer    *)
(* connection asks AWS for its accounts every day and writes what it found *)
(* later, in a transaction of its own that is fenced by the connection's   *)
(* settings and not by the lease of the job: a worker whose lease expired  *)
(* can still write an old answer.  Meanwhile accounts move between         *)
(* organizations and an operator adds them by hand (governance.py:81-101). *)
(* Without the organizations permission the answer comes from the bills of *)
(* the last months, which name accounts that have left.  Customers stay    *)
(* active here: Ownership has what an ended assignment does to discovery.  *)
(***************************************************************************)
EXTENDS Naturals, FiniteSets

CONSTANTS
    Payers, Accounts,
    Billed,         \* the payers that may only read bills
    Shared,         \* the payers that serve several customers
    Approved,       \* accounts in the customers' approval inventory
    MaxMoves, MaxChanges    \* bounds

DiscoveryAssumption ==
    /\ Billed \subseteq Payers /\ Shared \subseteq Payers /\ Approved \subseteq Accounts
    /\ MaxMoves \in Nat /\ MaxChanges \in Nat

VARIABLES
    member,         \* account -> the payer whose organization it is in, or Outside
    bills,          \* payer -> the accounts its bills of the last months name
    account,        \* account -> the inventory's row, or Unseen
    assigned,       \* account -> the payer whose customer owns it, or NoPayer
    version,        \* payer -> changes of the connection's settings
    run,            \* payer -> the discovery that holds the lease, and one that has lost it
    moves           \* moves so far

vars == <<member, bills, account, assigned, version, run, moves>>

Outside == "outside"
NoPayer == "nobody"
Unseen == [seen |-> FALSE]
NoRun == [found |-> {}, version |-> 0, going |-> FALSE]
Holders == {"leased", "late"}
Run == [found : SUBSET Accounts, version : 0..MaxChanges, going : BOOLEAN]

TypeOK ==
    /\ member \in [Accounts -> Payers \cup {Outside}]
    /\ bills \in [Payers -> SUBSET Accounts]
    /\ account \in [Accounts -> {Unseen} \cup [seen : {TRUE}, source : Payers, missing : BOOLEAN]]
    /\ assigned \in [Accounts -> Payers \cup {NoPayer}]
    /\ \A a \in Accounts : assigned[a] # NoPayer => account[a] # Unseen
    /\ version \in [Payers -> 0..MaxChanges]
    /\ run \in [Payers -> [Holders -> Run]]
    /\ moves \in 0..MaxMoves

Init ==
    /\ member \in [Accounts -> Payers \cup {Outside}]
    /\ bills = [p \in Payers |-> {a \in Accounts : member[a] = p}]
    /\ account = [a \in Accounts |-> Unseen] /\ assigned = [a \in Accounts |-> NoPayer]
    /\ version = [p \in Payers |-> 0]
    /\ run = [p \in Payers |-> [h \in Holders |-> NoRun]]
    /\ moves = 0

----------------------------------------------------------------------------
Found(p) == IF p \in Billed THEN bills[p] ELSE {a \in Accounts : member[a] = p}
Ask(p) ==
    /\ ~run[p]["leased"].going
    /\ run' = [run EXCEPT ![p]["leased"] = [found |-> Found(p), version |-> version[p], going |-> TRUE]]
    /\ UNCHANGED <<member, bills, account, assigned, version, moves>>
(* The lease runs out: another worker takes the job, this one goes on.     *)
LoseLease(p) ==
    /\ run[p]["leased"].going /\ ~run[p]["late"].going
    /\ run' = [run EXCEPT ![p] = [leased |-> NoRun, late |-> run[p]["leased"]]]
    /\ UNCHANGED <<member, bills, account, assigned, version, moves>>

Missing_Everywhere(p, found) == {a \in Accounts \ found : p \notin Billed /\ account[a] # Unseen}

Missing(p, found) ==
    {a \in Accounts \ found : p \notin Billed /\ account[a] # Unseen /\ account[a].source = p}
AutoAssigned(p, accounts) ==
    [a \in Accounts |->
       IF a \in accounts /\ a \in Approved /\ p \notin Shared /\ assigned[a] = NoPayer THEN p ELSE assigned[a]]
Current(p, h) == run[p][h].version = version[p]
Write(p, h) ==
    /\ run[p][h].going
    /\ \/ /\ Current(p, h)
          /\ LET found == run[p][h].found IN
             /\ account' = [a \in Accounts |->
                  IF a \in found THEN [seen |-> TRUE, source |-> p, missing |-> FALSE]
                  ELSE IF a \in Missing(p, found) THEN [account[a] EXCEPT !.missing = TRUE] ELSE account[a]]
             /\ assigned' = AutoAssigned(p, found)
       \/ ~Current(p, h) /\ UNCHANGED <<account, assigned>>
    /\ run' = [run EXCEPT ![p][h] = NoRun]
    /\ UNCHANGED <<member, bills, version, moves>>

(* An operator adds accounts by hand; one of another connection is refused. *)
AddManually(p, a) ==
    /\ a \in Approved
    /\ account[a] # Unseen => account[a].source = p
    /\ p \notin Shared => assigned[a] \in {NoPayer, p}
    /\ account' = [account EXCEPT ![a] = IF @ = Unseen THEN [seen |-> TRUE, source |-> p, missing |-> FALSE] ELSE @]
    /\ assigned' = [x \in Accounts |-> IF x = a /\ p \notin Shared THEN p ELSE assigned[x]]
    /\ UNCHANGED <<member, bills, version, run, moves>>
ChangeConnection(p) ==
    /\ version[p] < MaxChanges
    /\ version' = [version EXCEPT ![p] = @ + 1]
    /\ UNCHANGED <<member, bills, account, assigned, run, moves>>

(* AWS: an account moves, and an old bill leaves the window.               *)
Move(a, p) ==
    /\ moves < MaxMoves /\ member[a] # p
    /\ moves' = moves + 1
    /\ member' = [member EXCEPT ![a] = p]
    /\ bills' = [q \in Payers |-> IF q = p THEN bills[q] \cup {a} ELSE bills[q]]
    /\ UNCHANGED <<account, assigned, version, run>>
Forget(p, a) ==
    /\ a \in bills[p] /\ member[a] # p
    /\ bills' = [bills EXCEPT ![p] = @ \ {a}]
    /\ UNCHANGED <<member, account, assigned, version, run, moves>>

Next ==
    \/ \E p \in Payers : Ask(p) \/ LoseLease(p) \/ ChangeConnection(p) \/ \E h \in Holders : Write(p, h)
    \/ \E p \in Payers, a \in Accounts : AddManually(p, a) \/ Forget(p, a)
    \/ \E a \in Accounts, p \in Payers \cup {Outside} : Move(a, p)

Spec == Init /\ [][Next]_vars

(* Discovery is scheduled daily and its jobs end; bills leave the window.  *)
Fairness ==
    /\ \A p \in Payers : WF_vars(Ask(p)) /\ \A h \in Holders : WF_vars(Write(p, h))
    /\ \A p \in Payers, a \in Accounts : WF_vars(Forget(p, a))
FairSpec == Spec /\ Fairness

----------------------------------------------------------------------------
(* The inventory comes to agree with AWS, in spite of late answers and of  *)
(* accounts two connections claimed: once nothing moves, an account is     *)
(* under the payer it is in and not missing, and one that has left a       *)
(* payer's organization is missing.                                        *)
Right(a) ==
    IF member[a] # Outside THEN account[a] = [seen |-> TRUE, source |-> member[a], missing |-> FALSE]
    ELSE account[a] = Unseen \/ account[a].source \in Billed \/ account[a].missing
InventoryConverges == \A a \in Accounts : <>[]Right(a)

(* No answer, however late, and no account added by hand takes an assigned *)
(* account from its customer.                                              *)
AssignmentIsKept == \A a \in Accounts : assigned[a] # NoPayer => assigned'[a] = assigned[a]
=============================================================================
