----------------------------- MODULE RoleGrants -----------------------------
(***************************************************************************)
(* What the onboarding broker promises the rest of the system: a role that *)
(* it reported as allowed is granted by the collector's IAM policy, and    *)
(* stays granted until a hosting administrator withdraws it.  Roles may be *)
(* granted without having been reported.  Broker is shown to implement     *)
(* this; the activation coordinator relies on no more.                     *)
(***************************************************************************)

CONSTANT Roles   \* customer role ARNs

VARIABLES
    granted,     \* the roles the IAM policy lets the collector assume
    promised     \* the roles reported as allowed

vars == <<granted, promised>>

Init == granted = {} /\ promised = {}

\* Roles are granted; none is lost.
Grant(S) ==
    /\ granted' = granted \union S
    /\ UNCHANGED promised

\* A granted role is reported as allowed.
Promise(r) ==
    /\ r \in granted
    /\ promised' = promised \union {r}
    /\ UNCHANGED granted

\* An administrator withdraws a role.
Withdraw(r) ==
    /\ granted' = granted \ {r}
    /\ promised' = promised \ {r}

Next ==
    \/ \E S \in SUBSET Roles : Grant(S)
    \/ \E r \in Roles : Promise(r) \/ Withdraw(r)

Spec == Init /\ [][Next]_vars
=============================================================================
