------------------------------- MODULE Broker -------------------------------
(***************************************************************************)
(* The onboarding broker of deploy/onboarding-broker/broker.py: a Lambda   *)
(* function that adds one customer role to the inline IAM policy of the    *)
(* collector.  The DynamoDB item holds the roles that are wanted and a     *)
(* version; it is read consistently and written on the condition that the  *)
(* version has not changed.  IAM answers reads from any policy it had      *)
(* since it was last consistent.  An action is one call to AWS; a call     *)
(* that fails, a timeout and the end of the function at any point are Fail. *)
(***************************************************************************)
EXTENDS Integers, FiniteSets

CONSTANTS
    Roles,        \* customer role ARNs
    Invocations,  \* invocations of the function that may exist at a time
    Idle,         \* the role of an invocation that is not running
    Reserved,     \* whether at most one runs: ReservedConcurrentExecutions is 1
    Capacity,     \* roles that fit in MAX_POLICY_CHARACTERS
    MaxReads,     \* reads that may confirm a written policy (7 in the code)
    MaxReconciles \* bound: roles a hosting administrator withdraws

ASSUME ConstantsAssumption ==
    /\ Idle \notin Roles
    /\ Reserved \in BOOLEAN
    /\ Capacity \in Nat
    /\ MaxReads \in Nat \ {0}
    /\ MaxReconciles \in Nat

VARIABLES
    roles,      \* the item's Roles; empty while there is no item
    version,    \* the item's Version; 0 while there is no item
    policy,     \* the roles of the inline policy; empty while there is none
    views,      \* what an eventually consistent read of the policy may return
    phase,      \* the next call of an invocation
    role,       \* the role it was invoked for
    existing,   \* the policy it read
    desired,    \* the roles it read from the item
    previous,   \* the version it read
    reads,      \* reads left to confirm what it wrote
    allowed,    \* roles reported as allowed (history)
    reconciles

itemVars == <<roles, version>>
iamVars == <<policy, views>>
localVars == <<role, existing, desired, previous, reads>>
vars == <<itemVars, iamVars, phase, localVars, allowed, reconciles>>

Phases == {"idle", "policy", "item", "persist", "put", "confirm", "answer"}

TypeOK ==
    /\ roles \in SUBSET Roles
    /\ version \in Nat
    /\ policy \in SUBSET Roles
    /\ views \in SUBSET (SUBSET Roles)
    /\ phase \in [Invocations -> Phases]
    /\ role \in [Invocations -> Roles \union {Idle}]
    /\ \A i \in Invocations : role[i] = Idle <=> phase[i] = "idle"
    /\ existing \in [Invocations -> SUBSET Roles]
    /\ desired \in [Invocations -> SUBSET Roles]
    /\ previous \in [Invocations -> Nat]
    /\ reads \in [Invocations -> 0..MaxReads]
    /\ allowed \in SUBSET Roles
    /\ reconciles \in 0..MaxReconciles

Init ==
    /\ roles = {} /\ version = 0
    /\ policy = {} /\ views = {{}}
    /\ phase = [i \in Invocations |-> "idle"]
    /\ role = [i \in Invocations |-> Idle]
    /\ existing = [i \in Invocations |-> {}]
    /\ desired = [i \in Invocations |-> {}]
    /\ previous = [i \in Invocations |-> 0]
    /\ reads = [i \in Invocations |-> 0]
    /\ allowed = {}
    /\ reconciles = 0

Goto(i, p) == phase' = [phase EXCEPT ![i] = p]

\* The invocation has returned or was ended: nothing of it is left.
End(i) ==
    /\ Goto(i, "idle")
    /\ role' = [role EXCEPT ![i] = Idle]
    /\ existing' = [existing EXCEPT ![i] = {}]
    /\ desired' = [desired EXCEPT ![i] = {}]
    /\ previous' = [previous EXCEPT ![i] = 0]
    /\ reads' = [reads EXCEPT ![i] = 0]

\* What the item and the policy shall hold.
Updated(i) == desired[i] \union {role[i]}

-----------------------------------------------------------------------------
(* provision                                                                *)

\* mutant: the function is deployed without the reservation
Admits_Any(i) == TRUE
\* Lambda admits an invocation; with reserved concurrency one it throttles others.
Admits(i) == Reserved => \A k \in Invocations : phase[k] = "idle"

Invoke(i, r) ==
    /\ phase[i] = "idle"
    /\ Admits(i)
    /\ role' = [role EXCEPT ![i] = r]
    /\ Goto(i, "policy")
    /\ UNCHANGED <<itemVars, iamVars, existing, desired, previous, reads, allowed, reconciles>>

\* read_policy: GetRolePolicy may answer with an earlier policy.
ReadPolicy(i) ==
    /\ phase[i] = "policy"
    /\ \E view \in views : existing' = [existing EXCEPT ![i] = view]
    /\ Goto(i, "item")
    /\ UNCHANGED <<itemVars, iamVars, role, desired, previous, reads, allowed, reconciles>>

\* mutant: a role that is already registered is reported without a look at the policy
NextCall_Registered(i, found, S) == IF found # S THEN "persist" ELSE "answer"
\* mutant: the policy is written first and the item is left for the next call
NextCall_PutFirst(i, found, S) == IF existing[i] # S THEN "put" ELSE "answer"
\* Where an invocation goes that found these roles in the item and wants item and policy
\* to hold S.
NextCall(i, found, S) ==
    IF found # S THEN "persist" ELSE IF existing[i] # S THEN "put" ELSE "answer"

\* read_state, and the checks before anything is written: a policy with roles the
\* item lacks is for an administrator to review, and a policy that would be too long is
\* refused.
Reviewed(i) == existing[i] \subseteq roles
Fits(i) == Cardinality(roles \union {role[i]}) <= Capacity

ReadItem(i) ==
    /\ phase[i] = "item"
    /\ Reviewed(i) /\ Fits(i)
    /\ desired' = [desired EXCEPT ![i] = roles]
    /\ previous' = [previous EXCEPT ![i] = version]
    /\ Goto(i, NextCall(i, roles, roles \union {role[i]}))
    /\ UNCHANGED <<itemVars, iamVars, role, existing, reads, allowed, reconciles>>

\* mutant: UpdateItem without the condition
Unchanged_Not(i) == TRUE
\* persist_state: the item is written unless it changed since it was read.
Unchanged(i) == version = previous[i]

Persist(i) ==
    /\ phase[i] = "persist"
    /\ Unchanged(i)
    /\ roles' = Updated(i)
    /\ version' = previous[i] + 1
    /\ Goto(i, "put")
    /\ UNCHANGED <<iamVars, localVars, allowed, reconciles>>

\* PutRolePolicy replaces the whole document.
Put(i) ==
    /\ phase[i] = "put"
    /\ policy' = Updated(i)
    /\ views' = views \union {Updated(i)}
    /\ reads' = [reads EXCEPT ![i] = MaxReads]
    /\ Goto(i, "confirm")
    /\ UNCHANGED <<itemVars, role, existing, desired, previous, allowed, reconciles>>

\* mutant: the loop that confirms the policy does not end
ReadsLeft_Always(i) == TRUE
\* The loop that confirms the policy makes another read.
ReadsLeft(i) == reads[i] > 0

\* A read shows the written policy, or another read follows.
Confirm(i) ==
    /\ phase[i] = "confirm" /\ ReadsLeft(i)
    /\ \E view \in views :
        Goto(i, IF view = Updated(i) THEN "answer" ELSE "confirm")
    /\ reads' = [reads EXCEPT ![i] = @ - 1]
    /\ UNCHANGED <<itemVars, iamVars, role, existing, desired, previous, allowed, reconciles>>

\* {"role_arn": ..., "status": "allowed"}
Answer(i) ==
    /\ phase[i] = "answer"
    /\ allowed' = allowed \union {role[i]}
    /\ End(i)
    /\ UNCHANGED <<itemVars, iamVars, reconciles>>

Provision(i) ==
    ReadPolicy(i) \/ ReadItem(i) \/ Persist(i) \/ Put(i) \/ Confirm(i) \/ Answer(i)

\* The invocation gives up: a check refuses it, the condition of the write fails, or no
\* read confirms the policy.
Refuse(i) ==
    /\ \/ phase[i] = "item" /\ ~(Reviewed(i) /\ Fits(i))
       \/ phase[i] = "persist" /\ ~Unchanged(i)
       \/ phase[i] = "confirm" /\ ~ReadsLeft(i)
    /\ End(i)
    /\ UNCHANGED <<itemVars, iamVars, allowed, reconciles>>

\* A call fails, its answer is lost after it took effect, or the function is ended:
\* in each case the invocation makes no further call.
Fail(i) ==
    /\ phase[i] # "idle"
    /\ End(i)
    /\ UNCHANGED <<itemVars, iamVars, allowed, reconciles>>

-----------------------------------------------------------------------------
(* The environment                                                          *)

\* IAM becomes consistent.
Settle ==
    /\ views # {policy}
    /\ views' = {policy}
    /\ UNCHANGED <<itemVars, policy, phase, localVars, allowed, reconciles>>

\* A hosting administrator, with onboarding disabled, removes a role from both the
\* policy and the item, and checks that IAM is consistent before it is resumed.  An item
\* cannot hold an empty set of roles: the last role stays.
Reconcile(r) ==
    /\ reconciles < MaxReconciles
    /\ \A i \in Invocations : phase[i] = "idle"
    /\ r \in roles /\ roles # {r}
    /\ roles' = roles \ {r}
    /\ version' = version + 1
    /\ policy' = policy \ {r}
    /\ views' = {policy'}
    /\ allowed' = allowed \ {r}
    /\ reconciles' = reconciles + 1
    /\ UNCHANGED <<phase, localVars>>

\* A hosting administrator adds a role to the policy by hand, before any invocation that
\* might find it there.
GrantByHand(r) ==
    /\ \A i \in Invocations : phase[i] = "idle"
    /\ r \notin policy
    /\ policy' = policy \union {r}
    /\ views' = views \union {policy'}
    /\ UNCHANGED <<itemVars, phase, localVars, allowed, reconciles>>

-----------------------------------------------------------------------------

Next ==
    \/ \E i \in Invocations, r \in Roles : Invoke(i, r)
    \/ \E i \in Invocations : Provision(i) \/ Refuse(i) \/ Fail(i)
    \/ \E r \in Roles : Reconcile(r)
    \/ Settle

Spec == Init /\ [][Next]_vars

\* With an administrator who edits the policy by hand.
HandNext == Next \/ \E r \in Roles : GrantByHand(r)
HandSpec == Init /\ [][HandNext]_vars

\* A request for some role that was saved is submitted again, by the coordinator or by its
\* user; no call of such an invocation fails every time; an invocation ends in 60 seconds.
Retry == \E i \in Invocations, r \in Roles : r \in roles /\ Invoke(i, r)
Fairness ==
    /\ SF_vars(Retry)
    /\ \A i \in Invocations :
        /\ SF_vars(role[i] \in roles /\ ReadPolicy(i))
        /\ SF_vars(role[i] \in roles /\ ReadItem(i))
        /\ SF_vars(Put(i))
        /\ WF_vars(Provision(i) \/ Refuse(i) \/ Fail(i))

FairSpec == Spec /\ Fairness

-----------------------------------------------------------------------------
(* Properties                                                               *)

\* The broker's promise (README.md: "IAM is rendered from that authoritative set, so an
\* eventually consistent IAM read cannot accidentally drop a previously registered
\* account"): a role it reported as allowed is granted and no later invocation, failed or
\* not, takes it away.  It rests on reserved concurrency one.
Grants == INSTANCE RoleGrants WITH granted <- policy, promised <- allowed
ImplementsRoleGrants == Grants!Spec

\* Every grant is recorded: the policy never holds a role that the item lacks, whatever
\* call failed before (broker.py:173-180), so that no invocation is refused for review.
GrantsAreRecorded == policy \subseteq roles

\* Even if two invocations ran at a time, the version condition of the item would keep
\* a registration that one of them saved from being overwritten by the other
\* (broker.py:138-152): only an administrator removes one.
RegistrationsAreKept == [][reconciles' = reconciles => roles \subseteq roles']_vars

\* A request that was saved takes effect although the call that saved it failed: by a
\* retry, or by the next registration of any other role.
SavedIsGranted == \A r \in Roles : r \in roles ~> (r \in policy \/ r \notin roles)

\* README.md:31: "IAM grants absent from the authoritative set fail closed for
\* administrator review": the broker does not overwrite a grant that was in the policy
\* before it was invoked.  Its read of the policy (broker.py:166) may not show the grant.
UnknownGrantsAreReviewed ==
    [][\A i \in Invocations : Put(i) => policy \subseteq roles]_vars
=============================================================================
