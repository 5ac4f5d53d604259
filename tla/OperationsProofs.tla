--------------------------- MODULE OperationsProofs ---------------------------
(***************************************************************************)
(* The broker's theorems, for every set of roles and invocations, and what *)
(* the run Operations checks of all seven components: each holds of       *)
(* its component for every value of the constants (InstallationProofs),    *)
(* and so of the sum that the run explores.                                *)
(***************************************************************************)
EXTENDS MCOperations, TLAPS

Parts == INSTANCE InstallationProofs WITH
    Releases <- Pair, OldVolume <- "pg17", NewVolume <- "pg18", MaxWrites <- 1,
    run <- x1, journal <- x2, built <- x3, backup <- x4, kept <- x5, current <- x6, root <- x7,
    writers <- x8, marker <- x9, ci <- x10, data <- x11, accepted <- x12, served <- x13, original <- x14,
    record <- x1, stamped <- x2, at <- x3, owner <- x4, planned <- x5, container <- x6, column <- x7,
    recorded <- x8, file <- x9, baseline <- x10,
    Packages <- Pair, Scripts <- {"s1", "s2"}, Commands <- {"c1"}, MaxMigrations <- 2,
    disk <- x1, left <- x2, protected <- x3, lock <- x4, script <- x5, execution <- x6,
    Browsers <- Pair, Codes <- {Code}, MaxPasswords <- 2, MaxVersions <- 3, MaxDevices <- 2, MaxTime <- 2,
    allowed <- x1, password <- x2, version <- x3, codes <- x4, device <- x5, last <- x6,
    locked <- x7, made <- x8, now <- x9, session <- x10, read <- x11, change <- x12, uses <- x13,
    Users <- Pair, Customers <- {"A"}, Tokens <- {"t1"}, Clients <- Roles,
    people <- x1, member <- x2, invitation <- x3, request <- x4, admitted <- x5, serving <- x6,
    Arns <- {"given", "r1", "r2"}, Given <- {"given"}, MaxInstalls <- 3,
    named <- x1, list <- x2, copies <- x3, hba <- x4, loaded <- x5, installed <- x6,
    installer <- x7, adder <- x8, approved <- x9, installs <- x10

-----------------------------------------------------------------------------
(* The broker.  What holds of the item needs no more than the version       *)
(* condition; that a promised role stays granted also needs that one        *)
(* invocation runs at a time.                                                *)

Step(i) == Provision(i) \/ Refuse(i) \/ Fail(i)

USE ConstantsAssumption

LEMMA BrokerTypeInit == Init => TypeOK
  BY DEF Init, TypeOK, Phases

LEMMA BrokerTypeStep == TypeOK /\ [Next]_vars => TypeOK'
<1> SUFFICES ASSUME TypeOK, [Next]_vars PROVE TypeOK'
  OBVIOUS
<1> USE DEF TypeOK, Phases, Goto, End, Updated, itemVars, iamVars, localVars
<1>1. ASSUME NEW i \in Invocations, NEW r \in Roles, Invoke(i, r) PROVE TypeOK'
  BY <1>1 DEF Invoke
<1>2. ASSUME NEW i \in Invocations, ReadPolicy(i) PROVE TypeOK'
  BY <1>2 DEF ReadPolicy
<1>3. ASSUME NEW i \in Invocations, ReadItem(i) PROVE TypeOK'
  BY <1>3 DEF ReadItem, NextCall
<1>4. ASSUME NEW i \in Invocations, Persist(i) PROVE TypeOK'
  BY <1>4 DEF Persist
<1>5. ASSUME NEW i \in Invocations, Put(i) PROVE TypeOK'
  BY <1>5 DEF Put
<1>6. ASSUME NEW i \in Invocations, Confirm(i) PROVE TypeOK'
  BY <1>6 DEF Confirm, ReadsLeft
<1>7. ASSUME NEW i \in Invocations, Answer(i) PROVE TypeOK'
  BY <1>7 DEF Answer
<1>8. ASSUME NEW i \in Invocations, Refuse(i) \/ Fail(i) PROVE TypeOK'
  BY <1>8 DEF Refuse, Fail
<1>9. ASSUME NEW r \in Roles, Reconcile(r) PROVE TypeOK'
  BY <1>9 DEF Reconcile
<1>10. CASE Settle \/ UNCHANGED vars
  BY <1>10 DEF Settle, vars
<1> QED
  BY <1>1, <1>2, <1>3, <1>4, <1>5, <1>6, <1>7, <1>8, <1>9, <1>10 DEF Next, Provision

\* The variables of the broker, the item, the policy and its invocations, keep their
\* types (broker.py:159-201).
THEOREM TypeCorrect == Spec => []TypeOK
  BY BrokerTypeInit, BrokerTypeStep, PTL DEF Spec

-----------------------------------------------------------------------------
(* The item                                                                 *)

\* An invocation whose write would be accepted still knows the item, and one that goes on
\* to write the policy knows no role that the item lacks.
ItemInv ==
    /\ \A i \in Invocations : previous[i] <= version
    /\ \A i \in Invocations :
        phase[i] = "persist" /\ previous[i] = version => desired[i] = roles
    /\ \A i \in Invocations : phase[i] = "put" => Updated(i) \subseteq roles
    /\ GrantsAreRecorded

LEMMA ItemInvInit == Init => ItemInv
  BY DEF Init, ItemInv, GrantsAreRecorded

LEMMA ItemInvStep ==
    ASSUME TypeOK, ItemInv, [Next]_vars PROVE ItemInv'
<1> USE DEF TypeOK, ItemInv, GrantsAreRecorded, Goto, End, Updated,
            itemVars, iamVars, localVars
<1>1. ASSUME NEW i \in Invocations, NEW r \in Roles, Invoke(i, r) PROVE ItemInv'
  BY <1>1 DEF Invoke
<1>2. ASSUME NEW i \in Invocations, ReadPolicy(i) PROVE ItemInv'
  BY <1>2 DEF ReadPolicy
<1>3. ASSUME NEW i \in Invocations, ReadItem(i) PROVE ItemInv'
  BY <1>3 DEF ReadItem, NextCall
<1>4. ASSUME NEW i \in Invocations, Persist(i) PROVE ItemInv'
  <2>1. roles \subseteq roles' /\ Updated(i) \subseteq roles'
    BY <1>4 DEF Persist, Unchanged
  <2>2. version' > version /\ UNCHANGED <<previous, desired, role, policy>>
    BY <1>4 DEF Persist, Unchanged
  <2> QED
    BY <1>4, <2>1, <2>2 DEF Persist
<1>5. ASSUME NEW i \in Invocations, Put(i) PROVE ItemInv'
  BY <1>5 DEF Put
<1>6. ASSUME NEW i \in Invocations, Confirm(i) PROVE ItemInv'
  BY <1>6 DEF Confirm
<1>7. ASSUME NEW i \in Invocations, Answer(i) PROVE ItemInv'
  BY <1>7 DEF Answer
<1>8. ASSUME NEW i \in Invocations, Refuse(i) \/ Fail(i) PROVE ItemInv'
  BY <1>8 DEF Refuse, Fail
<1>9. ASSUME NEW r \in Roles, Reconcile(r) PROVE ItemInv'
  BY <1>9 DEF Reconcile
<1>10. CASE Settle \/ UNCHANGED vars
  BY <1>10 DEF Settle, vars
<1> QED
  BY <1>1, <1>2, <1>3, <1>4, <1>5, <1>6, <1>7, <1>8, <1>9, <1>10 DEF Next, Provision

\* Whatever calls fail and however many invocations run, the IAM policy holds no role that
\* the DynamoDB item lacks (broker.py:173-180).
THEOREM GrantsRecorded == Spec => []GrantsAreRecorded
<1>1. ItemInv => GrantsAreRecorded
  BY DEF ItemInv
<1> QED
  BY <1>1, TypeCorrect, ItemInvInit, ItemInvStep, PTL DEF Spec

\* However many invocations run, only an administrator takes a role out of the DynamoDB
\* item (broker.py:138-152).
THEOREM RegistrationsKept == Spec => RegistrationsAreKept
<1>1. ASSUME TypeOK, ItemInv, [Next]_vars
      PROVE [reconciles' = reconciles => roles \subseteq roles']_vars
  <2>1. ASSUME NEW i \in Invocations, Persist(i) PROVE roles \subseteq roles'
    BY <1>1, <2>1 DEF Persist, Unchanged, ItemInv, Updated
  <2>2. ASSUME NEW r \in Roles, Reconcile(r) PROVE reconciles' # reconciles
    BY <1>1, <2>2 DEF Reconcile, TypeOK
  <2>3. ASSUME NEW i \in Invocations, Step(i), ~Persist(i) PROVE roles' = roles
    BY <2>3 DEF Step, Provision, ReadPolicy, ReadItem, Put, Confirm, Answer, Refuse,
                Fail, itemVars
  <2>4. CASE \E i \in Invocations, r \in Roles : Invoke(i, r)
    BY <2>4 DEF Invoke, itemVars
  <2>5. CASE Settle
    BY <2>5 DEF Settle, itemVars
  <2> QED
    BY <1>1, <2>1, <2>2, <2>3, <2>4, <2>5 DEF Next, Step
<1> QED
  BY <1>1, TypeCorrect, ItemInvInit, ItemInvStep, PTL DEF Spec, RegistrationsAreKept

-----------------------------------------------------------------------------
(* The promise                                                              *)

\* One invocation runs; IAM shows no role that is not granted; the running invocation
\* knows every granted role when it writes, and has seen its role granted when it answers.
PromiseInv ==
    /\ \A i, k \in Invocations : phase[i] # "idle" /\ phase[k] # "idle" => i = k
    /\ \A view \in views : view \subseteq policy
    /\ \A i \in Invocations :
        phase[i] \notin {"idle", "policy"} => existing[i] \subseteq policy
    /\ \A i \in Invocations : phase[i] \in {"persist", "put"} => policy \subseteq desired[i]
    /\ \A i \in Invocations : phase[i] \in {"confirm", "answer"} => role[i] \in policy
    /\ allowed \subseteq policy

LEMMA PromiseInvInit == Init => PromiseInv
  BY DEF Init, PromiseInv

LEMMA PromiseInvStep ==
    ASSUME Reserved, TypeOK, ItemInv, PromiseInv, [Next]_vars PROVE PromiseInv'
<1> USE DEF TypeOK, PromiseInv, Goto, End, Updated, itemVars, iamVars, localVars
<1>1. ASSUME NEW i \in Invocations, NEW r \in Roles, Invoke(i, r) PROVE PromiseInv'
  BY <1>1 DEF Invoke, Admits
<1>2. ASSUME NEW i \in Invocations, ReadPolicy(i) PROVE PromiseInv'
  BY <1>2 DEF ReadPolicy
<1>3. ASSUME NEW i \in Invocations, ReadItem(i) PROVE PromiseInv'
  <2>1. policy \subseteq roles
    BY DEF ItemInv, GrantsAreRecorded
  <2>2. phase'[i] \in {"persist", "put", "answer"} /\ desired'[i] = roles
    BY <1>3 DEF ReadItem, NextCall
  <2>3. phase'[i] = "answer" => role[i] \in policy
    BY <1>3 DEF ReadItem, NextCall
  <2>4. \A k \in Invocations : k # i => phase'[k] = "idle"
    BY <1>3 DEF ReadItem
  <2>5. phase[i] = "item" /\ UNCHANGED <<policy, views, existing, role, allowed>>
    BY <1>3 DEF ReadItem
  <2> QED
    BY <2>1, <2>2, <2>3, <2>4, <2>5
<1>4. ASSUME NEW i \in Invocations, Persist(i) PROVE PromiseInv'
  BY <1>4 DEF Persist
<1>5. ASSUME NEW i \in Invocations, Put(i) PROVE PromiseInv'
  <2>1. policy \subseteq policy' /\ role[i] \in policy'
    BY <1>5 DEF Put
  <2> QED
    BY <1>5, <2>1 DEF Put
<1>6. ASSUME NEW i \in Invocations, Confirm(i) PROVE PromiseInv'
  BY <1>6 DEF Confirm
<1>7. ASSUME NEW i \in Invocations, Answer(i) PROVE PromiseInv'
  BY <1>7 DEF Answer
<1>8. ASSUME NEW i \in Invocations, Refuse(i) \/ Fail(i) PROVE PromiseInv'
  BY <1>8 DEF Refuse, Fail
<1>9. ASSUME NEW r \in Roles, Reconcile(r) PROVE PromiseInv'
  BY <1>9 DEF Reconcile
<1>10. CASE Settle \/ UNCHANGED vars
  BY <1>10 DEF Settle, vars
<1> QED
  BY <1>1, <1>2, <1>3, <1>4, <1>5, <1>6, <1>7, <1>8, <1>9, <1>10 DEF Next, Provision

\* With reserved concurrency one (template.json:68), the broker keeps its promise: a role
\* that it reported as allowed is granted, and only an administrator withdraws it.
THEOREM KeepsPromise == ASSUME Reserved PROVE Spec => ImplementsRoleGrants
<1>1. Init => Grants!Init
  BY DEF Init, Grants!Init
<1>2. ASSUME TypeOK, PromiseInv, [Next]_vars PROVE [Grants!Next]_(Grants!vars)
  <2> USE DEF Grants!vars, Grants!Next
  <2>1. ASSUME NEW i \in Invocations, Put(i) PROVE Grants!Next
    <3>1. Updated(i) \in SUBSET Roles
      BY <1>2, <2>1 DEF Put, TypeOK, Updated
    <3>2. Grants!Grant(Updated(i))
      BY <1>2, <2>1 DEF Put, PromiseInv, Updated, Grants!Grant
    <3> QED
      BY <3>1, <3>2
  <2>2. ASSUME NEW i \in Invocations, Answer(i) PROVE Grants!Next
    <3>1. role[i] \in Roles
      BY <1>2, <2>2 DEF Answer, TypeOK
    <3>2. Grants!Promise(role[i])
      BY <1>2, <2>2 DEF Answer, PromiseInv, iamVars, Grants!Promise
    <3> QED
      BY <3>1, <3>2
  <2>3. ASSUME NEW r \in Roles, Reconcile(r) PROVE Grants!Next
    BY <2>3 DEF Reconcile, Grants!Withdraw
  <2>4. ASSUME NEW i \in Invocations, Step(i), ~Put(i), ~Answer(i)
        PROVE UNCHANGED <<policy, allowed>>
    BY <2>4 DEF Step, Provision, ReadPolicy, ReadItem, Persist, Confirm, Refuse, Fail, iamVars
  <2>5. CASE \E i \in Invocations, r \in Roles : Invoke(i, r)
    BY <2>5 DEF Invoke, iamVars
  <2>6. CASE Settle \/ UNCHANGED vars
    BY <2>6 DEF Settle, vars, iamVars
  <2> QED
    BY <1>2, <2>1, <2>2, <2>3, <2>4, <2>5, <2>6 DEF Next, Step
<1> QED
  BY <1>1, <1>2, TypeCorrect, ItemInvInit, ItemInvStep, PromiseInvInit, PromiseInvStep, PTL
  DEF Spec, ImplementsRoleGrants, Grants!Spec

-----------------------------------------------------------------------------
(* The sum.  A part of the run that has the turn takes its own steps, and   *)
(* the definitions of its instance here and in Parts are the same ones.     *)

LEMMA HostBegins == Host!Init => Parts!Init
  BY DEF
     Host!Init, Parts!Init, Host!AgentInit, Parts!AgentInit, Host!Volumes, Parts!Volumes,
     Host!Free, Parts!Free

LEMMA HostMoves == Host!Next => Parts!Next
  BY DEF
     Host!Next, Parts!Next, Host!AgentNext, Parts!AgentNext, Host!upgradeVars, Parts!upgradeVars,
     Host!UpgradeNext, Parts!UpgradeNext, Host!Write, Parts!Write, Host!StartDeploy,
     Parts!StartDeploy, Host!Activate, Parts!Activate, Host!Rollback, Parts!Rollback, Host!Stage,
     Parts!Stage, Host!CommandFails, Parts!CommandFails, Host!Coordinate, Parts!Coordinate,
     Host!AgentDies, Parts!AgentDies, Host!Rehearse, Parts!Rehearse, Host!Freeze, Parts!Freeze,
     Host!StopWriters, Parts!StopWriters, Host!FinalRestore, Parts!FinalRestore, Host!KeepEnv,
     Parts!KeepEnv, Host!SaveSwitching, Parts!SaveSwitching, Host!PatchEnv, Parts!PatchEnv,
     Host!StartNew, Parts!StartNew, Host!AwaitVerification, Parts!AwaitVerification,
     Host!BeginUndo, Parts!BeginUndo, Host!RestoreEnv, Parts!RestoreEnv, Host!SaveUndone,
     Parts!SaveUndone, Host!Reopen, Parts!Reopen, Host!StartWriters, Parts!StartWriters,
     Host!ToolDies, Parts!ToolDies, Host!agentVars, Parts!agentVars, Host!Deploying,
     Parts!Deploying, Host!Free, Parts!Free, Host!BeginActivation, Parts!BeginActivation,
     Host!ReactivateActive, Parts!ReactivateActive, Host!SaveActivating, Parts!SaveActivating,
     Host!ClaimCurrent, Parts!ClaimCurrent, Host!StopCollector, Parts!StopCollector,
     Host!ReplaceFiles, Parts!ReplaceFiles, Host!SwitchImage, Parts!SwitchImage, Host!RemoveVenv,
     Parts!RemoveVenv, Host!LinkVenv, Parts!LinkVenv, Host!SaveActive, Parts!SaveActive,
     Host!ConfirmCurrent, Parts!ConfirmCurrent, Host!ActivationFails, Parts!ActivationFails,
     Host!BeginRollback, Parts!BeginRollback, Host!UndoFiles, Parts!UndoFiles, Host!UndoImage,
     Parts!UndoImage, Host!UndoUnlink, Parts!UndoUnlink, Host!UndoVenv, Parts!UndoVenv,
     Host!RestoreCurrent, Parts!RestoreCurrent, Host!SaveRolledBack, Parts!SaveRolledBack,
     Host!Requested, Parts!Requested, Host!Answer, Parts!Answer, Host!Receipt, Parts!Receipt,
     Host!Enter, Parts!Enter, Host!hostVars, Parts!hostVars, Host!Step, Parts!Step, Host!Ends,
     Parts!Ends, Host!NoMaintenance, Parts!NoMaintenance, Host!Begin, Parts!Begin, Host!At,
     Parts!At, Host!Go, Parts!Go, Host!Guarded, Parts!Guarded, Host!MayUndo, Parts!MayUndo,
     Host!SameDatabase, Parts!SameDatabase

LEMMA MigrationBegins == Migration!Init => Parts!Migration!Init
  BY DEF
     Migration!Init, Parts!Migration!Init

LEMMA MigrationMoves == Migration!Next => Parts!Migration!Next
  BY DEF
     Migration!Next, Parts!Migration!Next, Migration!Plan, Parts!Migration!Plan, Migration!Begin,
     Parts!Migration!Begin, Migration!Backup, Parts!Migration!Backup, Migration!StartSql,
     Parts!Migration!StartSql, Migration!Verify, Parts!Migration!Verify, Migration!InstallFile,
     Parts!Migration!InstallFile, Migration!ListBaseline, Parts!Migration!ListBaseline,
     Migration!Complete, Parts!Migration!Complete, Migration!Transaction,
     Parts!Migration!Transaction, Migration!ContainerStops, Parts!Migration!ContainerStops,
     Migration!Dies, Parts!Migration!Dies, Migration!command, Parts!Migration!command,
     Migration!database, Parts!Migration!database, Migration!host, Parts!Migration!host,
     Migration!GoIdle, Parts!Migration!GoIdle, Migration!journals, Parts!Migration!journals,
     Migration!Consistent, Parts!Migration!Consistent

LEMMA SetupBegins == Setup!Init => Parts!Setup!Init
  BY DEF
     Setup!Init, Parts!Setup!Init, Setup!Nothing, Parts!Setup!Nothing, Setup!NoScript,
     Parts!Setup!NoScript, Setup!NoCommand, Parts!Setup!NoCommand

LEMMA SetupMoves == Setup!Next => Parts!Setup!Next
  BY DEF
     Setup!Next, Parts!Setup!Next, Setup!Start, Parts!Setup!Start, Setup!TakeScriptLock,
     Parts!Setup!TakeScriptLock, Setup!Recheck, Parts!Setup!Recheck, Setup!WriteTemporary,
     Parts!Setup!WriteTemporary, Setup!PutFile, Parts!Setup!PutFile, Setup!Raises,
     Parts!Setup!Raises, Setup!ScriptEnds, Parts!Setup!ScriptEnds, Setup!Inspect,
     Parts!Setup!Inspect, Setup!Launch, Parts!Setup!Launch, Setup!ReadConfig,
     Parts!Setup!ReadConfig, Setup!TakeCommandLock, Parts!Setup!TakeCommandLock,
     Setup!CheckHelper, Parts!Setup!CheckHelper, Setup!LoadHelper, Parts!Setup!LoadHelper,
     Setup!InstallMigration, Parts!Setup!InstallMigration, Setup!ListMigration,
     Parts!Setup!ListMigration, Setup!CommandEnds, Parts!Setup!CommandEnds, Setup!EndScript,
     Parts!Setup!EndScript, Setup!Busy, Parts!Setup!Busy, Setup!Wanted, Parts!Setup!Wanted,
     Setup!File, Parts!Setup!File, Setup!Replacing, Parts!Setup!Replacing, Setup!EndCommand,
     Parts!Setup!EndCommand, Setup!NoScript, Parts!Setup!NoScript, Setup!Order, Parts!Setup!Order,
     Setup!NoCommand, Parts!Setup!NoCommand, Setup!Nothing, Parts!Setup!Nothing

LEMMA WorkerBegins == Worker!Init => Parts!Worker!Init
  BY DEF
     Worker!Init, Parts!Worker!Init, Worker!Files, Parts!Worker!Files, Worker!Ended,
     Parts!Worker!Ended, Worker!Resting, Parts!Worker!Resting, Worker!Absent, Parts!Worker!Absent

LEMMA WorkerMoves == Worker!Next => Parts!Worker!Next
  BY DEF
     Worker!Next, Parts!Worker!Next, Worker!Begin, Parts!Worker!Begin, Worker!Copy,
     Parts!Worker!Copy, Worker!AsFound, Parts!Worker!AsFound, Worker!ReadRoles,
     Parts!Worker!ReadRoles, Worker!Union, Parts!Worker!Union, Worker!Put, Parts!Worker!Put,
     Worker!Switch, Parts!Worker!Switch, Worker!Activate, Parts!Worker!Activate, Worker!HasRule,
     Parts!Worker!HasRule, Worker!Truncate, Parts!Worker!Truncate, Worker!WriteRule,
     Parts!Worker!WriteRule, Worker!Signal, Parts!Worker!Signal, Worker!InstallUnit,
     Parts!Worker!InstallUnit, Worker!Dies, Parts!Worker!Dies, Worker!Enable, Parts!Worker!Enable,
     Worker!MergeReads, Parts!Worker!MergeReads, Worker!MergeWrites, Parts!Worker!MergeWrites,
     Worker!Restart, Parts!Worker!Restart, Worker!Ended, Parts!Worker!Ended, Worker!Resting,
     Parts!Worker!Resting, Worker!Absent, Parts!Worker!Absent

LEMMA LoginBegins == Login!Init => Parts!Login!Init
  BY DEF
     Login!Init, Parts!Login!Init, Login!Anonymous, Parts!Login!Anonymous, Login!Unread,
     Parts!Login!Unread, Login!NoChange, Parts!Login!NoChange, Login!Tokens, Parts!Login!Tokens,
     Login!Steps, Parts!Login!Steps

LEMMA LoginMoves == Login!Next => Parts!Login!Next
  BY DEF
     Login!Next, Parts!Login!Next, Login!SignIn, Parts!Login!SignIn, Login!Restart, Parts!Login!Restart,
     Login!CheckPassword, Parts!Login!CheckPassword,
     Login!BeginLogin, Parts!Login!BeginLogin, Login!PendingIdentity, Parts!Login!PendingIdentity,
     Login!Verify, Parts!Login!Verify, Login!Request, Parts!Login!Request, Login!MfaExpires,
     Parts!Login!MfaExpires, Login!ChangeBegins, Parts!Login!ChangeBegins, Login!ChangeEnds,
     Parts!Login!ChangeEnds, Login!ChangeFails, Parts!Login!ChangeFails, Login!ApplyUserChange,
     Parts!Login!ApplyUserChange, Login!RevokeSessions, Parts!Login!RevokeSessions,
     Login!RecoverMfa, Parts!Login!RecoverMfa, Login!Tick, Parts!Login!Tick, Login!Become,
     Parts!Login!Become, Login!Anonymous, Parts!Login!Anonymous, Login!user, Parts!Login!user,
     Login!profile, Parts!Login!profile, Login!factor, Parts!Login!factor, Login!Valid,
     Parts!Login!Valid, Login!VerifyExpired, Parts!Login!VerifyExpired, Login!VerifyEnrols,
     Parts!Login!VerifyEnrols, Login!VerifyToken, Parts!Login!VerifyToken, Login!VerifyRecovery,
     Parts!Login!VerifyRecovery, Login!VerifyFails, Parts!Login!VerifyFails, Login!Live,
     Parts!Login!Live, Login!Counted, Parts!Login!Counted, Login!Replacing, Parts!Login!Replacing,
     Login!NextVersion, Parts!Login!NextVersion, Login!NoChange, Parts!Login!NoChange,
     Login!Challenged, Parts!Login!Challenged, Login!SignedIn, Parts!Login!SignedIn, Login!Rows,
     Parts!Login!Rows

LEMMA AccessBegins == Access!Init => Parts!Access!Init
  BY DEF
     Access!Init, Parts!Access!Init, Access!NoMember, Parts!Access!NoMember, Access!NoRequest,
     Parts!Access!NoRequest, Access!Inactive, Parts!Access!Inactive

LEMMA AccessMoves == Access!Next => Parts!Access!Next
  BY DEF
     Access!Next, Parts!Access!Next, Access!RequestEnds, Parts!Access!RequestEnds, Access!Accept,
     Parts!Access!Accept, Access!BeginAdminister, Parts!Access!BeginAdminister, Access!SaveUser,
     Parts!Access!SaveUser, Access!DeleteUser, Parts!Access!DeleteUser, Access!BeginAccept,
     Parts!Access!BeginAccept, Access!SetPortfolio, Parts!Access!SetPortfolio, Access!Grant,
     Parts!Access!Grant, Access!SupportAccess, Parts!Access!SupportAccess, Access!WindowEnds,
     Parts!Access!WindowEnds, Access!Invite, Parts!Access!Invite, Access!InvitationExpires,
     Parts!Access!InvitationExpires, Access!NoRequest, Parts!Access!NoRequest, Access!Answer,
     Parts!Access!Answer, Access!Admin, Parts!Access!Admin, Access!TakeLock,
     Parts!Access!TakeLock, Access!Changes, Parts!Access!Changes, Access!HasUsers, Parts!Access!HasUsers,
     Access!Offboard, Parts!Access!Offboard, Access!Reactivate, Parts!Access!Reactivate,
     Access!StillAdmin, Parts!Access!StillAdmin, Access!Granted,
     Parts!Access!Granted, Access!RowFree, Parts!Access!RowFree, Access!Gone, Parts!Access!Gone,
     Access!NoMember, Parts!Access!NoMember, Access!MemberRoles, Parts!Access!MemberRoles,
     Access!Inactive, Parts!Access!Inactive, Access!MayEdit, Parts!Access!MayEdit,
     Access!Holds, Parts!Access!Holds, Access!InForce, Parts!Access!InForce

\* A step of the run is a step of the broker or leaves it alone, and keeps the turn.
LEMMA BrokerPart == [OperationsNext]_<<turn, vars, shared>> => [Next]_vars /\ UNCHANGED turn
  BY DEF OperationsNext, BrokerTurn, Turn

LEMMA HostPart ==
    ASSUME turn = "host", [OperationsNext]_<<turn, vars, shared>> PROVE [Parts!Next]_(Parts!vars)
  <1>1. UNCHANGED shared => UNCHANGED Parts!vars
    BY DEF shared, From6, From7, From11,
     Parts!vars, Parts!agentVars, Parts!upgradeVars
  <1>2. Host!Next \/ UNCHANGED shared
    BY DEF OperationsNext, BrokerTurn, Turn
  <1> QED BY <1>1, <1>2, HostMoves

LEMMA MigrationPart ==
    ASSUME turn = "migration", [OperationsNext]_<<turn, vars, shared>> PROVE [Parts!Migration!Next]_(Parts!Migration!vars)
  <1>1. UNCHANGED shared => UNCHANGED Parts!Migration!vars
    BY DEF shared, From6, From7, From11,
     Parts!Migration!vars, Parts!Migration!journals, Parts!Migration!command,
     Parts!Migration!database, Parts!Migration!host
  <1>2. Migration!Next \/ UNCHANGED shared
    BY DEF OperationsNext, BrokerTurn, Turn
  <1> QED BY <1>1, <1>2, MigrationMoves

LEMMA SetupPart ==
    ASSUME turn = "setup", [OperationsNext]_<<turn, vars, shared>> PROVE [Parts!Setup!Next]_(Parts!Setup!vars)
  <1>1. UNCHANGED shared => UNCHANGED Parts!Setup!vars
    BY DEF shared, From6, From7, From11,
     Parts!Setup!vars
  <1>2. Setup!Next \/ UNCHANGED shared
    BY DEF OperationsNext, BrokerTurn, Turn
  <1> QED BY <1>1, <1>2, SetupMoves

LEMMA WorkerPart ==
    ASSUME turn = "worker", [OperationsNext]_<<turn, vars, shared>> PROVE [Parts!Worker!Next]_(Parts!Worker!vars)
  <1>1. UNCHANGED shared => UNCHANGED Parts!Worker!vars
    BY DEF shared, From6, From7, From11,
     Parts!Worker!vars
  <1>2. Worker!Next \/ UNCHANGED shared
    BY DEF OperationsNext, BrokerTurn, Turn
  <1> QED BY <1>1, <1>2, WorkerMoves

LEMMA LoginPart ==
    ASSUME turn = "login", [OperationsNext]_<<turn, vars, shared>> PROVE [Parts!Login!Next]_(Parts!Login!vars)
  <1>1. UNCHANGED shared => UNCHANGED Parts!Login!vars
    BY DEF shared, From6, From7, From11,
     Parts!Login!vars, Parts!Login!user, Parts!Login!profile, Parts!Login!factor
  <1>2. Login!Next \/ UNCHANGED shared
    BY DEF OperationsNext, BrokerTurn, Turn
  <1> QED BY <1>1, <1>2, LoginMoves

LEMMA AccessPart ==
    ASSUME turn = "access", [OperationsNext]_<<turn, vars, shared>> PROVE [Parts!Access!Next]_(Parts!Access!vars)
  <1>1. UNCHANGED shared => UNCHANGED Parts!Access!vars
    BY DEF shared, From6, From7, From11,
     Parts!Access!vars
  <1>2. Access!Next \/ UNCHANGED shared
    BY DEF OperationsNext, BrokerTurn, Turn
  <1> QED BY <1>1, <1>2, AccessMoves

\* The invariant of each part, when the run is of that part.
PartsInv ==
    /\ turn \in {"broker", "host", "migration", "setup", "worker", "login", "access"}
    /\ TypeOK /\ ItemInv
    /\ turn = "host" => Parts!HostInv
    /\ turn = "migration" => Parts!MigrationInv
    /\ turn = "setup" => Parts!SetupInv
    /\ turn = "worker" => Parts!WorkerInv
    /\ turn = "login" => Parts!LoginInv /\ Parts!CInv /\ Parts!Login!TypeOK
    /\ turn = "access" => Parts!AccessInv /\ Parts!Rows

LEMMA PartsAssumption ==
    /\ Parts!DatabaseUpgradeAssumption /\ Parts!Setup!BootstrapAssumption
    /\ Parts!Worker!WorkerSetupAssumption /\ Parts!Login!SessionsAssumption
  <1>1. Host!DatabaseUpgradeAssumption => Parts!DatabaseUpgradeAssumption
    BY DEF
     Host!DatabaseUpgradeAssumption, Parts!DatabaseUpgradeAssumption, Host!ReleaseAgentAssumption,
     Parts!ReleaseAgentAssumption, Host!NoneAssumption, Parts!NoneAssumption, Host!Claim,
     Parts!Claim, Host!Backup, Parts!Backup, Host!Versions, Parts!Versions, Host!Volumes,
     Parts!Volumes
  <1>2. Login!SessionsAssumption => Parts!Login!SessionsAssumption
    BY DEF
     Login!SessionsAssumption, Parts!Login!SessionsAssumption, Login!IsFiniteSet, Parts!Login!IsFiniteSet
  <1>3. Setup!BootstrapAssumption => Parts!Setup!BootstrapAssumption
    BY DEF
     Setup!BootstrapAssumption, Parts!Setup!BootstrapAssumption
  <1>4. Worker!WorkerSetupAssumption => Parts!Worker!WorkerSetupAssumption
    BY DEF
     Worker!WorkerSetupAssumption, Parts!Worker!WorkerSetupAssumption
  <1> QED BY <1>1, <1>2, <1>3, <1>4, OperationsAssumption

LEMMA PartsInit == OperationsInit => PartsInv
  <1> SUFFICES ASSUME OperationsInit PROVE PartsInv
    OBVIOUS
  <1>1. turn = "host" => Parts!HostInv
    BY PartsAssumption, HostBegins, Parts!HostInvInit DEF OperationsInit
  <1>2. turn = "migration" => Parts!MigrationInv
    BY MigrationBegins, Parts!MigrationInvInit DEF OperationsInit
  <1>3. turn = "login" => Parts!LoginInv /\ Parts!CInv /\ Parts!Login!TypeOK
    BY PartsAssumption, LoginBegins, Parts!LoginInvInit, Parts!CodesInit, Parts!LoginTypesInit DEF OperationsInit
  <1>4. turn = "access" => Parts!AccessInv /\ Parts!Rows
    BY AccessBegins, Parts!AccessInvInit, Parts!RowsInit DEF OperationsInit
  <1>6. turn = "setup" => Parts!SetupInv
    BY PartsAssumption, SetupBegins, Parts!SetupInvInit DEF OperationsInit
  <1>7. turn = "worker" => Parts!WorkerInv
    BY PartsAssumption, WorkerBegins, Parts!WorkerInit DEF OperationsInit
  <1>5. TypeOK /\ ItemInv /\ turn \in {"broker", "host", "migration", "setup", "worker", "login", "access"}
    BY BrokerTypeInit, ItemInvInit DEF OperationsInit
  <1> QED BY <1>1, <1>2, <1>3, <1>4, <1>5, <1>6, <1>7 DEF PartsInv

LEMMA PartsStep == PartsInv /\ [OperationsNext]_<<turn, vars, shared>> => PartsInv'
  <1> SUFFICES ASSUME PartsInv, [OperationsNext]_<<turn, vars, shared>> PROVE PartsInv'
    OBVIOUS
  <1>0. turn' = turn /\ [Next]_vars
    BY BrokerPart
  <1>1. turn = "host" => Parts!HostInv'
    BY PartsAssumption, HostPart, Parts!HostInvNext DEF PartsInv
  <1>2. turn = "migration" => Parts!MigrationInv'
    BY MigrationPart, Parts!MigrationInvNext DEF PartsInv
  <1>3. turn = "login" => Parts!LoginInv' /\ Parts!CInv' /\ Parts!Login!TypeOK'
    BY PartsAssumption, LoginPart, Parts!LoginInvNext, Parts!CodesNext, Parts!LoginTypesNext DEF PartsInv
  <1>4. turn = "access" => Parts!AccessInv' /\ Parts!Rows'
    BY AccessPart, Parts!AccessInvNext, Parts!RowTypes DEF PartsInv
  <1>6. turn = "setup" => Parts!SetupInv'
    BY PartsAssumption, SetupPart, Parts!SetupInvNext DEF PartsInv
  <1>7. turn = "worker" => Parts!WorkerInv'
    BY PartsAssumption, WorkerPart, Parts!WorkerNext DEF PartsInv
  <1>5. TypeOK' /\ ItemInv'
    BY <1>0, BrokerTypeStep, ItemInvStep DEF PartsInv
  <1> QED BY <1>0, <1>1, <1>2, <1>3, <1>4, <1>5, <1>6, <1>7 DEF PartsInv

LEMMA PartsInvariance == OperationsSpec => []PartsInv
  BY PartsInit, PartsStep, PTL DEF OperationsSpec

-----------------------------------------------------------------------------
(* What the run checks.                                                     *)

\* Every component's variables keep their types, of the broker for every set of roles and
\* invocations, of the others on the instance whose general case InstallationProofs has.
THEOREM OperationsTypes == OperationsSpec => []OperationsTypeOK
  <1> SUFFICES ASSUME PartsInv PROVE OperationsTypeOK
    BY PartsInvariance, PTL
  <1>1. turn = "host" => Host!UpgradeTypeOK
    <2>1. Parts!UpgradeTypeOK => Host!UpgradeTypeOK
      BY DEF
     Host!UpgradeTypeOK, Parts!UpgradeTypeOK, Host!AgentTypeOK, Parts!AgentTypeOK, Host!Run,
     Parts!Run, Host!Volumes, Parts!Volumes, Host!Versions, Parts!Versions, Host!Phases,
     Parts!Phases, Host!Backup, Parts!Backup, Host!Claim, Parts!Claim, Host!Root, Parts!Root,
     Host!MaintenancePhases, Parts!MaintenancePhases, Host!Coordinator, Parts!Coordinator,
     Host!Free, Parts!Free, Host!ToolSteps, Parts!ToolSteps, Host!AgentSteps, Parts!AgentSteps,
     Host!Guarded, Parts!Guarded, Host!UndoSteps, Parts!UndoSteps
    <2> QED BY <2>1, PartsAssumption, Parts!HostInvMeans DEF PartsInv
  <1>2. turn = "migration" => Migration!TypeOK
    <2>1. Parts!Migration!TypeOK => Migration!TypeOK
      BY DEF
     Migration!TypeOK, Parts!Migration!TypeOK, Migration!Steps, Parts!Migration!Steps
    <2> QED BY <2>1 DEF PartsInv, Parts!MigrationInv
  <1>3. turn = "login" => Login!TypeOK
    <2>1. Parts!Login!TypeOK => Login!TypeOK
      BY DEF
     Login!TypeOK, Parts!Login!TypeOK, Login!Steps, Parts!Login!Steps, Login!Session,
     Parts!Login!Session, Login!Tokens, Parts!Login!Tokens
    <2> QED BY <2>1 DEF PartsInv
  <1>4. turn = "access" => Access!TypeOK
    <2>1. Parts!Access!TypeOK => Access!TypeOK
      BY DEF
     Access!TypeOK, Parts!Access!TypeOK, Access!User, Parts!Access!User, Access!Member,
     Parts!Access!Member, Access!Invitation, Parts!Access!Invitation, Access!Request,
     Parts!Access!Request, Access!MemberRoles, Parts!Access!MemberRoles, Access!NoRequest,
     Parts!Access!NoRequest
    <2> QED BY <2>1, Parts!RowsMean DEF PartsInv
  <1>5. turn = "setup" => Setup!TypeOK
    <2>1. Parts!Setup!TypeOK => Setup!TypeOK
      BY DEF
     Setup!TypeOK, Parts!Setup!TypeOK, Setup!Disk, Parts!Setup!Disk, Setup!Run, Parts!Setup!Run,
     Setup!Execution, Parts!Setup!Execution, Setup!ScriptHolds, Parts!Setup!ScriptHolds,
     Setup!CommandHolds, Parts!Setup!CommandHolds, Setup!Replacing, Parts!Setup!Replacing
    <2> QED BY <2>1 DEF PartsInv, Parts!SetupInv
  <1>6. turn = "worker" => Worker!TypeOK
    <2>1. Parts!Worker!TypeOK => Worker!TypeOK
      BY DEF
     Worker!TypeOK, Parts!Worker!TypeOK, Worker!Steps, Parts!Worker!Steps, Worker!Files,
     Parts!Worker!Files, Worker!Absent, Parts!Worker!Absent
    <2> QED BY <2>1 DEF PartsInv, Parts!WorkerInv
  <1> QED BY <1>1, <1>2, <1>3, <1>4, <1>5, <1>6 DEF PartsInv, OperationsTypeOK

\* Wherever a release, a rollback, a database upgrade or an additive migration dies, the host
\* can be put back, no accepted write is lost and the baseline claims what the database has;
\* an installer leaves one package of the tools, however it interleaves with a command, and
\* one of the activation worker keeps the collector's roles and the original files.
THEOREM HostStaysRecoverable == OperationsSpec => []HostIsRecoverable
  <1> SUFFICES ASSUME PartsInv PROVE HostIsRecoverable
    BY PartsInvariance, PTL
  <1>1. turn = "host" => Host!MixedIsUndoable /\ Host!NoWriteLost /\ Host!WritersStayStopped
    BY PartsAssumption, Parts!HostInvMeans DEF PartsInv,
     Host!MixedIsUndoable, Parts!MixedIsUndoable, Host!NoWriteLost, Parts!NoWriteLost,
     Host!WritersStayStopped, Parts!WritersStayStopped, Host!Free, Parts!Free, Host!Versions,
     Parts!Versions, Host!Runs, Parts!Runs
  <1>2. turn = "migration" => Migration!BaselineIsReal /\ Migration!CompleteIsReal
    BY DEF PartsInv, Parts!MigrationInv,
     Migration!BaselineIsReal, Parts!Migration!BaselineIsReal, Migration!CompleteIsReal,
     Parts!Migration!CompleteIsReal
  <1>3. turn = "setup" => Setup!HelperIsPinned /\ Setup!InstallationsAreWhole /\ Setup!BaselineIsCurrent
    BY Parts!SetupWhole DEF PartsInv, Parts!SetupInv,
     Setup!HelperIsPinned, Parts!Setup!HelperIsPinned, Setup!InstallationsAreWhole,
     Parts!Setup!InstallationsAreWhole, Setup!BaselineIsCurrent, Parts!Setup!BaselineIsCurrent,
     Setup!Replacing, Parts!Setup!Replacing, Setup!Wanted, Parts!Setup!Wanted
  <1>4. turn = "worker" => Worker!RolesArePreserved /\ Worker!BackupsAreOriginals /\ Worker!UnitIsLast
    BY DEF PartsInv, Parts!WorkerInv,
     Worker!RolesArePreserved, Parts!Worker!RolesArePreserved, Worker!BackupsAreOriginals,
     Parts!Worker!BackupsAreOriginals, Worker!UnitIsLast, Parts!Worker!UnitIsLast, Worker!Files,
     Parts!Worker!Files, Worker!Absent, Parts!Worker!Absent
  <1> QED BY <1>1, <1>2, <1>3, <1>4 DEF HostIsRecoverable

\* Live sessions showed the present password and device, and a code, a device and an
\* invitation are good once, however signing in, changes and requests interleave.
THEOREM CredentialsStayFresh == OperationsSpec => []CredentialsAreFresh
  <1> SUFFICES ASSUME PartsInv PROVE CredentialsAreFresh
    BY PartsInvariance, PTL
  <1>1. turn = "login" => Login!LiveSessionsAreFresh
    BY DEF PartsInv, Parts!LoginInv, Parts!Bound,
     Login!LiveSessionsAreFresh, Parts!Login!LiveSessionsAreFresh, Login!Live, Parts!Login!Live
  <1>2. turn = "login" => Login!CodesAreUsedOnce
    BY Parts!CodesMean DEF PartsInv,
     Login!CodesAreUsedOnce, Parts!Login!CodesAreUsedOnce
  <1>3. turn = "access" => Access!InvitationAdmitsOnce
    BY DEF PartsInv, Parts!AccessInv, Parts!Spent, Access!InvitationAdmitsOnce
  <1> QED BY <1>1, <1>2, <1>3 DEF CredentialsAreFresh

\* Receipts and recorded rollbacks are true of the host when they are written, and the schema
\* changes behind a validated backup.
THEOREM ReportsStayTrue == OperationsSpec => ReportsAreTrue
  <1>1. ASSUME PartsInv, [OperationsNext]_<<turn, vars, shared>>
        PROVE  [/\ turn = "host" => Host!ReceiptIsTrue /\ Host!RollbackRestores
                /\ turn = "migration" => Migration!BackupBeforeSchema]_<<turn, vars, shared>>
    <2> SUFFICES ASSUME OperationsNext
                 PROVE  /\ turn = "host" => Host!ReceiptIsTrue /\ Host!RollbackRestores
                        /\ turn = "migration" => Migration!BackupBeforeSchema
      BY <1>1
    <2>1. turn = "host" => Parts!ReceiptIsTrue /\ Parts!RollbackRestores
      BY <1>1, PartsAssumption, HostPart, Parts!ReceiptStep, Parts!RollbackStep DEF PartsInv
    <2>2. turn = "host" => Host!ReceiptIsTrue /\ Host!RollbackRestores
      BY <2>1 DEF
     Host!ReceiptIsTrue, Parts!ReceiptIsTrue, Host!RollbackRestores, Parts!RollbackRestores
    <2>3. turn = "migration" => [Parts!Migration!BackupBeforeSchema]_(Parts!Migration!vars)
      BY <1>1, MigrationPart, Parts!MigrationStepBacked DEF PartsInv
    <2>4. turn = "migration" => Migration!BackupBeforeSchema
      BY <2>3 DEF
     Parts!Migration!vars, Parts!Migration!journals, Parts!Migration!command,
     Parts!Migration!database, Parts!Migration!host,
     Migration!BackupBeforeSchema, Parts!Migration!BackupBeforeSchema
    <2> QED BY <2>2, <2>4
  <1> QED BY <1>1, PartsInvariance, PTL DEF OperationsSpec, ReportsAreTrue

\* The web leaves an administrator, whoever removes whom at the same time.
THEOREM AdministratorAlwaysRemains == OperationsSpec => AdministratorRemains
  <1>1. ASSUME PartsInv, [OperationsNext]_<<turn, vars, shared>>
        PROVE  [turn = "access" => Access!AdministratorRemains]_<<turn, vars, shared>>
    <2> SUFFICES ASSUME turn = "access" PROVE Access!AdministratorRemains
      BY <1>1
    <2>1. [Parts!Access!AdministratorRemains]_(Parts!Access!vars)
      BY <1>1, AccessPart, Parts!StepKeepsAdministrator DEF PartsInv
    <2> QED
      BY <2>1 DEF Parts!Access!vars,
     Access!AdministratorRemains, Parts!Access!AdministratorRemains, Access!Admin,
     Access!Stripped, Parts!Access!Stripped, Access!Changes, Parts!Access!Changes,
     Parts!Access!Admin, Access!SetPortfolio, Parts!Access!SetPortfolio, Access!Accept,
     Parts!Access!Accept, Access!Answer, Parts!Access!Answer, Access!NoRequest,
     Parts!Access!NoRequest
  <1> QED BY <1>1, PartsInvariance, PTL DEF OperationsSpec, AdministratorRemains

\* The run's behaviours are the broker's, so that its theorems are about the run too.
LEMMA BrokerRuns == OperationsSpec => Spec
  <1>1. OperationsInit => Init
    BY DEF OperationsInit
  <1> QED BY <1>1, BrokerPart, PTL DEF OperationsSpec, Spec

\* In the run too, where two invocations overlap, the policy holds no role the item lacks and
\* only an administrator removes a registration (broker.py).
THEOREM RunKeepsRegistrations == OperationsSpec => []GrantsAreRecorded /\ RegistrationsAreKept
  BY BrokerRuns, GrantsRecorded, RegistrationsKept, PTL

=============================================================================
