-------------------------- MODULE ActivationProofs --------------------------
(***************************************************************************)
(* Activation opens no door that an administrator has shut, for every      *)
(* number of requests, versions, attempts and administrative changes.      *)
(***************************************************************************)
EXTENDS Activation, TLAPS

InTransaction == pc \in {"locked", "approvals", "allowed", "listed"}

\* The coordinator works on a request that is processing, whatever else happens.
Working == pc # "idle" => current \in Requests /\ status[current] = "processing"

\* From its check on, its transaction holds the source row: what the check found about the
\* connection and the approvals, nobody takes back.
Fenced ==
    InTransaction =>
      /\ srcLock = "coordinator"
      /\ enabled /\ role # "revoked" /\ customer # "revoked"
      /\ snapshot[current][1] = version

\* AWS has answered for a role only if the broker and the allowlist admit it.
Admitted == \A r \in Requests : verify[r] = "done" => allowed /\ listed

IInv == TypeOK /\ Working /\ Fenced /\ Admitted

-----------------------------------------------------------------------------
\* The initial state satisfies the invariant (activation.py before its first request).
LEMMA InitInv == Init => IInv
  <1> SUFFICES ASSUME Init PROVE IInv
    OBVIOUS
  <1> USE DEF Init
  <1>1. snapshot \in [Requests -> {<<>>} \cup ((1..MaxVersions) \X Approval \X Approval)]
    OBVIOUS
  <1>2. version \in 1..MaxVersions /\ revoking \in 0..MaxVersions /\ edits \in 0..MaxEdits
        /\ attempts \in [Requests -> 0..MaxAttempts]
    BY ActivationAssumption
  <1>3. TypeOK
    BY <1>1, <1>2 DEF TypeOK, Approval, JobStatus, Holders, ACTIVE_STATUSES
  <1> QED
    BY <1>3 DEF IInv, Working, Fenced, InTransaction, Admitted

\* What Release leaves: a request with the given outcome, the coordinator idle and without locks.
LEMMA ReleaseTypes ==
    ASSUME TypeOK, Working, pc # "idle", NEW outcome \in ACTIVE_STATUSES \cup {"new", "completed", "failed"},
           Release(outcome)
    PROVE  /\ status' \in [Requests -> ACTIVE_STATUSES \cup {"new", "completed", "failed"}]
           /\ srcLock' \in Holders /\ roleLock' \in Holders
           /\ pc' = "idle" /\ current' = Nobody
           /\ \A r \in Requests : r # current => status'[r] = status[r]
           /\ status'[current] = outcome
  BY DEF TypeOK, Working, Release, Holders


\* The coordinator's own steps.
LEMMA TakeInv == ASSUME IInv, NEW r \in Requests, Take(r) PROVE IInv'
  BY ActivationAssumption
     DEF IInv, TypeOK, Working, Fenced, InTransaction, Admitted, Take, ACTIVE_STATUSES,
         source, approvals, locks, outside, jobs, admin

LEMMA StartInv == ASSUME IInv, Start PROVE IInv'
  <1>1. pc = "taken" /\ srcLock = Nobody /\ current \in Requests
    BY DEF IInv, Working, Start
  <1>2. CASE Revalidates(current)
    <2>1. snapshot[current][1] = version
      BY <1>2 DEF Revalidates, Snapshot
    <2> QED
      BY <1>1, <1>2, <2>1
         DEF IInv, TypeOK, Working, Fenced, InTransaction, Admitted, Start, Revalidates, Valid,
             Holders, source, approvals, locks, outside, jobs, admin
  <1>3. CASE ~Revalidates(current)
    <2>1. Release("failed")
      BY <1>3 DEF Start
    <2> QED
      BY <1>1, <1>3, <2>1, ReleaseTypes
         DEF IInv, TypeOK, Working, Fenced, InTransaction, Admitted, Start,
             Holders, source, approvals, locks, outside, jobs, admin
  <1> QED BY <1>2, <1>3

LEMMA LockApprovalsInv == ASSUME IInv, LockApprovals PROVE IInv'
  BY DEF IInv, TypeOK, Working, Fenced, InTransaction, Admitted, LockApprovals, Holders,
         source, approvals, outside, requests, jobs, admin

LEMMA AllowRoleInv == ASSUME IInv, AllowRole PROVE IInv'
  BY DEF IInv, TypeOK, Working, Fenced, InTransaction, Admitted, AllowRole,
         source, approvals, locks, requests, jobs, admin

LEMMA MergeAllowlistInv == ASSUME IInv, MergeAllowlist PROVE IInv'
  <1>1. CASE Revalidates(current)
    BY <1>1
       DEF IInv, TypeOK, Working, Fenced, InTransaction, Admitted, MergeAllowlist, Holders,
           source, approvals, locks, jobs, admin
  <1>2. CASE ~Revalidates(current)
    <2>1. Release("failed") /\ pc # "idle" /\ listed' = listed
      BY <1>2 DEF MergeAllowlist
    <2> QED
      BY <2>1, ReleaseTypes
         DEF IInv, TypeOK, Working, Fenced, InTransaction, Admitted, MergeAllowlist,
             source, approvals, jobs, admin
  <1> QED BY <1>1, <1>2

LEMMA ApproveInv == ASSUME IInv, Approve PROVE IInv'
  <1>1. Release("verifying") /\ pc # "idle"
    BY DEF Approve
  <1> QED
    BY <1>1, ReleaseTypes
       DEF IInv, TypeOK, Working, Fenced, InTransaction, Admitted, Approve, Approval, JobStatus,
           ACTIVE_STATUSES, outside, admin

LEMMA FailsInv == ASSUME IInv, Fails PROVE IInv'
  <1> DEFINE outcome == IF attempts[current] >= MaxAttempts THEN "failed" ELSE "queued"
  <1>1. Release(outcome) /\ pc # "idle" /\ outcome \in {"failed", "queued"}
    BY DEF Fails
  <1> HIDE DEF outcome
  <1> QED
    BY <1>1, ReleaseTypes
       DEF IInv, TypeOK, Working, Fenced, InTransaction, Admitted, Fails,
           ACTIVE_STATUSES, source, approvals, outside, jobs, admin

LEMMA CrashInv == ASSUME IInv, Crash PROVE IInv'
  <1>1. Release("processing") /\ pc # "idle"
    BY DEF Crash
  <1>2. edits' \in 0..MaxEdits
    BY ActivationAssumption DEF IInv, TypeOK, Crash
  <1> QED
    BY <1>1, <1>2, ReleaseTypes
       DEF IInv, TypeOK, Working, Fenced, InTransaction, Admitted, Crash,
           ACTIVE_STATUSES, source, approvals, outside, jobs

LEMMA ProgressInv == ASSUME IInv, NEW r \in Requests, Progress(r) PROVE IInv'
  <1>1. \E outcome \in {"completed", "verifying", "failed"} :
           status' = [status EXCEPT ![r] = outcome]
    BY DEF Progress
  <1> QED
    BY <1>1
       DEF IInv, TypeOK, Working, Fenced, InTransaction, Admitted, Progress, ACTIVE_STATUSES,
           source, approvals, locks, outside, jobs, process, admin

-----------------------------------------------------------------------------
\* The requests and the collector's jobs.
LEMMA RequestActivationInv == ASSUME IInv, NEW r \in Requests, RequestActivation(r) PROVE IInv'
  <1>1. snapshot' \in [Requests -> {<<>>} \cup ((1..MaxVersions) \X Approval \X Approval)]
    BY DEF IInv, TypeOK, RequestActivation, Snapshot
  <1> QED
    BY <1>1
       DEF IInv, TypeOK, Working, Fenced, InTransaction, Admitted, RequestActivation,
           ACTIVE_STATUSES, source, approvals, locks, outside, jobs, process, admin

LEMMA VerifyJobInv ==
    ASSUME IInv, NEW r \in Requests, NEW succeeds \in BOOLEAN, VerifyJob(r, succeeds)
    PROVE  IInv'
  BY DEF IInv, TypeOK, Working, Fenced, InTransaction, Admitted, VerifyJob, RoleAllowed,
         JobStatus, approvals, locks, outside, requests, process, admin

LEMMA DiscoverJobInv ==
    ASSUME IInv, NEW succeeds \in BOOLEAN, DiscoverJob(succeeds)
    PROVE  IInv'
  BY DEF IInv, TypeOK, Working, Fenced, InTransaction, Admitted, DiscoverJob, RoleAllowed,
         JobStatus, approvals, locks, outside, requests, process, admin

-----------------------------------------------------------------------------
\* The administration.
LEMMA EditBound == ASSUME TypeOK, Edit PROVE edits' \in 0..MaxEdits
  BY ActivationAssumption DEF TypeOK, Edit

LEMMA RevocationInv ==
    ASSUME IInv, RevokeRole \/ CommitRevocation \/ AbortRevocation
    PROVE  IInv'
  <1>1. CASE RevokeRole
    <2>1. edits' \in 0..MaxEdits
      BY <1>1, EditBound DEF IInv, RevokeRole
    <2> QED
      BY <1>1, <2>1, ActivationAssumption
         DEF IInv, TypeOK, Working, Fenced, InTransaction, Admitted, RevokeRole, Holders,
             source, approvals, outside, requests, jobs, process
  <1>2. CASE CommitRevocation
    <2>1. ~InTransaction
      BY <1>2, ActivationAssumption DEF IInv, Fenced, CommitRevocation
    <2>2. role' \in Approval /\ revoking' \in 0..MaxVersions
      BY <1>2, ActivationAssumption DEF IInv, TypeOK, CommitRevocation, Approval
    <2> QED
      BY <1>2, <2>1, <2>2
         DEF IInv, TypeOK, Working, Fenced, InTransaction, Admitted, CommitRevocation, Holders,
             outside, requests, jobs, process
  <1>3. CASE AbortRevocation
    BY <1>3, ActivationAssumption
       DEF IInv, TypeOK, Working, Fenced, InTransaction, Admitted, AbortRevocation, Holders,
           source, approvals, outside, requests, jobs, process
  <1> QED BY <1>1, <1>2, <1>3

LEMMA ApprovalInv == ASSUME IInv, ApproveRole \/ RevokeCustomer \/ Resume PROVE IInv'
  <1>1. edits' \in 0..MaxEdits
    BY EditBound DEF IInv, ApproveRole, RevokeCustomer, Resume
  <1>2. CASE ApproveRole
    BY <1>1, <1>2
       DEF IInv, TypeOK, Working, Fenced, InTransaction, Admitted, ApproveRole, Approval,
           source, locks, outside, requests, jobs, process
  <1>3. CASE RevokeCustomer
    BY <1>1, <1>3, ActivationAssumption
       DEF IInv, TypeOK, Working, Fenced, InTransaction, Admitted, RevokeCustomer, Approval,
           locks, outside, requests, jobs, process
  <1>4. CASE Resume
    BY <1>1, <1>4, ActivationAssumption
       DEF IInv, TypeOK, Working, Fenced, InTransaction, Admitted, Resume,
           approvals, locks, outside, requests, jobs, process
  <1> QED BY <1>2, <1>3, <1>4

LEMMA NewVersionInv == ASSUME IInv, NEW stop \in BOOLEAN, NewVersion(stop) PROVE IInv'
  <1>1. edits' \in 0..MaxEdits /\ version' \in 1..MaxVersions
    BY EditBound, ActivationAssumption DEF IInv, TypeOK, NewVersion
  <1>2. /\ verify' \in [Requests -> JobStatus]
        /\ \A r \in Requests : verify'[r] = "done" => verify[r] = "done"
    <2>1. \A r \in Requests : verify[r] \in JobStatus
      BY DEF IInv, TypeOK
    <2> QED
      BY <2>1 DEF NewVersion, JobStatus
  <1>3. ~InTransaction
    BY ActivationAssumption DEF IInv, Fenced, NewVersion
  <1> QED
    BY <1>1, <1>2, <1>3
       DEF IInv, TypeOK, Working, Fenced, InTransaction, Admitted, NewVersion, Holders, Approval,
           JobStatus, outside, requests, process

-----------------------------------------------------------------------------
\* Every step of activation.py and of what surrounds it preserves the invariant.
LEMMA NextInv == IInv /\ [Next]_vars => IInv'
  <1> SUFFICES ASSUME IInv, [Next]_vars PROVE IInv'
    OBVIOUS
  <1>1. CASE UNCHANGED vars
    BY <1>1
       DEF IInv, TypeOK, Working, Fenced, InTransaction, Admitted, vars, source, approvals,
           locks, outside, requests, jobs, process, admin
  <1>2. CASE Coordinator
    BY <1>2, TakeInv, ProgressInv, StartInv, LockApprovalsInv, AllowRoleInv,
       MergeAllowlistInv, ApproveInv DEF Coordinator
  <1>3. CASE Collector
    BY <1>3, VerifyJobInv, DiscoverJobInv DEF Collector
  <1> QED
    BY <1>1, <1>2, <1>3, RequestActivationInv, FailsInv, CrashInv, RevocationInv, ApprovalInv,
       NewVersionInv DEF Next

LEMMA Invariance == Spec => []IInv
  BY InitInv, NextInv, PTL DEF Spec

\* The rows, the locks and the coordinator have their types in every reachable state.
THEOREM TypeCorrect == Spec => []TypeOK
  <1>1. IInv => TypeOK
    BY DEF IInv
  <1> QED BY <1>1, Invariance, PTL

-----------------------------------------------------------------------------
\* A step of the invariant that changes no request's status opens no door.
LEMMA QuietStep ==
    ASSUME status' = status
    PROVE  ActivationNeverRevives /\ CompletedIsConnected
  BY DEF ActivationNeverRevives, CompletedIsConnected

\* Nor does one that ends, retries or takes a request.
LEMMA OtherOutcome ==
    ASSUME TypeOK, NEW r \in Requests, NEW outcome \in {"queued", "processing", "failed"},
           status' = [status EXCEPT ![r] = outcome]
    PROVE  ActivationNeverRevives /\ CompletedIsConnected
  BY DEF TypeOK, ActivationNeverRevives, CompletedIsConnected

\* "verifying" is written only by the commit of the coordinator's fenced transaction.
LEMMA ApproveSound ==
    ASSUME IInv, Approve PROVE ActivationNeverRevives /\ CompletedIsConnected
  <1>1. /\ current \in Requests /\ pc = "listed"
        /\ status' = [status EXCEPT ![current] = "verifying"]
    BY DEF IInv, Working, Approve, Release
  <1> QED
    BY <1>1
       DEF IInv, TypeOK, Fenced, InTransaction, ActivationNeverRevives, CompletedIsConnected

\* "completed" is written only where _progress found the consent still standing, and a
\* finished verification, which the broker's policy and the allowlist admitted.
LEMMA ProgressSound ==
    ASSUME IInv, NEW r \in Requests, Progress(r)
    PROVE  ActivationNeverRevives /\ CompletedIsConnected
  <1>1. \/ /\ status' = [status EXCEPT ![r] = "completed"]
           /\ StillApproved(r) /\ verify[r] = "done" /\ verified /\ discovered
        \/ status' = status
        \/ status' = [status EXCEPT ![r] = "failed"]
    BY DEF Progress, IInv, TypeOK
  <1>2. CASE status' = [status EXCEPT ![r] = "completed"] /\ StillApproved(r)
             /\ verify[r] = "done" /\ verified /\ discovered
    BY <1>2
       DEF IInv, TypeOK, Admitted, StillApproved, Valid, ActivationNeverRevives,
           CompletedIsConnected
  <1> QED
    BY <1>1, <1>2, QuietStep, OtherOutcome DEF IInv

\* Every step of the specification is sound: the two facts above, and no other step writes
\* either status.
LEMMA StepSound ==
    ASSUME IInv, [Next]_vars
    PROVE  [ActivationNeverRevives /\ CompletedIsConnected]_vars
  <1> SUFFICES ASSUME Next PROVE ActivationNeverRevives /\ CompletedIsConnected
    OBVIOUS
  <1>1. CASE \E r \in Requests : RequestActivation(r)
    BY <1>1, OtherOutcome DEF IInv, RequestActivation
  <1>2. CASE \E r \in Requests : Take(r)
    BY <1>2, OtherOutcome DEF IInv, Take
  <1>3. CASE Start \/ MergeAllowlist \/ Fails \/ Crash
    <2>1. status' = status
          \/ \E outcome \in {"queued", "processing", "failed"} :
                 status' = [status EXCEPT ![current] = outcome]
      BY <1>3 DEF Start, MergeAllowlist, Fails, Crash, Release
    <2>2. current \in Requests
      BY <1>3 DEF IInv, Working, Start, MergeAllowlist, Fails, Crash
    <2> QED
      BY <2>1, <2>2, QuietStep, OtherOutcome DEF IInv
  <1>4. CASE Collector \/ LockApprovals \/ AllowRole
    BY <1>4, QuietStep
       DEF Collector, VerifyJob, DiscoverJob, LockApprovals, AllowRole, requests
  <1>5. CASE RevokeRole \/ CommitRevocation \/ AbortRevocation \/ ApproveRole
             \/ RevokeCustomer \/ Resume \/ \E stop \in BOOLEAN : NewVersion(stop)
    BY <1>5, QuietStep
       DEF RevokeRole, CommitRevocation, AbortRevocation, ApproveRole, RevokeCustomer, Resume,
           NewVersion, requests
  <1> QED
    BY <1>1, <1>2, <1>3, <1>4, <1>5, ApproveSound, ProgressSound DEF Next, Coordinator

\* Activation opens no door an administrator has shut, and says "connected" only of a
\* connection that is: for every interleaving of activation.py with the administration.
THEOREM Soundness == Spec => ActivationIsSound
  BY Invariance, StepSound, PTL DEF Spec, ActivationIsSound
=============================================================================
