------------------------------ MODULE Activation ------------------------------
(***************************************************************************)
(* Connecting one account (billing/activation.py): an administrator's      *)
(* frozen request, the coordinator that locks the rows, calls the broker    *)
(* inside its transaction and approves the role, and the verification and  *)
(* discovery jobs it waits for, against an administration that revokes,     *)
(* rotates, stops and resumes at any moment.                                *)
(***************************************************************************)
EXTENDS Naturals

CONSTANTS
    Requests,      \* the requests of the source, submitted one after the other
    Nobody,
    MaxVersions,   \* bound: connection versions
    MaxAttempts,   \* broker attempts of a request (five)
    MaxEdits       \* bound: administrative changes

ASSUME ActivationAssumption ==
    /\ MaxVersions \in Nat \ {0} /\ MaxAttempts \in Nat /\ MaxEdits \in Nat
    /\ Nobody \notin {"coordinator", "admin"} \cup Requests

VARIABLES
    \* the rows of the source, its customer's approval and the role approval of its version
    version, enabled, verified, discovered, customer, role,
    srcLock, roleLock,      \* holders of the row locks: "coordinator", "admin" or Nobody
    allowed, listed,        \* the role in the broker's policy, and in the allowlist file
    status, snapshot, attempts,     \* the requests
    verify, discover,       \* the jobs that verify request r, and that discover accounts
    pc, current,            \* the coordinator: its step and its request
    revoking,               \* the version whose role an uncommitted transaction revokes, or 0
    edits

source == <<version, enabled, verified, discovered>>
approvals == <<customer, role>>
locks == <<srcLock, roleLock>>
outside == <<allowed, listed>>
requests == <<status, snapshot, attempts>>
jobs == <<verify, discover>>
process == <<pc, current>>
admin == <<revoking, edits>>
vars == <<source, approvals, locks, outside, requests, jobs, process, admin>>

ACTIVE_STATUSES == {"queued", "processing", "verifying"}
Approval == {"none", "approved", "revoked"}
JobStatus == {"none", "queued", "done", "failed"}
Holders == {"coordinator", "admin", Nobody}

TypeOK ==
    /\ version \in 1..MaxVersions
    /\ {enabled, verified, discovered, allowed, listed} \subseteq BOOLEAN
    /\ revoking \in 0..MaxVersions
    /\ customer \in Approval /\ role \in Approval
    /\ srcLock \in Holders /\ roleLock \in Holders
    /\ status \in [Requests -> ACTIVE_STATUSES \cup {"new", "completed", "failed"}]
    /\ snapshot \in [Requests -> {<<>>} \cup ((1..MaxVersions) \X Approval \X Approval)]
    /\ attempts \in [Requests -> 0..MaxAttempts]
    /\ verify \in [Requests -> JobStatus] /\ discover \in JobStatus
    /\ pc \in {"idle", "taken", "locked", "approvals", "allowed", "listed"}
    /\ current \in Requests \cup {Nobody} /\ edits \in 0..MaxEdits

Init ==
    /\ version = 1 /\ enabled \in BOOLEAN /\ verified = FALSE /\ discovered = FALSE
    /\ customer \in Approval /\ role \in Approval
    /\ srcLock = Nobody /\ roleLock = Nobody
    /\ allowed = FALSE /\ listed = FALSE
    /\ status = [r \in Requests |-> "new"] /\ attempts = [r \in Requests |-> 0]
    /\ snapshot = [r \in Requests |-> <<>>]
    /\ verify = [r \in Requests |-> "none"] /\ discover = "none"
    /\ pc = "idle" /\ current = Nobody /\ revoking = 0 /\ edits = 0

\* validate_automated_source and _check_existing_approval, with what the request froze.
Valid == enabled /\ role # "revoked" /\ customer # "revoked"
Snapshot == <<version, customer, role>>

\* billing_request_activation: one active request for each source.
RequestActivation(r) ==
    /\ status[r] = "new" /\ Valid /\ srcLock = Nobody /\ roleLock = Nobody
    /\ \A q \in Requests : status[q] \notin ACTIVE_STATUSES
    /\ status' = [status EXCEPT ![r] = "queued"]
    /\ snapshot' = [snapshot EXCEPT ![r] = Snapshot]
    /\ UNCHANGED <<source, approvals, locks, outside, attempts, jobs, process, admin>>

-----------------------------------------------------------------------------
(* The coordinator: one process, under a file lock.                         *)

Take(r) ==
    /\ pc = "idle" /\ status[r] \in {"queued", "processing"}
    /\ status' = [status EXCEPT ![r] = "processing"]
    /\ attempts' = [attempts EXCEPT ![r] = IF @ = MaxAttempts THEN @ ELSE @ + 1]
    /\ pc' = "taken" /\ current' = r
    /\ UNCHANGED <<source, approvals, locks, outside, snapshot, jobs, admin>>

Release(outcome) ==
    /\ status' = [status EXCEPT ![current] = outcome]
    /\ srcLock' = (IF srcLock = "coordinator" THEN Nobody ELSE srcLock)
    /\ roleLock' = (IF roleLock = "coordinator" THEN Nobody ELSE roleLock)
    /\ pc' = "idle" /\ current' = Nobody

\* _revalidate before the activation: nothing the request froze has changed.
Revalidates(r) == Valid /\ snapshot[r] = Snapshot

\* (Mutant: the request is checked on rows that are not locked.)
Start_Unlocked ==
    /\ pc = "taken"
    /\ IF Revalidates(current)
       THEN pc' = "locked" /\ UNCHANGED <<status, locks, current>>
       ELSE Release("failed")
    /\ UNCHANGED <<source, approvals, outside, snapshot, attempts, jobs, admin>>

\* Lock the source and revalidate; an invalid request is failed.
Start ==
    /\ pc = "taken" /\ srcLock = Nobody
    /\ IF Revalidates(current)
       THEN /\ srcLock' = "coordinator" /\ pc' = "locked"
            /\ UNCHANGED <<status, roleLock, current>>
       ELSE Release("failed")
    /\ UNCHANGED <<source, approvals, outside, snapshot, attempts, jobs, admin>>

\* SELECT FOR UPDATE locks a row that exists, and nothing when there is none yet.
LockApprovals ==
    /\ pc = "locked" /\ roleLock = Nobody
    /\ roleLock' = (IF role = "none" THEN Nobody ELSE "coordinator")
    /\ pc' = "approvals"
    /\ UNCHANGED <<source, approvals, srcLock, outside, requests, jobs, current, admin>>

AllowRole ==
    /\ pc = "approvals"
    /\ allowed' = TRUE /\ pc' = "allowed"
    /\ UNCHANGED <<source, approvals, locks, listed, requests, jobs, current, admin>>

\* Revalidate once more, then replace the allowlist file.
MergeAllowlist ==
    /\ pc = "allowed"
    /\ IF Revalidates(current)
       THEN /\ listed' = TRUE /\ pc' = "listed"
            /\ UNCHANGED <<status, locks, current>>
       ELSE Release("failed") /\ listed' = listed
    /\ UNCHANGED <<source, approvals, allowed, snapshot, attempts, jobs, admin>>

\* _approve, the reset of the source and the verification job, and the commit.  A role row
\* another transaction is inserting makes the upsert wait for it.
Approve ==
    /\ pc = "listed" /\ roleLock # "admin"
    /\ customer' = "approved" /\ role' = "approved"
    /\ verified' = FALSE /\ discovered' = FALSE
    /\ verify' = [verify EXCEPT ![current] = "queued"]
    /\ Release("verifying")
    /\ UNCHANGED <<version, enabled, outside, snapshot, attempts, discover, admin>>

\* (Mutant: every failure is temporary.)
Fails_Temporary ==
    /\ pc # "idle"
    /\ Release("queued")
    /\ UNCHANGED <<source, approvals, outside, snapshot, attempts, jobs, admin>>

\* The broker, the file or the database fails: retry, five times.
Fails ==
    /\ pc # "idle"
    /\ Release(IF attempts[current] >= MaxAttempts THEN "failed" ELSE "queued")
    /\ UNCHANGED <<source, approvals, outside, snapshot, attempts, jobs, admin>>

\* The coordinator dies: its transaction is rolled back, the request stays "processing".
Crash ==
    /\ pc # "idle" /\ edits < MaxEdits /\ edits' = edits + 1
    /\ Release("processing")
    /\ UNCHANGED <<source, approvals, outside, snapshot, attempts, jobs, revoking>>

\* _revalidate after the activation.
StillApproved(r) ==
    /\ Valid /\ snapshot[r][1] = version
    /\ customer = "approved" /\ role = "approved"

\* _progress: one transaction that holds the request and the source.
Progress(r) ==
    /\ pc = "idle" /\ status[r] = "verifying" /\ srcLock = Nobody
    /\ LET waits == StillApproved(r) /\ (verify[r] = "queued"
                        \/ (verify[r] = "done" /\ verified /\ ~discovered /\ discover = "queued"))
           done == StillApproved(r) /\ verify[r] = "done" /\ verified /\ discovered
       IN status' = [status EXCEPT ![r] = IF done THEN "completed" ELSE IF waits THEN @ ELSE "failed"]
    /\ UNCHANGED <<source, approvals, locks, outside, snapshot, attempts, jobs, process, admin>>

-----------------------------------------------------------------------------
(* The collector's jobs.  Their result is published under the source lock,   *)
(* if the source still is what the job was loaded for.                       *)

\* approval_ready and assert_role_allowed, asked by every AWS session of the source.
RoleAllowed == enabled /\ customer = "approved" /\ role = "approved" /\ allowed /\ listed

VerifyJob(r, succeeds) ==
    /\ verify[r] = "queued" /\ srcLock = Nobody
    /\ LET ok == succeeds /\ RoleAllowed /\ snapshot[r][1] = version
       IN /\ verify' = [verify EXCEPT ![r] = IF ok THEN "done" ELSE "failed"]
          /\ verified' = (verified \/ ok)
          /\ discover' = IF ok THEN "queued" ELSE discover
    /\ UNCHANGED <<version, enabled, discovered, approvals, locks, outside, requests, process, admin>>

DiscoverJob(succeeds) ==
    /\ discover = "queued" /\ srcLock = Nobody
    /\ discover' = (IF succeeds /\ RoleAllowed THEN "done" ELSE "failed")
    /\ discovered' = (discovered \/ (succeeds /\ RoleAllowed))
    /\ UNCHANGED <<version, enabled, verified, approvals, locks, outside, requests, verify, process, admin>>

-----------------------------------------------------------------------------
(* Administration.                                                          *)

Edit == edits < MaxEdits /\ edits' = edits + 1

\* revoke-role writes the role approval first ...
RevokeRole ==
    /\ revoking = 0 /\ roleLock = Nobody /\ Edit
    /\ revoking' = version /\ roleLock' = "admin"
    /\ UNCHANGED <<source, approvals, srcLock, outside, requests, jobs, process>>

\* ... and disables the source in the same transaction.
CommitRevocation ==
    /\ revoking # 0 /\ srcLock = Nobody
    /\ revoking' = 0 /\ roleLock' = Nobody
    /\ role' = (IF revoking = version THEN "revoked" ELSE role) /\ enabled' = FALSE /\ verified' = FALSE
    /\ UNCHANGED <<version, discovered, customer, srcLock, outside, requests, jobs, process, edits>>

\* The coordinator holds the source and waits for the role row, the administrator the
\* reverse: the database aborts one of them (the coordinator by Fails).
AbortRevocation ==
    /\ roleLock = "admin" /\ srcLock = "coordinator" /\ pc \in {"locked", "listed"}
    /\ revoking' = 0 /\ roleLock' = Nobody
    /\ UNCHANGED <<source, approvals, srcLock, outside, requests, jobs, process, edits>>

ApproveRole ==
    /\ roleLock = Nobody /\ role # "approved" /\ Edit
    /\ role' = "approved"
    /\ UNCHANGED <<source, customer, locks, outside, requests, jobs, process, revoking>>

RevokeCustomer ==
    /\ srcLock = Nobody /\ Edit
    /\ customer' = "revoked" /\ enabled' = FALSE /\ verified' = FALSE
    /\ UNCHANGED <<version, discovered, role, locks, outside, requests, jobs, process, revoking>>

\* rotate_external_id and stop_customer: a new version, whose role has no approval yet.
NewVersion(stop) ==
    /\ srcLock = Nobody /\ version < MaxVersions /\ Edit
    /\ version' = version + 1 /\ verified' = FALSE /\ enabled' = (enabled /\ ~stop)
    /\ role' = "none" /\ roleLock' = Nobody
    /\ verify' = [r \in Requests |-> IF verify[r] # "queued" THEN verify[r]
                                     ELSE IF stop THEN "failed" ELSE "none"]
    /\ discover' = (IF discover = "queued" THEN "failed" ELSE discover)
    /\ UNCHANGED <<discovered, customer, srcLock, outside, requests, process, revoking>>

Resume ==
    /\ srcLock = Nobody /\ ~enabled /\ Edit
    /\ enabled' = TRUE
    /\ UNCHANGED <<version, verified, discovered, approvals, locks, outside, requests, jobs, process, revoking>>

Coordinator ==
    \/ \E r \in Requests : Take(r) \/ Progress(r)
    \/ Start \/ LockApprovals \/ AllowRole \/ MergeAllowlist \/ Approve

Collector ==
    \/ \E r \in Requests, succeeds \in BOOLEAN : VerifyJob(r, succeeds)
    \/ \E succeeds \in BOOLEAN : DiscoverJob(succeeds)

Next ==
    \/ \E r \in Requests : RequestActivation(r)
    \/ Coordinator \/ Fails \/ Crash \/ Collector
    \/ RevokeRole \/ CommitRevocation \/ AbortRevocation \/ ApproveRole \/ RevokeCustomer
    \/ \E stop \in BOOLEAN : NewVersion(stop)
    \/ Resume

\* The coordinator's loop, the collector's workers and the database keep running.
Fairness ==
    /\ WF_vars(Coordinator) /\ WF_vars(Collector)
    /\ WF_vars(CommitRevocation) /\ WF_vars(AbortRevocation)

Spec == Init /\ [][Next]_vars
FairSpec == Spec /\ Fairness

-----------------------------------------------------------------------------
\* A revocation is never undone by a request made before it: activation turns no revoked
\* approval into an approved one, though it reads the approvals, waits for the broker and
\* only then writes them.
ActivationNeverRevives ==
    \A r \in Requests : status[r] # "verifying" /\ status'[r] = "verifying" =>
       enabled /\ role # "revoked" /\ customer # "revoked" /\ snapshot[r][1] = version

\* "Connected" is true when it is shown: the version the administrator consented to is
\* enabled, approved, allowed by the broker, in the allowlist, verified and discovered.
CompletedIsConnected ==
    \A r \in Requests : status[r] # "completed" /\ status'[r] = "completed" =>
       /\ snapshot[r][1] = version /\ enabled /\ role = "approved" /\ customer = "approved"
       /\ verified /\ discovered /\ allowed /\ listed

\* Both, of every step: activation opens no door that an administrator has shut.
ActivationIsSound == [][ActivationNeverRevives /\ CompletedIsConnected]_vars

\* Every request ends, whatever is revoked, rotated or stopped under it.
RequestsEnd == \A r \in Requests : status[r] = "queued" ~> status[r] \in {"completed", "failed"}
=============================================================================
