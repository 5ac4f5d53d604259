---------------------------- MODULE JobLifecycle ----------------------------
(***************************************************************************)
(* What the durable job queue of billing/jobs.py promises, without the     *)
(* row locks, skipped rows, rechecks and compare-and-set updates by which  *)
(* it keeps the promise.  A job is created under a coalescing key, is      *)
(* claimed by one worker at a time and at most KeyMax[key] times, and ends *)
(* as done or failed (or is deleted while it waits).  At any time a key    *)
(* has at most one active job and a billing source at most one claimed     *)
(* job.  JobQueue is shown to implement this specification.                *)
(***************************************************************************)
EXTENDS Naturals

CONSTANTS
    Jobs,       \* primary keys of the job table
    Keys,       \* coalescing keys
    Sources,    \* billing sources
    NoSource,   \* the source of a portfolio-wide job, not one of Sources
    KeySource,  \* the source a key belongs to (a key names its source)
    KeyMax      \* max_attempts of the jobs enqueued under a key, at least 1

VARIABLES
    status,     \* Job.status, with "unused" and "deleted" for rows not in the table
    keyOf,      \* Job.key (meaningful once the job was created)
    attempts    \* Job.attempts

vars == <<status, keyOf, attempts>>

Statuses == {"unused", "queued", "leased", "done", "failed", "deleted"}
Active == {"queued", "leased"}

Source(j) == KeySource[keyOf[j]]
SameSource(i, j) == Source(i) # NoSource /\ Source(i) = Source(j)

Init ==
    /\ status = [j \in Jobs |-> "unused"]
    /\ keyOf \in [Jobs -> Keys]
    /\ attempts = [j \in Jobs |-> 0]

\* A request creates a job unless one with its key is waiting or running.
Create(j, k) ==
    /\ status[j] = "unused"
    /\ \A i \in Jobs : status[i] \in Active => keyOf[i] # k
    /\ status' = [status EXCEPT ![j] = "queued"]
    /\ keyOf' = [keyOf EXCEPT ![j] = k]
    /\ UNCHANGED attempts

\* A worker claims a waiting job whose source has no claimed job.
Claim(j) ==
    /\ status[j] = "queued"
    /\ attempts[j] < KeyMax[keyOf[j]]
    /\ \A i \in Jobs : status[i] = "leased" => ~SameSource(i, j)
    /\ status' = [status EXCEPT ![j] = "leased"]
    /\ attempts' = [attempts EXCEPT ![j] = @ + 1]
    /\ UNCHANGED keyOf

\* A claimed job ends, or goes back to the queue while it has attempts left.
Release(j, outcome) ==
    /\ status[j] = "leased"
    /\ outcome = "queued" => attempts[j] < KeyMax[keyOf[j]]
    /\ status' = [status EXCEPT ![j] = outcome]
    /\ UNCHANGED <<keyOf, attempts>>

\* An operator stops a source (its active jobs fail) or deletes its waiting jobs.
Withdraw(s, from, to) ==
    /\ status' = [j \in Jobs |-> IF status[j] \in from /\ Source(j) = s
                                 THEN to ELSE status[j]]
    /\ UNCHANGED <<keyOf, attempts>>

Next ==
    \/ \E j \in Jobs, k \in Keys : Create(j, k)
    \/ \E j \in Jobs : Claim(j)
    \/ \E j \in Jobs, o \in {"queued", "done", "failed"} : Release(j, o)
    \/ \E s \in Sources : Withdraw(s, Active, "failed")
    \/ \E s \in Sources : Withdraw(s, {"queued"}, "deleted")

Spec == Init /\ [][Next]_vars
=============================================================================
