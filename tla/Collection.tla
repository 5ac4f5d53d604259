----------------------------- MODULE Collection -----------------------------
(***************************************************************************)
(* The collection of one billing source: handle_collect (scheduler.py) and *)
(* collect_source, fetch_month, publish_month and                          *)
(* _record_collection_failure (collector.py), run by worker threads that   *)
(* lease the collection jobs of the source, against administrators who     *)
(* pause, stop or rotate the connection.                                   *)
(*                                                                         *)
(* The queue is taken at the level of JobLifecycle (which JobQueue         *)
(* implements), with the leases a slow worker can lose.  A publication is  *)
(* a transaction that locks its job row, then the source row, then writes; *)
(* an administrator locks the source row, then the job rows.  PostgreSQL   *)
(* aborts one of two transactions that wait for each other.  The costs of  *)
(* a month are taken to fit one page of AWS's answer: every further page   *)
(* is one more Request and Response.                                       *)
(***************************************************************************)
EXTENDS Naturals, FiniteSets

CONSTANTS
    Months,      \* the months of the import window, in order
    Latest,      \* the months of an ordinary refresh (months_back 1)
    Jobs,        \* collection jobs of the source: bounds the jobs ever created
    Workers,     \* worker threads
    Admin,       \* the administrator
    Nobody,      \* the owner of an unlocked row
    NoJob,       \* a worker without a job
    MaxAttempts, \* Job.max_attempts
    LeaseTicks,  \* JOB_LEASE_SECONDS in ticks
    MaxUsage,    \* bound: revisions of a month's costs by AWS
    MaxCrashes,  \* bound: crashes of worker threads
    MaxEdits     \* bound: administrative changes of the source

ASSUME ConstantsAssumption ==
    /\ Months \subseteq Nat \ {0}
    /\ Latest \subseteq Months
    /\ NoJob \notin Jobs
    /\ Admin \notin Workers
    /\ Nobody \notin Workers \union {Admin}
    /\ MaxAttempts \in Nat \ {0}
    /\ LeaseTicks \in Nat \ {0}
    /\ MaxUsage \in Nat
    /\ MaxCrashes \in Nat
    /\ MaxEdits \in Nat

VARIABLES
    \* BillingSource
    version, enabled, imported,
    approved,    \* the current version is approved and verified
    \* Job, one row of the source
    status, attempts, holder, left, completed,
    jobVersion,  \* payload.connection_version
    span,        \* payload.months_back, as a set of months
    \* CollectionPeriod of a month, and its cost rows
    coverage, revision,
    costs,       \* the revision of AWS's costs that the rows hold
    provenance,  \* history: the connection version the rows were collected under
    usage,       \* what AWS answers for a month, as a revision number (external)
    \* locks of open transactions
    jobLock, srcLock,
    \* the locals of handle_collect, collect_source and publish_month
    pc,          \* what a worker does next
    goal,        \* the transaction it is after
    cur, token,  \* its copy of the job: primary key and attempts
    seen,        \* its copy of the source: connection_version
    todo, done,  \* the months to collect and those its progress lists
    month,       \* the month it collects
    fetched,     \* the costs AWS answered
    base,        \* period.revision as it was read
    wasComplete, \* period.status was "complete" when the month was begun
    admin,       \* the administrative operation under way
    crashes, edits

sourceVars == <<version, enabled, imported, approved>>
jobVars == <<status, attempts, holder, left, completed, jobVersion, span>>
periodVars == <<coverage, revision, costs, provenance>>
rowVars == <<sourceVars, jobVars, periodVars, usage>>
lockVars == <<jobLock, srcLock>>
localVars == <<goal, cur, token, seen, todo, done, month, fetched, base, wasComplete>>
boundVars == <<crashes, edits>>
vars == <<rowVars, lockVars, pc, localVars, admin, boundVars>>

Statuses == {"unused", "queued", "leased", "done", "failed", "deleted"}
Goals == {"publish", "final", "failMonth", "failRun"}
Phases == {"idle", "load", "pick", "request", "response", "read", "fence", "source",
           "commit", "save", "return", "fail"}
Owners == Workers \union {Admin, Nobody}

\* A worker at work on a month knows which.
HasMonth(w) ==
    \/ pc[w] \in {"request", "response", "read", "save"}
    \/ pc[w] \in {"fence", "source", "commit"} /\ goal[w] \in {"publish", "failMonth"}

TypeOK ==
    /\ version \in 0..MaxEdits /\ enabled \in BOOLEAN
    /\ imported \in BOOLEAN /\ approved \in BOOLEAN
    /\ status \in [Jobs -> Statuses]
    /\ attempts \in [Jobs -> 0..MaxAttempts]
    /\ \A j \in Jobs : status[j] \in {"unused", "queued"} => attempts[j] < MaxAttempts
    /\ holder \in [Jobs -> Workers \union {Nobody}]
    /\ left \in [Jobs -> 0..LeaseTicks]
    /\ completed \in [Jobs -> SUBSET Months]
    /\ jobVersion \in [Jobs -> 0..MaxEdits]
    /\ span \in [Jobs -> SUBSET Months]
    /\ coverage \in [Months -> {"pending", "complete", "failed", "partial"}]
    /\ revision \in [Months -> Nat]
    /\ costs \in [Months -> 0..MaxUsage]
    /\ provenance \in [Months -> 0..MaxEdits]
    /\ usage \in [Months -> 0..MaxUsage]
    /\ jobLock \in [Jobs -> Owners]
    /\ srcLock \in Owners
    /\ pc \in [Workers -> Phases]
    /\ goal \in [Workers -> Goals]
    /\ cur \in [Workers -> Jobs \union {NoJob}]
    /\ token \in [Workers -> 0..MaxAttempts]
    /\ seen \in [Workers -> 0..MaxEdits]
    /\ todo \in [Workers -> SUBSET Months]
    /\ done \in [Workers -> SUBSET Months]
    /\ month \in [Workers -> Months \union {0}]
    /\ fetched \in [Workers -> 0..MaxUsage]
    /\ base \in [Workers -> Nat]
    /\ wasComplete \in [Workers -> BOOLEAN]
    /\ \A w \in Workers : (pc[w] # "idle" => cur[w] \in Jobs) /\ (HasMonth(w) => month[w] # 0)
    /\ admin \in {"none", "stop", "rotate", "pause"}
    /\ crashes \in 0..MaxCrashes
    /\ edits \in 0..MaxEdits
    /\ version + (IF admin \in {"stop", "rotate"} THEN 1 ELSE 0) <= edits

Init ==
    /\ version = 0 /\ enabled = TRUE /\ imported = FALSE /\ approved = TRUE
    /\ status = [j \in Jobs |-> "unused"]
    /\ attempts = [j \in Jobs |-> 0]
    /\ holder = [j \in Jobs |-> Nobody]
    /\ left = [j \in Jobs |-> 0]
    /\ completed = [j \in Jobs |-> {}]
    /\ jobVersion = [j \in Jobs |-> 0]
    /\ span = [j \in Jobs |-> {}]
    /\ coverage = [m \in Months |-> "pending"]
    /\ revision = [m \in Months |-> 0]
    /\ costs = [m \in Months |-> 0]
    /\ provenance = [m \in Months |-> 0]
    /\ usage = [m \in Months |-> 0]
    /\ jobLock = [j \in Jobs |-> Nobody] /\ srcLock = Nobody
    /\ pc = [w \in Workers |-> "idle"]
    /\ goal = [w \in Workers |-> "publish"]
    /\ cur = [w \in Workers |-> NoJob]
    /\ token = [w \in Workers |-> 0]
    /\ seen = [w \in Workers |-> 0]
    /\ todo = [w \in Workers |-> {}]
    /\ done = [w \in Workers |-> {}]
    /\ month = [w \in Workers |-> 0]
    /\ fetched = [w \in Workers |-> 0]
    /\ base = [w \in Workers |-> 0]
    /\ wasComplete = [w \in Workers |-> FALSE]
    /\ admin = "none"
    /\ crashes = 0
    /\ edits = 0

-----------------------------------------------------------------------------
(* The job table                                                            *)

\* An update of a job row waits for the transaction that has it locked.
Free(j) == jobLock[j] = Nobody

\* The scheduler and the operators hold the source row and check its readiness before
\* they ask for a collection of its current version.
Ready == srcLock = Nobody /\ enabled /\ approved

Enqueue(j, months) ==
    /\ status[j] = "unused"
    /\ Ready
    /\ status' = [status EXCEPT ![j] = "queued"]
    /\ jobVersion' = [jobVersion EXCEPT ![j] = version]
    /\ span' = [span EXCEPT ![j] = months]
    /\ UNCHANGED <<attempts, holder, left, completed, sourceVars, periodVars, usage,
                   lockVars, pc, localVars, admin, boundVars>>

\* A request for the whole window extends a shorter job that still waits.
Extend(j) ==
    /\ status[j] = "queued" /\ jobVersion[j] = version
    /\ span[j] # Months
    /\ Ready
    /\ Free(j)
    /\ span' = [span EXCEPT ![j] = Months]
    /\ UNCHANGED <<status, attempts, holder, left, completed, jobVersion, sourceVars,
                   periodVars, usage, lockVars, pc, localVars, admin, boundVars>>

\* A worker leases a job; the queue keeps to one leased job per source and passes
\* over a locked source row.
Lease(w, j) ==
    /\ pc[w] = "idle"
    /\ status[j] = "queued"
    /\ \A i \in Jobs : status[i] # "leased"
    /\ Free(j) /\ srcLock = Nobody
    /\ status' = [status EXCEPT ![j] = "leased"]
    /\ holder' = [holder EXCEPT ![j] = w]
    /\ left' = [left EXCEPT ![j] = LeaseTicks]
    /\ attempts' = [attempts EXCEPT ![j] = @ + 1]
    /\ pc' = [pc EXCEPT ![w] = "load"]
    /\ cur' = [cur EXCEPT ![w] = j]
    /\ token' = [token EXCEPT ![w] = attempts[j] + 1]
    /\ done' = [done EXCEPT ![w] = completed[j]]
    /\ UNCHANGED <<completed, jobVersion, span, sourceVars, periodVars, usage, lockVars,
                   goal, seen, todo, month, fetched, base, wasComplete, admin, boundVars>>

\* The job row still belongs to this worker and this attempt.
Owns_AnyWorker(w) == status[cur[w]] = "leased"  \* mutant: worker and attempt not compared
Owns(w) ==
    /\ status[cur[w]] = "leased"
    /\ holder[cur[w]] = w
    /\ attempts[cur[w]] = token[w]

\* heartbeat and _check_publication_job also want a lease that has not run out.
Live(w) == Owns(w) /\ left[cur[w]] > 0

\* The end of an unsuccessful attempt: the job waits for another one, or failed.
PutBack(j, permanent) ==
    /\ status' = [status EXCEPT ![j] = IF permanent \/ attempts[j] >= MaxAttempts
                                       THEN "failed" ELSE "queued"]
    /\ left' = [left EXCEPT ![j] = 0]

\* recover_expired.
RecoverExpired(j) ==
    /\ status[j] = "leased" /\ left[j] = 0
    /\ Free(j)
    /\ PutBack(j, FALSE)
    /\ UNCHANGED <<attempts, holder, completed, jobVersion, span, sourceVars, periodVars,
                   usage, lockVars, pc, localVars, admin, boundVars>>

Ticking_On(j) == status[j] = "leased"  \* mutant: an expired lease is counted on
Ticking(j) == status[j] = "leased" /\ left[j] > 0

Tick ==
    /\ \E j \in Jobs : Ticking(j)
    /\ left' = [j \in Jobs |-> IF Ticking(j) THEN left[j] - 1 ELSE left[j]]
    /\ UNCHANGED <<status, attempts, holder, completed, jobVersion, span, sourceVars,
                   periodVars, usage, lockVars, pc, localVars, admin, boundVars>>

\* AWS revises the costs of a month.
Bill(m) ==
    /\ usage[m] < MaxUsage
    /\ usage' = [usage EXCEPT ![m] = @ + 1]
    /\ UNCHANGED <<sourceVars, jobVars, periodVars, lockVars, pc, localVars, admin, boundVars>>

-----------------------------------------------------------------------------
(* handle_collect and collect_source                                        *)

Goto(w, phase) == pc' = [pc EXCEPT ![w] = phase]

\* The worker's thread forgets the job and goes back to its loop.
Return(w) ==
    /\ Goto(w, "idle")
    /\ goal' = [goal EXCEPT ![w] = "publish"]
    /\ cur' = [cur EXCEPT ![w] = NoJob]
    /\ token' = [token EXCEPT ![w] = 0]
    /\ seen' = [seen EXCEPT ![w] = 0]
    /\ todo' = [todo EXCEPT ![w] = {}]
    /\ done' = [done EXCEPT ![w] = {}]
    /\ month' = [month EXCEPT ![w] = 0]
    /\ fetched' = [fetched EXCEPT ![w] = 0]
    /\ base' = [base EXCEPT ![w] = 0]
    /\ wasComplete' = [wasComplete EXCEPT ![w] = FALSE]

\* load_source refuses a job whose connection changed, or is paused, stopped or not
\* approved: a PermanentJobError, which fails the job for good.
Refused(w) == jobVersion[cur[w]] # version \/ ~enabled \/ ~approved

LoadRefused(w) ==
    /\ pc[w] = "load"
    /\ Refused(w)
    /\ IF Owns(w) THEN Free(cur[w]) /\ PutBack(cur[w], TRUE) ELSE UNCHANGED <<status, left>>
    /\ Return(w)
    /\ UNCHANGED <<attempts, holder, completed, jobVersion, span, sourceVars, periodVars,
                   usage, lockVars, admin, boundVars>>

\* The months to collect: the whole window until the initial import is done.
Window_Payload(j) == span[j]  \* mutant: the payload decides
Window(j) == IF imported THEN span[j] ELSE Months

Load(w) ==
    /\ pc[w] = "load"
    /\ ~Refused(w)
    /\ seen' = [seen EXCEPT ![w] = version]
    /\ todo' = [todo EXCEPT ![w] = Window(cur[w])]
    /\ Goto(w, "pick")
    /\ UNCHANGED <<rowVars, lockVars, goal, cur, token, done, month, fetched, base,
                   wasComplete, admin, boundVars>>

\* The next month that the job's progress does not list; its period is read.
Pending(w) == todo[w] \ done[w]

PickMonth(w, m) ==
    /\ pc[w] = "pick"
    /\ m \in Pending(w)
    /\ \A n \in Pending(w) : m <= n
    /\ month' = [month EXCEPT ![w] = m]
    /\ wasComplete' = [wasComplete EXCEPT ![w] = (coverage[m] = "complete")]
    /\ Goto(w, "request")
    /\ UNCHANGED <<rowVars, lockVars, goal, cur, token, seen, todo, done, fetched, base,
                   admin, boundVars>>

\* The worker goes for a fenced transaction: a publication, the end of the run, or
\* the record of a failure.
Aim(w, what) ==
    /\ goal' = [goal EXCEPT ![w] = what]
    /\ Goto(w, "fence")

PickNone(w) ==
    /\ pc[w] = "pick"
    /\ Pending(w) = {}
    /\ Aim(w, "final")
    /\ UNCHANGED <<rowVars, lockVars, cur, token, seen, todo, done, month, fetched, base,
                   wasComplete, admin, boundVars>>

\* _renew_job: the update waits for the row; it counts only while the lease is live.
Renew(w) ==
    /\ Free(cur[w])
    /\ left' = [left EXCEPT ![cur[w]] = LeaseTicks]

\* _LeasedMeter: the lease is renewed before a page is asked for,
Request(w) ==
    /\ pc[w] = "request"
    /\ IF Live(w) THEN Renew(w) /\ Goto(w, "response") /\ UNCHANGED goal
                  ELSE Aim(w, "failMonth") /\ UNCHANGED left
    /\ UNCHANGED <<status, attempts, holder, completed, jobVersion, span, sourceVars,
                   periodVars, usage, lockVars, cur, token, seen, todo, done, month,
                   fetched, base, wasComplete, admin, boundVars>>

\* and again when it has come: a slow answer does not bring an expired lease back.
Response(w) ==
    /\ pc[w] = "response"
    /\ IF Live(w)
       THEN /\ Renew(w)
            /\ fetched' = [fetched EXCEPT ![w] = usage[month[w]]]
            /\ Goto(w, "read")
            /\ UNCHANGED goal
       ELSE Aim(w, "failMonth") /\ UNCHANGED <<left, fetched>>
    /\ UNCHANGED <<status, attempts, holder, completed, jobVersion, span, sourceVars,
                   periodVars, usage, lockVars, cur, token, seen, todo, done, month,
                   base, wasComplete, admin, boundVars>>

\* AWS refuses, throttles or returns an invalid answer.
RequestFails(w) ==
    /\ pc[w] = "response"
    /\ Aim(w, "failMonth")
    /\ UNCHANGED <<rowVars, lockVars, cur, token, seen, todo, done, month, fetched, base,
                   wasComplete, admin, boundVars>>

\* publish_month reads the period, and with it the revision, before its transaction.
ReadPeriod(w) ==
    /\ pc[w] = "read"
    /\ base' = [base EXCEPT ![w] = revision[month[w]]]
    /\ Aim(w, "publish")
    /\ UNCHANGED <<rowVars, lockVars, cur, token, seen, todo, done, month, fetched,
                   wasComplete, admin, boundVars>>

-----------------------------------------------------------------------------
(* The fenced transactions of a worker                                      *)

\* What follows a transaction that raised: a failed publication is recorded for its
\* month, then for the run, then the job fails; recording never raises for good.
Unwind(w) ==
    IF goal[w] = "failRun" THEN Goto(w, "fail") /\ UNCHANGED goal
    ELSE Aim(w, IF goal[w] = "publish" THEN "failMonth" ELSE "failRun")

\* Locks taken by select_for_update are held to the end of the transaction.
LockJob_Not(w) == UNCHANGED jobLock  \* mutant: the job row is read without a lock
LockJob(w) == jobLock' = [jobLock EXCEPT ![cur[w]] = w]
LockSource_Not(w) == UNCHANGED srcLock  \* mutant: the source row is read without a lock
LockSource(w) == srcLock' = w

Unlock_Source(p) ==  \* mutant: the job row stays locked
    UNCHANGED jobLock /\ srcLock' = IF srcLock = p THEN Nobody ELSE srcLock
Unlock(p) ==
    /\ jobLock' = [j \in Jobs |-> IF jobLock[j] = p THEN Nobody ELSE jobLock[j]]
    /\ srcLock' = IF srcLock = p THEN Nobody ELSE srcLock

\* What a fenced transaction leaves alone of the worker's locals.
keptVars == <<cur, token, seen, todo, done, month, fetched, base, wasComplete>>

\* _check_publication_job: lock the job row if it still is this worker's.
FenceJob(w) ==
    /\ pc[w] = "fence"
    /\ Live(w)
    /\ Free(cur[w])
    /\ LockJob(w)
    /\ Goto(w, "source")
    /\ UNCHANGED <<rowVars, srcLock, localVars, admin, boundVars>>

FenceJobFails(w) ==
    /\ pc[w] = "fence"
    /\ ~Live(w)
    /\ Unwind(w)
    /\ UNCHANGED <<rowVars, lockVars, keptVars, admin, boundVars>>

\* _check_publication_source: lock the source row and compare it with the copy the
\* worker started from.
Unchanged(w) == enabled /\ approved /\ version = seen[w]

FenceSource(w) ==
    /\ pc[w] = "source"
    /\ srcLock = Nobody
    /\ Unchanged(w)
    /\ LockSource(w)
    /\ Goto(w, "commit")
    /\ UNCHANGED <<rowVars, jobLock, localVars, admin, boundVars>>

FenceSourceFails(w) ==
    /\ pc[w] = "source"
    /\ srcLock = Nobody
    /\ ~Unchanged(w)
    /\ Unwind(w)
    /\ Unlock(w)
    /\ UNCHANGED <<rowVars, keptVars, admin, boundVars>>

\* The rows of the month are replaced and its period is completed.
Publish(w) ==
    /\ pc[w] = "commit" /\ goal[w] = "publish"
    /\ coverage' = [coverage EXCEPT ![month[w]] = "complete"]
    /\ revision' = [revision EXCEPT ![month[w]] = base[w] + 1]
    /\ costs' = [costs EXCEPT ![month[w]] = fetched[w]]
    /\ provenance' = [provenance EXCEPT ![month[w]] = seen[w]]
    /\ Goto(w, "save")
    /\ Unlock(w)
    /\ UNCHANGED <<sourceVars, jobVars, usage, localVars, admin, boundVars>>

\* The costs are refused: out of the approved scope, or already collected through
\* another connection (check_overlap).
PublishRefused(w) ==
    /\ pc[w] = "commit" /\ goal[w] = "publish"
    /\ Unwind(w)
    /\ Unlock(w)
    /\ UNCHANGED <<rowVars, keptVars, admin, boundVars>>

\* Every month is published: the initial import is done.
FinishRun(w) ==
    /\ pc[w] = "commit" /\ goal[w] = "final"
    /\ imported' = TRUE
    /\ Goto(w, "return")
    /\ Unlock(w)
    /\ UNCHANGED <<version, enabled, approved, jobVars, periodVars, usage, localVars,
                   admin, boundVars>>

\* _record_collection_failure for a month: old rows survive, the period is marked
\* by the status that was read when the month was begun.
RecordMonthFailure(w) ==
    /\ pc[w] = "commit" /\ goal[w] = "failMonth"
    /\ coverage' = [coverage EXCEPT ![month[w]] = IF wasComplete[w] THEN "partial" ELSE "failed"]
    /\ Aim(w, "failRun")
    /\ Unlock(w)
    /\ UNCHANGED <<sourceVars, jobVars, revision, costs, provenance, usage, keptVars,
                   admin, boundVars>>

\* The same for the run, which only leaves a message with the source.
RecordRunFailure(w) ==
    /\ pc[w] = "commit" /\ goal[w] = "failRun"
    /\ Goto(w, "fail")
    /\ Unlock(w)
    /\ UNCHANGED <<rowVars, localVars, admin, boundVars>>

-----------------------------------------------------------------------------
(* Progress and the end of a run                                            *)

\* The published month is added to the job's progress with a heartbeat.
SaveProgress(w) ==
    /\ pc[w] = "save"
    /\ done' = [done EXCEPT ![w] = @ \union {month[w]}]
    /\ IF Live(w)
       THEN /\ Renew(w)
            /\ completed' = [completed EXCEPT ![cur[w]] = done[w] \union {month[w]}]
            /\ Goto(w, "pick")
            /\ UNCHANGED goal
       ELSE Aim(w, "failRun") /\ UNCHANGED <<left, completed>>
    /\ UNCHANGED <<status, attempts, holder, jobVersion, span, sourceVars, periodVars,
                   usage, lockVars, cur, token, seen, todo, month, fetched, base,
                   wasComplete, admin, boundVars>>

\* jobs.complete.
Complete(w) ==
    /\ pc[w] = "return"
    /\ IF Owns(w)
       THEN /\ Free(cur[w])
            /\ status' = [status EXCEPT ![cur[w]] = "done"]
            /\ left' = [left EXCEPT ![cur[w]] = 0]
       ELSE UNCHANGED <<status, left>>
    /\ Return(w)
    /\ UNCHANGED <<attempts, holder, completed, jobVersion, span, sourceVars, periodVars,
                   usage, lockVars, admin, boundVars>>

\* jobs.fail with the progress the run reached.
Reached_Begun(w) == done[w] \union ({month[w]} \ {0})  \* mutant: the month begun counts
Reached(w) == done[w]

Fail(w) ==
    /\ pc[w] = "fail"
    /\ IF Owns(w)
       THEN /\ Free(cur[w])
            /\ PutBack(cur[w], FALSE)
            /\ completed' = [completed EXCEPT ![cur[w]] = Reached(w)]
       ELSE UNCHANGED <<status, left, completed>>
    /\ Return(w)
    /\ UNCHANGED <<attempts, holder, jobVersion, span, sourceVars, periodVars, usage,
                   lockVars, admin, boundVars>>

\* The worker dies: its transaction is rolled back, its job stays leased.
Crash(w) ==
    /\ pc[w] # "idle"
    /\ crashes < MaxCrashes
    /\ crashes' = crashes + 1
    /\ Unlock(w)
    /\ Return(w)
    /\ UNCHANGED <<rowVars, admin, edits>>

-----------------------------------------------------------------------------
(* Administrators                                                           *)

\* stop_customer and rotate_external_id lock the source row; set_paused updates it
\* in a transaction of its own.
AdminBegin(op) ==
    /\ admin = "none"
    /\ edits < MaxEdits
    /\ edits' = edits + 1
    /\ srcLock = Nobody
    /\ admin' = op
    /\ enabled' = (enabled /\ op # "pause")
    /\ srcLock' = IF op = "pause" THEN Nobody ELSE Admin
    /\ UNCHANGED <<version, imported, approved, jobVars, periodVars, usage, jobLock, pc,
                   localVars, crashes>>

\* The job rows the operation changes, locked one by one,
Doomed == {j \in Jobs : status[j] = "queued" \/ (status[j] = "leased" /\ admin = "stop")}

AdminTake(j) ==
    /\ admin # "none"
    /\ j \in Doomed
    /\ Free(j)
    /\ jobLock' = [jobLock EXCEPT ![j] = Admin]
    /\ UNCHANGED <<rowVars, srcLock, pc, localVars, admin, boundVars>>

\* and the commit.  A new version has not been approved yet.
AdminCommit ==
    /\ admin # "none"
    /\ \A j \in Doomed : jobLock[j] = Admin
    /\ status' = [j \in Jobs |-> IF j \notin Doomed THEN status[j]
                                 ELSE IF admin = "stop" THEN "failed" ELSE "deleted"]
    /\ IF admin = "pause"
       THEN UNCHANGED <<version, approved, enabled>>
       ELSE /\ version' = version + 1
            /\ approved' = FALSE
            /\ enabled' = (enabled /\ admin # "stop")
    /\ Unlock(Admin)
    /\ admin' = "none"
    /\ UNCHANGED <<imported, attempts, holder, left, completed, jobVersion, span,
                   periodVars, usage, pc, localVars, boundVars>>

\* set_paused(False).
Resume ==
    /\ ~enabled
    /\ admin = "none" /\ srcLock = Nobody
    /\ enabled' = TRUE
    /\ UNCHANGED <<version, imported, approved, jobVars, periodVars, usage, lockVars, pc,
                   localVars, admin, boundVars>>

\* The current version is approved and verified (activation.py).
Approve ==
    /\ ~approved
    /\ srcLock = Nobody
    /\ approved' = TRUE
    /\ UNCHANGED <<version, enabled, imported, jobVars, periodVars, usage, lockVars, pc,
                   localVars, admin, boundVars>>

\* PostgreSQL finds a worker and an administrator waiting for each other's row and
\* aborts one of the two transactions.
Deadlock(w) ==
    /\ pc[w] = "source" /\ srcLock = Admin
    /\ cur[w] \in Doomed /\ jobLock[cur[w]] = w

AbortWorker(w) ==
    /\ Deadlock(w)
    /\ Unwind(w)
    /\ Unlock(w)
    /\ UNCHANGED <<rowVars, keptVars, admin, boundVars>>

AbortAdmin(w) ==
    /\ Deadlock(w)
    /\ Unlock(Admin)
    /\ admin' = "none"
    /\ UNCHANGED <<rowVars, pc, localVars, boundVars>>

-----------------------------------------------------------------------------
Collect(w) ==
    \/ LoadRefused(w) \/ Load(w)
    \/ (\E m \in Months : PickMonth(w, m)) \/ PickNone(w)
    \/ Request(w) \/ Response(w) \/ RequestFails(w) \/ ReadPeriod(w)
    \/ FenceJob(w) \/ FenceJobFails(w) \/ FenceSource(w) \/ FenceSourceFails(w)
    \/ Publish(w) \/ PublishRefused(w) \/ FinishRun(w)
    \/ RecordMonthFailure(w) \/ RecordRunFailure(w)
    \/ SaveProgress(w) \/ Complete(w) \/ Fail(w)

Next ==
    \/ \E j \in Jobs, months \in {Latest, Months} : Enqueue(j, months)
    \/ \E j \in Jobs : Extend(j) \/ RecoverExpired(j) \/ AdminTake(j)
    \/ \E w \in Workers, j \in Jobs : Lease(w, j)
    \/ \E w \in Workers : Collect(w) \/ Crash(w) \/ AbortWorker(w) \/ AbortAdmin(w)
    \/ \E op \in {"stop", "rotate", "pause"} : AdminBegin(op)
    \/ \E m \in Months : Bill(m)
    \/ AdminCommit
    \/ Resume
    \/ Approve
    \/ Tick

Spec == Init /\ [][Next]_vars

\* Worker threads keep running, expired leases are recovered and time passes.  A
\* worker that waits for a row gets it once it is released, and so does an administrator;
\* a deadlock of the two is detected.
Fairness ==
    /\ \A w \in Workers : SF_vars(Collect(w))
    /\ \A j \in Jobs : SF_vars(RecoverExpired(j)) /\ SF_vars(AdminTake(j))
    /\ SF_vars(AdminCommit)
    /\ \A w \in Workers : WF_vars(AbortWorker(w) \/ AbortAdmin(w))
    /\ WF_vars(Tick)

FairSpec == Spec /\ Fairness

-----------------------------------------------------------------------------
(* Properties                                                               *)

\* The worker still has the lease: written out here, apart from the code's own guard.
Current(w) ==
    /\ pc[w] # "idle"
    /\ status[cur[w]] = "leased" /\ holder[cur[w]] = w /\ attempts[cur[w]] = token[w]

\* The revision is read before the transaction that writes it back (collector.py:380,
\* 403), and yet no publication's revision is lost: the period's revision goes up by
\* one with every publication.
RevisionCountsPublications ==
    [][\A w \in Workers :
         pc[w] = "commit" /\ pc'[w] = "save"
            => revision'[month[w]] = revision[month[w]] + 1]_vars

\* A worker that lost its lease while AWS answered never replaces newer costs by the
\* older ones it fetched (collector.py:50, 89).
NewestDataWins == [][\A m \in Months : costs'[m] >= costs[m]]_vars

\* Costs are published only for the connection as it is at that moment: enabled,
\* approved and of the version the worker assumed the role for (collector.py:34-44).
\* A pause, rotation or stop that committed earlier discards the results.
NoStalePublication ==
    [][\A m \in Months :
         revision'[m] # revision[m] =>
            enabled /\ approved /\ provenance'[m] = version]_vars

\* "An obsolete worker may record its run failure, but cannot change current status"
\* (collector.py:63): only the worker that has the lease marks a month as failed.
FailureIsCurrent ==
    [][\A m \in Months :
         coverage'[m] # coverage[m] /\ coverage'[m] # "complete" =>
            \E w \in Workers : Current(w) /\ month[w] = m]_vars

\* A connection whose initial import is done has every month of its window published,
\* through retries, resumed progress and interrupted runs.
ImportedMeansAll == imported => \A m \in Months : revision[m] > 0

\* The progress of a job that can still run names only months whose costs were
\* published for the job's connection version: resuming skips nothing.
ProgressIsPublished ==
    \A j \in Jobs : status[j] \in {"queued", "leased"} =>
        \A m \in completed[j] : revision[m] > 0 /\ provenance[m] >= jobVersion[j]

\* Publications and administrators wait for each other's rows, in opposite orders:
\* every run ends,
RunEnds == \A w \in Workers : pc[w] # "idle" ~> pc[w] = "idle"

\* and so does every administrative operation.
AdminEnds == admin # "none" ~> admin = "none"
=============================================================================
