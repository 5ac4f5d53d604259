------------------------------ MODULE JobQueue ------------------------------
(***************************************************************************)
(* The durable job queue of billing/jobs.py on PostgreSQL: enqueue with    *)
(* coalescing keys, lease with row locks and SKIP LOCKED, heartbeat,       *)
(* complete, fail and recover_expired as compare-and-set updates, and the  *)
(* statements of onboarding.py and governance.py that delete or cancel the *)
(* jobs of a source.                                                       *)
(*                                                                         *)
(* One action is one SQL statement (or a run of statements no other        *)
(* transaction can tell apart), so that every interleaving of worker       *)
(* threads, request threads and administrators at READ COMMITTED is        *)
(* explored.  Time is abstracted to what the statements compare: a lease   *)
(* has a number of ticks left (0 is lease_expires < now) and a waiting job *)
(* is due or not (run_after <= now).                                       *)
(***************************************************************************)
EXTENDS Naturals, FiniteSets

CONSTANTS
    Jobs,        \* primary keys of the job table: bounds the jobs ever created
    Keys,        \* coalescing keys
    Sources,     \* billing sources
    NoSource,    \* the source of a portfolio-wide job
    KeySource,   \* the source a key belongs to
    KeyMax,      \* max_attempts of the jobs enqueued under a key
    KeyPriority, \* priority of the jobs enqueued under a key (1 is first)
    Workers,     \* worker threads
    Clients,     \* threads that enqueue: web requests and the scheduler tick
    Admin,       \* the administrator whose request holds a source row
    Nobody,      \* the owner of an unlocked row, the worker of a job never leased
    NoJob,       \* a worker without a job
    LeaseTicks,  \* JOB_LEASE_SECONDS in ticks
    MaxCrashes,  \* bound: crashes of worker threads
    MaxStops     \* bound: administrative operations under a source lock

ASSUME ConstantsAssumption ==
    /\ NoSource \notin Sources
    /\ KeySource \in [Keys -> Sources \union {NoSource}]
    /\ KeyMax \in [Keys -> Nat \ {0}]
    /\ KeyPriority \in [Keys -> Nat]
    /\ Keys # {}
    /\ NoJob \notin Jobs
    /\ Admin \notin Workers
    /\ Nobody \notin Workers \union {Admin}
    /\ LeaseTicks \in Nat \ {0}
    /\ MaxCrashes \in Nat
    /\ MaxStops \in Nat

VARIABLES
    \* the job table
    status,      \* Job.status; "unused" and "deleted" rows are not in the table
    keyOf,       \* Job.key
    attempts,    \* Job.attempts
    holder,      \* Job.worker
    left,        \* ticks until lease_expires
    due,         \* run_after <= now
    \* locks of open transactions
    held,        \* job rows an open transaction has locked
    srcLock,     \* who has locked a source row
    \* threads
    pc,          \* what a worker does next
    cand,        \* rows its candidate cursor has still to return
    cur,         \* the candidate under consideration, then the job it runs
    token,       \* job.attempts in the worker's copy of the job it runs
    req,         \* the enqueue call of a client: phase, key, immediate
    admin,       \* the administrative operation that holds a source row
    crashes, stops

jobVars == <<status, keyOf, attempts, holder, left, due>>
workerVars == <<pc, cand, cur, token>>
lockVars == <<held, srcLock>>
vars == <<jobVars, workerVars, lockVars, req, admin, crashes, stops>>

Statuses == {"unused", "queued", "leased", "done", "failed", "deleted"}
Active == {"queued", "leased"}
InTable == Statuses \ {"unused", "deleted"}
LeasePhases == {"scan", "locked", "recheck", "claim"}
HasJob == {"locked", "recheck", "claim", "running"}

TypeOK ==
    /\ status \in [Jobs -> Statuses]
    /\ keyOf \in [Jobs -> Keys]
    /\ attempts \in [Jobs -> Nat]
    /\ holder \in [Jobs -> Workers \union {Nobody}]
    /\ left \in [Jobs -> 0..LeaseTicks]
    /\ due \in [Jobs -> BOOLEAN]
    /\ held \in [Workers \union {Admin} -> SUBSET Jobs]
    /\ srcLock \in [Sources -> Workers \union {Admin, Nobody}]
    /\ pc \in [Workers -> LeasePhases \union {"idle", "running"}]
    /\ cand \in [Workers -> SUBSET Jobs]
    /\ cur \in [Workers -> Jobs \union {NoJob}]
    /\ \A w \in Workers : pc[w] \in HasJob => cur[w] \in Jobs
    /\ token \in [Workers -> Nat]
    /\ req \in [Clients -> [phase: {"none", "lookup", "insert", "reread"},
                            key: Keys, now: BOOLEAN]]
    /\ admin \in [op: {"none", "stop", "rotate"}, source: Sources \union {NoSource}]
    /\ crashes \in 0..MaxCrashes
    /\ stops \in 0..MaxStops

Source(j) == KeySource[keyOf[j]]
SameSource(i, j) == Source(i) # NoSource /\ Source(i) = Source(j)

\* No open transaction has the row locked, so that a statement need not wait for it.
Unlocked(j) == \A p \in Workers \union {Admin} : j \notin held[p]

ActiveWith(k) == {j \in Jobs : status[j] \in Active /\ keyOf[j] = k}
Busy == {Source(j) : j \in {i \in Jobs : status[i] = "leased"}} \ {NoSource}
Runnable(j) == status[j] = "queued" /\ due[j]

AnyKey == CHOOSE k \in Keys : TRUE
NoRequest == [phase |-> "none", key |-> AnyKey, now |-> FALSE]

Init ==
    /\ status = [j \in Jobs |-> "unused"]
    /\ keyOf = [j \in Jobs |-> AnyKey]
    /\ attempts = [j \in Jobs |-> 0]
    /\ holder = [j \in Jobs |-> Nobody]
    /\ left = [j \in Jobs |-> 0]
    /\ due = [j \in Jobs |-> FALSE]
    /\ held = [p \in Workers \union {Admin} |-> {}]
    /\ srcLock = [s \in Sources |-> Nobody]
    /\ pc = [w \in Workers |-> "idle"]
    /\ cand = [w \in Workers |-> {}]
    /\ cur = [w \in Workers |-> NoJob]
    /\ token = [w \in Workers |-> 0]
    /\ req = [c \in Clients |-> NoRequest]
    /\ admin = [op |-> "none", source |-> NoSource]
    /\ crashes = 0
    /\ stops = 0

-----------------------------------------------------------------------------
(* enqueue: the once check, SELECT ... FOR UPDATE of the active job, INSERT *)
(* in a savepoint, and the second read after an IntegrityError.             *)

\* A call starts.  With once, any job of the key that is in the table is returned.
EnqueueCall(c, k, once, now) ==
    /\ req[c].phase = "none"
    /\ once => \A j \in Jobs : status[j] \in InTable => keyOf[j] # k
    /\ req' = [req EXCEPT ![c] = [phase |-> "lookup", key |-> k, now |-> now]]
    /\ UNCHANGED <<jobVars, workerVars, lockVars, admin, crashes, stops>>

\* The active job absorbs the request; an earlier run_after is taken over.  The
\* statement waits while a lease transaction has the row locked.
EnqueueCoalesce(c) ==
    /\ req[c].phase = "lookup"
    /\ \E j \in ActiveWith(req[c].key) :
        /\ Unlocked(j)
        /\ due' = [due EXCEPT ![j] = @ \/ (status[j] = "queued" /\ req[c].now)]
    /\ req' = [req EXCEPT ![c] = NoRequest]
    /\ UNCHANGED <<status, keyOf, attempts, holder, left, workerVars, lockVars,
                   admin, crashes, stops>>

\* No active job has the key.
EnqueueMiss(c) ==
    /\ req[c].phase = "lookup"
    /\ ActiveWith(req[c].key) = {}
    /\ req' = [req EXCEPT ![c].phase = "insert"]
    /\ UNCHANGED <<jobVars, workerVars, lockVars, admin, crashes, stops>>

\* The row the unique index on active keys accepts or refuses.
UniqueActiveKey_Missing(k) == TRUE  \* mutant: the index is not there
UniqueActiveKey(k) == ActiveWith(k) = {}

EnqueueInsert(c) ==
    /\ req[c].phase = "insert"
    /\ UniqueActiveKey(req[c].key)
    /\ \E j \in Jobs :
        /\ status[j] = "unused"
        /\ status' = [status EXCEPT ![j] = "queued"]
        /\ keyOf' = [keyOf EXCEPT ![j] = req[c].key]
        /\ due' = [due EXCEPT ![j] = req[c].now]
    /\ req' = [req EXCEPT ![c] = NoRequest]
    /\ UNCHANGED <<attempts, holder, left, workerVars, lockVars, admin, crashes, stops>>

\* IntegrityError: another client inserted first; the savepoint is rolled back.
EnqueueConflict(c) ==
    /\ req[c].phase = "insert"
    /\ ~UniqueActiveKey(req[c].key)
    /\ req' = [req EXCEPT ![c].phase = "reread"]
    /\ UNCHANGED <<jobVars, workerVars, lockVars, admin, crashes, stops>>

\* The active job of the key is read again and returned, whatever is there now.
EnqueueReread(c) ==
    /\ req[c].phase = "reread"
    /\ req' = [req EXCEPT ![c] = NoRequest]
    /\ UNCHANGED <<jobVars, workerVars, lockVars, admin, crashes, stops>>

Enqueue(c) ==
    \/ \E k \in Keys, once \in BOOLEAN, now \in BOOLEAN : EnqueueCall(c, k, once, now)
    \/ EnqueueCoalesce(c)
    \/ EnqueueMiss(c)
    \/ EnqueueInsert(c)
    \/ EnqueueConflict(c)
    \/ EnqueueReread(c)

-----------------------------------------------------------------------------
(* lease                                                                    *)

\* The busy sources are read and the candidate cursor is opened.
LeaseOpen(w) ==
    /\ pc[w] = "idle"
    /\ pc' = [pc EXCEPT ![w] = "scan"]
    /\ cand' = [cand EXCEPT ![w] = {j \in Jobs : Runnable(j) /\ Source(j) \notin Busy}]
    /\ UNCHANGED <<jobVars, cur, token, lockVars, req, admin, crashes, stops>>

\* The cursor goes on to the first remaining row in priority order ...
Foremost(w, j) ==
    /\ j \in cand[w]
    /\ \A i \in cand[w] : KeyPriority[keyOf[j]] <= KeyPriority[keyOf[i]]

\* ... which it locks and returns if the newest version of the row still matches,
LeaseLock(w, j) ==
    /\ pc[w] = "scan"
    /\ Foremost(w, j)
    /\ Unlocked(j)
    /\ Runnable(j)
    /\ held' = [held EXCEPT ![w] = @ \union {j}]
    /\ cand' = [cand EXCEPT ![w] = @ \ {j}]
    /\ cur' = [cur EXCEPT ![w] = j]
    /\ pc' = [pc EXCEPT ![w] = "locked"]
    /\ UNCHANGED <<jobVars, token, srcLock, req, admin, crashes, stops>>

\* and passes over (SKIP LOCKED, or the row changed) otherwise.
LeaseSkip(w, j) ==
    /\ pc[w] = "scan"
    /\ Foremost(w, j)
    /\ ~(Unlocked(j) /\ Runnable(j))
    /\ cand' = [cand EXCEPT ![w] = @ \ {j}]
    /\ UNCHANGED <<jobVars, pc, cur, token, lockVars, req, admin, crashes, stops>>

\* Locks of worker w are released when its transaction ends.
ReleaseLocks(w) ==
    /\ held' = [held EXCEPT ![w] = {}]
    /\ srcLock' = [s \in Sources |-> IF srcLock[s] = w THEN Nobody ELSE srcLock[s]]

\* No candidate is left: lease returns None.
LeaseNone(w) ==
    /\ pc[w] = "scan"
    /\ cand[w] = {}
    /\ ReleaseLocks(w)
    /\ pc' = [pc EXCEPT ![w] = "idle"]
    /\ cur' = [cur EXCEPT ![w] = NoJob]
    /\ UNCHANGED <<jobVars, cand, token, req, admin, crashes, stops>>

\* A portfolio-wide job needs no source.
LeaseGlobal(w) ==
    /\ pc[w] = "locked"
    /\ Source(cur[w]) = NoSource
    /\ pc' = [pc EXCEPT ![w] = "claim"]
    /\ UNCHANGED <<jobVars, cand, cur, token, lockVars, req, admin, crashes, stops>>

\* The claim on a source is serialized by its row lock; a row locked by another
\* transaction is skipped and the scan continues (the job row stays locked).
LeaseLockSource(w) ==
    /\ pc[w] = "locked"
    /\ Source(cur[w]) # NoSource
    /\ srcLock[Source(cur[w])] \in {Nobody, w}
    /\ srcLock' = [srcLock EXCEPT ![Source(cur[w])] = w]
    /\ pc' = [pc EXCEPT ![w] = "recheck"]
    /\ UNCHANGED <<jobVars, cand, cur, token, held, req, admin, crashes, stops>>

LeaseSkipSource_Waits(w) == FALSE  \* mutant: a locked source row is waited for
LeaseSkipSource(w) ==
    /\ pc[w] = "locked"
    /\ Source(cur[w]) # NoSource
    /\ srcLock[Source(cur[w])] \notin {Nobody, w}
    /\ pc' = [pc EXCEPT ![w] = "scan"]
    /\ UNCHANGED <<jobVars, cand, cur, token, lockVars, req, admin, crashes, stops>>

\* Another claimant may have committed between the busy read and the source lock.
LeaseRecheck_Trusting(w) ==  \* mutant: the busy read before the lock is trusted
    /\ pc[w] = "recheck"
    /\ pc' = [pc EXCEPT ![w] = "claim"]
    /\ UNCHANGED <<jobVars, cand, cur, token, lockVars, req, admin, crashes, stops>>

LeaseRecheck(w) ==
    /\ pc[w] = "recheck"
    /\ pc' = [pc EXCEPT ![w] = IF Source(cur[w]) \in Busy THEN "scan" ELSE "claim"]
    /\ UNCHANGED <<jobVars, cand, cur, token, lockVars, req, admin, crashes, stops>>

\* The attempt number of the new lease, which fences the worker's later updates.
NextAttempt_Same(j) == attempts[j]  \* mutant: attempts are counted elsewhere
NextAttempt(j) == attempts[j] + 1

LeaseCommit(w) ==
    /\ pc[w] = "claim"
    /\ LET j == cur[w] IN
        /\ status' = [status EXCEPT ![j] = "leased"]
        /\ holder' = [holder EXCEPT ![j] = w]
        /\ attempts' = [attempts EXCEPT ![j] = NextAttempt(j)]
        /\ left' = [left EXCEPT ![j] = LeaseTicks]
        /\ token' = [token EXCEPT ![w] = NextAttempt(j)]
    /\ ReleaseLocks(w)
    /\ pc' = [pc EXCEPT ![w] = "running"]
    /\ cand' = [cand EXCEPT ![w] = {}]
    /\ UNCHANGED <<keyOf, due, cur, req, admin, crashes, stops>>

Lease(w) ==
    \/ LeaseOpen(w)
    \/ \E j \in Jobs : LeaseLock(w, j) \/ LeaseSkip(w, j)
    \/ LeaseNone(w)
    \/ LeaseGlobal(w)
    \/ LeaseLockSource(w)
    \/ LeaseSkipSource(w)
    \/ LeaseRecheck(w)
    \/ LeaseCommit(w)

-----------------------------------------------------------------------------
(* run_job: heartbeat while the handler works, then complete or fail.       *)

\* The WHERE clause that fences every write of a worker to its job.
Owns_Unfenced(w) == status[cur[w]] = "leased"  \* mutant: worker and attempt not compared
Owns_AnyStatus(w) == holder[cur[w]] = w /\ attempts[cur[w]] = token[w]  \* mutant: status not compared
Owns(w) ==
    /\ status[cur[w]] = "leased"
    /\ holder[cur[w]] = w
    /\ attempts[cur[w]] = token[w]

\* An update by primary key waits while the row it would change is locked.
CanWrite(w) == Owns(w) => Unlocked(cur[w])

\* The lease is extended, unless it has run out already.
Heartbeat(w) ==
    /\ pc[w] = "running"
    /\ Owns(w)
    /\ CanWrite(w)
    /\ left[cur[w]] > 0
    /\ left' = [left EXCEPT ![cur[w]] = LeaseTicks]
    /\ UNCHANGED <<status, keyOf, attempts, holder, due, workerVars, lockVars, req,
                   admin, crashes, stops>>

\* The worker's thread forgets the job and goes back to its loop.
Return(w) ==
    /\ pc' = [pc EXCEPT ![w] = "idle"]
    /\ cur' = [cur EXCEPT ![w] = NoJob]
    /\ token' = [token EXCEPT ![w] = 0]

\* complete: the update changes the row only while the worker owns it.
Complete(w) ==
    /\ pc[w] = "running"
    /\ CanWrite(w)
    /\ status' = IF Owns(w) THEN [status EXCEPT ![cur[w]] = "done"] ELSE status
    /\ left' = IF Owns(w) THEN [left EXCEPT ![cur[w]] = 0] ELSE left
    /\ Return(w)
    /\ UNCHANGED <<keyOf, attempts, holder, due, cand, lockVars, req, admin, crashes, stops>>

\* Where a failed or interrupted job goes: back to the queue with backoff, or failed.
Exhausted_Late(j, permanent) == permanent \/ attempts[j] > KeyMax[keyOf[j]]  \* mutant: off by one
Exhausted(j, permanent) == permanent \/ attempts[j] >= KeyMax[keyOf[j]]
PutBack(j, permanent) ==
    /\ status' = [status EXCEPT ![j] = IF Exhausted(j, permanent) THEN "failed" ELSE "queued"]
    /\ left' = [left EXCEPT ![j] = 0]
    /\ due' = [due EXCEPT ![j] = FALSE]

\* fail, with permanent for PermanentJobError and for an unknown kind.
Fail(w, permanent) ==
    /\ pc[w] = "running"
    /\ CanWrite(w)
    /\ IF Owns(w) THEN PutBack(cur[w], permanent) ELSE UNCHANGED <<status, left, due>>
    /\ Return(w)
    /\ UNCHANGED <<keyOf, attempts, holder, cand, lockVars, req, admin, crashes, stops>>

\* A worker thread dies, or its database connection does: an open transaction is
\* rolled back, a running job stays leased until its lease runs out.
Crash(w) ==
    /\ pc[w] # "idle"
    /\ crashes < MaxCrashes
    /\ crashes' = crashes + 1
    /\ ReleaseLocks(w)
    /\ Return(w)
    /\ cand' = [cand EXCEPT ![w] = {}]
    /\ UNCHANGED <<jobVars, req, admin, stops>>

\* recover_expired: a job whose lease ran out is requeued or, with no attempts
\* left, failed.  Its update repeats the condition on status, expiry, worker and
\* attempts that selected the row, so reading and updating are one step.
Expired_Retryable(j) ==  \* mutant: a job on its last attempt is not looked at
    status[j] = "leased" /\ left[j] = 0 /\ attempts[j] < KeyMax[keyOf[j]]
Expired(j) == status[j] = "leased" /\ left[j] = 0

RecoverExpired(j) ==
    /\ Expired(j)
    /\ Unlocked(j)
    /\ PutBack(j, FALSE)
    /\ UNCHANGED <<keyOf, attempts, holder, workerVars, lockVars, req, admin, crashes, stops>>

-----------------------------------------------------------------------------
(* Administration of a source                                               *)

\* stop_customer and rotate_external_id first lock the source row ...
AdminLock(s, op) ==
    /\ admin.op = "none"
    /\ stops < MaxStops
    /\ srcLock[s] = Nobody
    /\ srcLock' = [srcLock EXCEPT ![s] = Admin]
    /\ admin' = [op |-> op, source |-> s]
    /\ stops' = stops + 1
    /\ UNCHANGED <<jobVars, workerVars, held, req, crashes>>

JobsOf(s, from) == {j \in Jobs : status[j] \in from /\ Source(j) = s}

\* The rows the operation changes, and what it changes them to: stop_customer fails
\* the active jobs of the source, rotate_external_id deletes the waiting ones.
Doomed == JobsOf(admin.source, IF admin.op = "stop" THEN Active ELSE {"queued"})
DoomedTo == IF admin.op = "stop" THEN "failed" ELSE "deleted"

\* ... then the statement locks the rows it changes one by one, waiting for each,
AdminTake(j) ==
    /\ admin.op # "none"
    /\ j \in Doomed
    /\ Unlocked(j)
    /\ held' = [held EXCEPT ![Admin] = @ \union {j}]
    /\ UNCHANGED <<jobVars, workerVars, srcLock, req, admin, crashes, stops>>

\* and the transaction commits.
AdminCommit ==
    /\ admin.op # "none"
    /\ Doomed \subseteq held[Admin]
    /\ status' = [j \in Jobs |-> IF j \in Doomed THEN DoomedTo ELSE status[j]]
    /\ held' = [held EXCEPT ![Admin] = {}]
    /\ srcLock' = [srcLock EXCEPT ![admin.source] = Nobody]
    /\ admin' = [op |-> "none", source |-> NoSource]
    /\ UNCHANGED <<keyOf, attempts, holder, left, due, workerVars, req, crashes, stops>>

\* set_paused deletes the waiting jobs of a source without locking the source.
PauseSource(s) ==
    /\ JobsOf(s, {"queued"}) # {}
    /\ \A j \in JobsOf(s, {"queued"}) : Unlocked(j)
    /\ stops < MaxStops
    /\ stops' = stops + 1
    /\ status' = [j \in Jobs |-> IF j \in JobsOf(s, {"queued"}) THEN "deleted" ELSE status[j]]
    /\ UNCHANGED <<keyOf, attempts, holder, left, due, workerVars, lockVars, req, admin, crashes>>

-----------------------------------------------------------------------------
(* Time                                                                     *)

Ticking_On(j) == status[j] = "leased"  \* mutant: an expired lease is counted on
Ticking(j) == status[j] = "leased" /\ left[j] > 0

\* Time passes for every lease that has not run out.
Tick ==
    /\ \E j \in Jobs : Ticking(j)
    /\ left' = [j \in Jobs |-> IF Ticking(j) THEN left[j] - 1 ELSE left[j]]
    /\ UNCHANGED <<status, keyOf, attempts, holder, due, workerVars, lockVars, req,
                   admin, crashes, stops>>

\* The run_after of a waiting job is reached.
BecomeDue(j) ==
    /\ status[j] = "queued"
    /\ ~due[j]
    /\ due' = [due EXCEPT ![j] = TRUE]
    /\ UNCHANGED <<status, keyOf, attempts, holder, left, workerVars, lockVars, req,
                   admin, crashes, stops>>

-----------------------------------------------------------------------------
WorkerStep(w) ==
    \/ Lease(w)
    \/ Complete(w)
    \/ \E permanent \in BOOLEAN : Fail(w, permanent)

Next ==
    \/ \E c \in Clients : Enqueue(c)
    \/ \E w \in Workers : WorkerStep(w) \/ Heartbeat(w) \/ Crash(w)
    \/ \E j \in Jobs : RecoverExpired(j) \/ BecomeDue(j)
    \/ \E s \in Sources, op \in {"stop", "rotate"} : AdminLock(s, op)
    \/ \E j \in Jobs : AdminTake(j)
    \/ AdminCommit
    \/ \E s \in Sources : PauseSource(s)
    \/ Tick

Spec == Init /\ [][Next]_vars

\* Threads keep running, the tick of the worker process recovers expired leases and
\* time passes.  An administrator's statement gets the row locks it waits for, which
\* PostgreSQL grants to a waiter once they are released: hence strong fairness.
\* Nothing obliges a client to call, a worker to crash or an administrator to act.
Fairness ==
    /\ \A w \in Workers : WF_vars(WorkerStep(w))
    /\ \A j \in Jobs : WF_vars(RecoverExpired(j)) /\ WF_vars(BecomeDue(j))
    /\ \A j \in Jobs : SF_vars(AdminTake(j))
    /\ WF_vars(AdminCommit)
    /\ WF_vars(Tick)

FairSpec == Spec /\ Fairness

-----------------------------------------------------------------------------
(* Properties                                                               *)

\* Per-source exclusion (jobs.py:82 "Sources with a leased job are skipped"): two
\* jobs of one source are never leased together, however claims interleave.
OneLeasePerSource ==
    \A i, j \in Jobs :
        i # j /\ status[i] = "leased" /\ status[j] = "leased" => ~SameSource(i, j)

\* Coalescing: repeated and concurrent requests for a key never leave two active
\* jobs (jobs.py:67-78 with the unique_active_job_key index).
OneActivePerKey ==
    \A i, j \in Jobs :
        i # j /\ status[i] \in Active /\ status[j] \in Active => keyOf[i] # keyOf[j]

\* Bounded retry: lease increments attempts without comparing it with max_attempts,
\* so a job must never be put back in the queue with its attempts used up.
RetryBudget ==
    \A j \in Jobs :
        /\ status[j] = "queued" => attempts[j] < KeyMax[keyOf[j]]
        /\ attempts[j] <= KeyMax[keyOf[j]]

\* Fencing: when a lease runs out under a slow worker and the job is leased again,
\* the two workers hold different attempt numbers, and only the newest one matches.
FencingToken ==
    \A v, w \in Workers :
        pc[v] = "running" /\ pc[w] = "running" /\ v # w /\ cur[v] = cur[w]
            => token[v] # token[w]

\* A worker takes a job out of the leased state only while it owns it; otherwise the
\* lease has run out or an administrator stopped the source (jobs.py:134, 144, 159).
OwnerDecides ==
    [][\A j \in Jobs :
         status[j] = "leased" /\ status'[j] # "leased" =>
            \/ left[j] = 0
            \/ admin.op = "stop" /\ admin.source = Source(j)
            \/ \E w \in Workers : /\ pc[w] = "running" /\ pc'[w] = "idle"
                                  /\ cur[w] = j /\ holder[j] = w
                                  /\ token[w] = attempts[j]]_vars

\* A late complete, fail or recovery never reopens a job that is done, failed or deleted.
SettledStaysSettled ==
    [][\A j \in Jobs : status[j] \in {"done", "failed", "deleted"} => status'[j] = status[j]]_vars

\* Every accepted job is settled in the end, through crashes, expiries and retries.
EventuallySettled ==
    \A j \in Jobs : status[j] \in Active ~> status[j] \in {"done", "failed", "deleted"}

\* Stopping or rotating a source is not starved by workers that keep polling its jobs.
AdministrationEnds == admin.op # "none" ~> admin.op = "none"

\* enqueue returns a job (jobs.py:49 "Create or coalesce a job. Returns (job,
\* created)."): the read after an IntegrityError finds the job that was in the way.
EnqueueReturnsJob ==
    [][\A c \in Clients :
         req[c].phase = "reread" /\ req'[c].phase = "none" => ActiveWith(req[c].key) # {}]_vars

\* The queue implements the lifecycle it promises.
Lifecycle == INSTANCE JobLifecycle
ImplementsLifecycle == Lifecycle!Spec
=============================================================================
