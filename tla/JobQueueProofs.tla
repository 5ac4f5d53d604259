--------------------------- MODULE JobQueueProofs ---------------------------
(***************************************************************************)
(* Theorems about JobQueue, for every set of jobs, keys, sources, workers  *)
(* and clients and every bound.                                            *)
(***************************************************************************)
EXTENDS JobQueue, TLAPS

-----------------------------------------------------------------------------
(* The inductive invariant                                                  *)

\* A job row is locked by one transaction, and while a lease transaction has it
\* locked it stays queued.
RowLocks ==
    /\ \A p, q \in Workers \union {Admin} : \A j \in held[p] \intersect held[q] : p = q
    /\ \A w \in Workers : \A j \in held[w] : status[j] = "queued"
    /\ \A w \in Workers : pc[w] \notin LeasePhases => held[w] = {}

\* What a lease transaction has established when it reaches a phase.
LeaseProgress ==
    \A w \in Workers :
        /\ pc[w] \in {"locked", "recheck", "claim"} => cur[w] \in held[w]
        /\ pc[w] \in {"recheck", "claim"} /\ Source(cur[w]) # NoSource
               => srcLock[Source(cur[w])] = w
        /\ pc[w] = "claim" =>
               \A i \in Jobs : status[i] = "leased" => ~SameSource(i, cur[w])

\* Attempt numbers grow: a worker's token is never ahead of its job's row.
Tokens ==
    /\ \A j \in Jobs : status[j] = "unused" => attempts[j] = 0
    /\ \A w \in Workers : pc[w] = "running" => cur[w] \in Jobs /\ token[w] <= attempts[cur[w]]

\* An administrative operation has its source row.
AdminHolds ==
    admin.op # "none" => admin.source \in Sources /\ srcLock[admin.source] = Admin

IndInv ==
    /\ TypeOK
    /\ RowLocks
    /\ LeaseProgress
    /\ Tokens
    /\ AdminHolds
    /\ OneLeasePerSource
    /\ OneActivePerKey
    /\ RetryBudget
    /\ FencingToken

-----------------------------------------------------------------------------
(* Type correctness                                                         *)

LEMMA TypeInit == Init => TypeOK
BY ConstantsAssumption DEF Init, TypeOK, Statuses, LeasePhases, HasJob, NoRequest, AnyKey

\* Every step of the queue keeps every variable in its type.
LEMMA TypeNext == TypeOK /\ [Next]_vars => TypeOK'
<1> SUFFICES ASSUME TypeOK, [Next]_vars PROVE TypeOK'
    OBVIOUS
<1>0. 0 \in 0..LeaseTicks /\ LeaseTicks \in 0..LeaseTicks
    BY ConstantsAssumption
<1>1. ASSUME NEW c \in Clients, Enqueue(c) PROVE TypeOK'
  <2> USE ConstantsAssumption DEF TypeOK, Statuses, jobVars, workerVars, lockVars, NoRequest
  <2>0. AnyKey \in Keys
    BY DEF AnyKey
  <2>1. ASSUME NEW k \in Keys, NEW once \in BOOLEAN, NEW now \in BOOLEAN,
               EnqueueCall(c, k, once, now) PROVE TypeOK'
    BY <2>1 DEF EnqueueCall
  <2>2. CASE EnqueueCoalesce(c)
    BY <2>0, <2>2 DEF EnqueueCoalesce, ActiveWith
  <2>3. CASE EnqueueMiss(c)
    BY <2>3 DEF EnqueueMiss
  <2>4. CASE EnqueueInsert(c)
    BY <2>0, <2>4 DEF EnqueueInsert
  <2>5. CASE EnqueueConflict(c)
    BY <2>5 DEF EnqueueConflict
  <2>6. CASE EnqueueReread(c)
    BY <2>0, <2>6 DEF EnqueueReread
  <2> HIDE DEF TypeOK
  <2> QED
    BY <1>1, <2>1, <2>2, <2>3, <2>4, <2>5, <2>6 DEF Enqueue
<1>2. ASSUME NEW w \in Workers, Lease(w) PROVE TypeOK'
  <2> USE ConstantsAssumption DEF TypeOK, LeasePhases, HasJob, jobVars, lockVars
  <2>1. CASE LeaseOpen(w)
    BY <2>1 DEF LeaseOpen
  <2>2. ASSUME NEW j \in Jobs, LeaseLock(w, j) PROVE TypeOK'
    BY <2>2 DEF LeaseLock
  <2>3. ASSUME NEW j \in Jobs, LeaseSkip(w, j) PROVE TypeOK'
    BY <2>3 DEF LeaseSkip
  <2>4. CASE LeaseNone(w)
    BY <2>4 DEF LeaseNone, ReleaseLocks
  <2>5. CASE LeaseGlobal(w)
    BY <2>5 DEF LeaseGlobal
  <2>6. CASE LeaseLockSource(w)
    BY <2>6 DEF LeaseLockSource
  <2>7. CASE LeaseSkipSource(w)
    BY <2>7 DEF LeaseSkipSource
  <2>8. CASE LeaseRecheck(w)
    BY <2>8 DEF LeaseRecheck
  <2>9. CASE LeaseCommit(w)
    <3>0. cur[w] \in Jobs
      BY <2>9 DEF LeaseCommit, HasJob
    <3>1. /\ status' \in [Jobs -> Statuses]
          /\ holder' \in [Jobs -> Workers \union {Nobody}]
          /\ left' \in [Jobs -> 0..LeaseTicks]
      BY <1>0, <2>9 DEF LeaseCommit, Statuses
    <3>2. attempts' \in [Jobs -> Nat] /\ token' \in [Workers -> Nat]
      BY <2>9, <3>0 DEF LeaseCommit, NextAttempt
    <3>3. /\ held' \in [Workers \union {Admin} -> SUBSET Jobs]
          /\ srcLock' \in [Sources -> Workers \union {Admin, Nobody}]
          /\ pc' \in [Workers -> LeasePhases \union {"idle", "running"}]
          /\ cand' \in [Workers -> SUBSET Jobs]
      BY <2>9 DEF LeaseCommit, ReleaseLocks
    <3>4. \A v \in Workers : pc'[v] \in HasJob => cur'[v] \in Jobs
      BY <2>9, <3>0 DEF LeaseCommit
    <3> QED
      BY <2>9, <3>1, <3>2, <3>3, <3>4 DEF LeaseCommit
  <2> HIDE DEF TypeOK
  <2> QED
    BY <1>2, <2>1, <2>2, <2>3, <2>4, <2>5, <2>6, <2>7, <2>8, <2>9 DEF Lease
<1>3. ASSUME NEW w \in Workers, Heartbeat(w) PROVE TypeOK'
  <2>1. left' \in [Jobs -> 0..LeaseTicks]
    BY <1>0, <1>3 DEF TypeOK, Heartbeat
  <2> QED
    BY <1>3, <2>1 DEF TypeOK, Heartbeat, workerVars, lockVars
<1>4. ASSUME NEW w \in Workers, Return(w), TypeOK
      PROVE  /\ pc' \in [Workers -> LeasePhases \union {"idle", "running"}]
             /\ cur' \in [Workers -> Jobs \union {NoJob}]
             /\ token' \in [Workers -> Nat]
             /\ \A v \in Workers : pc'[v] \in HasJob => cur'[v] \in Jobs
    BY <1>4 DEF TypeOK, Return, HasJob
<1>5. ASSUME NEW w \in Workers, Complete(w) PROVE TypeOK'
  <2>1. /\ status' \in [Jobs -> Statuses]
        /\ left' \in [Jobs -> 0..LeaseTicks]
    BY <1>0, <1>5 DEF TypeOK, Complete, Statuses
  <2> QED
    BY <1>4, <1>5, <2>1 DEF TypeOK, Complete, lockVars
<1>6. ASSUME NEW w \in Workers, NEW p \in BOOLEAN, Fail(w, p) PROVE TypeOK'
  <2>1. CASE Owns(w)
    <3>1. /\ status' \in [Jobs -> Statuses]
          /\ left' \in [Jobs -> 0..LeaseTicks]
          /\ due' \in [Jobs -> BOOLEAN]
      BY <1>0, <1>6, <2>1, ZenonT(60) DEF TypeOK, Fail, PutBack, Statuses
    <3> QED
      BY <1>4, <1>6, <3>1 DEF TypeOK, Fail, lockVars
  <2>2. CASE ~Owns(w)
    BY <1>4, <1>6, <2>2 DEF TypeOK, Fail, lockVars
  <2> QED
    BY <2>1, <2>2
<1>6a. ASSUME NEW w \in Workers, Crash(w) PROVE TypeOK'
    BY <1>4, <1>6a, ConstantsAssumption, SMTT(60) DEF TypeOK, Crash, ReleaseLocks, jobVars
<1>7. ASSUME NEW j \in Jobs, RecoverExpired(j) PROVE TypeOK'
    BY <1>7, ConstantsAssumption DEF TypeOK, RecoverExpired, PutBack, workerVars, lockVars, Statuses
<1>8. ASSUME NEW j \in Jobs, BecomeDue(j) PROVE TypeOK'
    BY <1>8, ConstantsAssumption DEF TypeOK, BecomeDue, workerVars, lockVars
<1>9. ASSUME NEW s \in Sources, NEW op \in {"stop", "rotate"}, AdminLock(s, op) PROVE TypeOK'
    BY <1>9, ConstantsAssumption DEF TypeOK, AdminLock, jobVars, workerVars
<1>10. ASSUME NEW j \in Jobs, AdminTake(j) PROVE TypeOK'
    BY <1>10 DEF TypeOK, AdminTake, jobVars, workerVars
<1>11. CASE AdminCommit
    BY <1>11 DEF TypeOK, AdminCommit, DoomedTo, Statuses, workerVars
<1>12. ASSUME NEW s \in Sources, PauseSource(s) PROVE TypeOK'
    BY <1>12, ConstantsAssumption DEF TypeOK, PauseSource, Statuses, workerVars, lockVars
<1>13. CASE Tick
    BY <1>13, ConstantsAssumption DEF TypeOK, Tick, Ticking, workerVars, lockVars
<1>14. CASE UNCHANGED vars
    BY <1>14 DEF TypeOK, vars, jobVars, workerVars, lockVars
<1> QED
    BY <1>1, <1>2, <1>3, <1>4, <1>5, <1>6, <1>7, <1>8, <1>9, <1>10, <1>11, <1>12, <1>13, <1>14,
       <1>6a
    DEF Next, WorkerStep

\* Every variable of the queue keeps its type.
THEOREM TypeCorrect == Spec => []TypeOK
<1>1. Init => TypeOK
    BY TypeInit
<1>2. TypeOK /\ [Next]_vars => TypeOK'
    BY TypeNext
<1> QED
    BY <1>1, <1>2, PTL DEF Spec

-----------------------------------------------------------------------------
\* Locked rows stay queued and stay with their transaction.
LEMMA RowLocksNext == IndInv /\ [Next]_vars => RowLocks'
<1> SUFFICES ASSUME IndInv, [Next]_vars PROVE RowLocks'
    OBVIOUS
<1> USE ConstantsAssumption DEF IndInv, TypeOK, RowLocks
<1>1. ASSUME NEW c \in Clients, Enqueue(c) PROVE RowLocks'
    BY <1>1 DEF Enqueue, EnqueueCall, EnqueueCoalesce, EnqueueMiss, EnqueueInsert,
        EnqueueConflict, EnqueueReread, ActiveWith, jobVars, workerVars, lockVars
<1>2. ASSUME NEW w \in Workers, Lease(w) PROVE RowLocks'
  <2> USE DEF jobVars, lockVars, LeasePhases
  <2>1. CASE LeaseOpen(w)
      BY <2>1 DEF LeaseOpen
  <2>2. ASSUME NEW j \in Jobs, LeaseLock(w, j) PROVE RowLocks'
      BY <2>2 DEF LeaseLock, Unlocked, Runnable
  <2>3. ASSUME NEW j \in Jobs, LeaseSkip(w, j) PROVE RowLocks'
      BY <2>3 DEF LeaseSkip
  <2>4. CASE LeaseNone(w)
      BY <2>4 DEF LeaseNone, ReleaseLocks
  <2>5. CASE LeaseGlobal(w)
      BY <2>5 DEF LeaseGlobal
  <2>6. CASE LeaseLockSource(w)
      BY <2>6 DEF LeaseLockSource
  <2>7. CASE LeaseSkipSource(w)
      BY <2>7 DEF LeaseSkipSource
  <2>8. CASE LeaseRecheck(w)
      BY <2>8 DEF LeaseRecheck
  <2>9. CASE LeaseCommit(w)
      BY <2>9 DEF LeaseCommit, ReleaseLocks, NextAttempt, HasJob, LeaseProgress
  <2> HIDE DEF RowLocks
  <2> QED
    BY <1>2, <2>1, <2>2, <2>3, <2>4, <2>5, <2>6, <2>7, <2>8, <2>9 DEF Lease
<1>3. ASSUME NEW w \in Workers, Heartbeat(w) PROVE RowLocks'
    BY <1>3 DEF Heartbeat, workerVars, lockVars
<1>4. ASSUME NEW w \in Workers, Complete(w) PROVE RowLocks'
    BY <1>4 DEF Complete, Return, Owns, lockVars, LeasePhases
<1>5. ASSUME NEW w \in Workers, NEW p \in BOOLEAN, Fail(w, p) PROVE RowLocks'
    BY <1>5 DEF Fail, PutBack, Return, Owns, lockVars, LeasePhases
<1>6. ASSUME NEW w \in Workers, Crash(w) PROVE RowLocks'
    BY <1>6 DEF Crash, Return, ReleaseLocks, jobVars
<1>7. ASSUME NEW j \in Jobs, RecoverExpired(j) PROVE RowLocks'
    BY <1>7 DEF RecoverExpired, Expired, PutBack, workerVars, lockVars
<1>8. ASSUME NEW j \in Jobs, BecomeDue(j) PROVE RowLocks'
    BY <1>8 DEF BecomeDue, workerVars, lockVars
<1>9. ASSUME NEW s \in Sources, NEW op \in {"stop", "rotate"}, AdminLock(s, op) PROVE RowLocks'
    BY <1>9 DEF AdminLock, jobVars, workerVars
<1>10. ASSUME NEW j \in Jobs, AdminTake(j) PROVE RowLocks'
    BY <1>10 DEF AdminTake, Unlocked, jobVars, workerVars
<1>11. CASE AdminCommit
    BY <1>11 DEF AdminCommit, DoomedTo, workerVars
<1>12. ASSUME NEW s \in Sources, PauseSource(s) PROVE RowLocks'
    BY <1>12 DEF PauseSource, JobsOf, Unlocked, workerVars, lockVars
<1>13. CASE Tick
    BY <1>13 DEF Tick, workerVars, lockVars
<1>14. CASE UNCHANGED vars
    BY <1>14 DEF vars, jobVars, workerVars, lockVars
<1> HIDE DEF RowLocks
<1> QED
    BY <1>1, <1>2, <1>3, <1>4, <1>5, <1>6, <1>7, <1>8, <1>9, <1>10, <1>11, <1>12, <1>13, <1>14
    DEF Next, WorkerStep

\* What a lease transaction has established is not undone by another transaction.
LEMMA LeaseProgressNext == IndInv /\ [Next]_vars => LeaseProgress'
<1> SUFFICES ASSUME IndInv, [Next]_vars PROVE LeaseProgress'
    OBVIOUS
<1> USE ConstantsAssumption DEF IndInv, TypeOK, RowLocks, LeaseProgress, Source, SameSource
<1>1. ASSUME NEW c \in Clients, Enqueue(c) PROVE LeaseProgress'
  <2>1. \A v \in Workers : pc[v] \in {"locked", "recheck", "claim"} =>
            cur[v] \in Jobs /\ status[cur[v]] = "queued"
    BY DEF HasJob
  <2>2. \A j \in Jobs : status[j] # "unused" => keyOf'[j] = keyOf[j]
    BY <1>1 DEF Enqueue, EnqueueCall, EnqueueCoalesce, EnqueueMiss, EnqueueInsert,
        EnqueueConflict, EnqueueReread, jobVars
  <2>3. \A j \in Jobs : status'[j] = "leased" => status[j] = "leased"
    BY <1>1 DEF Enqueue, EnqueueCall, EnqueueCoalesce, EnqueueMiss, EnqueueInsert,
        EnqueueConflict, EnqueueReread, jobVars
  <2>4. UNCHANGED <<pc, cur, held, srcLock>>
    BY <1>1 DEF Enqueue, EnqueueCall, EnqueueCoalesce, EnqueueMiss, EnqueueInsert,
        EnqueueConflict, EnqueueReread, workerVars, lockVars
  <2>5. ASSUME NEW v \in Workers, pc[v] \in {"locked", "recheck", "claim"}
        PROVE  /\ cur'[v] = cur[v] /\ cur'[v] \in held'[v]
               /\ keyOf'[cur'[v]] = keyOf[cur[v]]
    BY <2>1, <2>2, <2>4, <2>5
  <2>6. ASSUME NEW v \in Workers, pc[v] \in {"recheck", "claim"}, KeySource[keyOf'[cur'[v]]] # NoSource
        PROVE  srcLock'[KeySource[keyOf'[cur'[v]]]] = v
    BY <2>4, <2>5, <2>6
  <2>7. ASSUME NEW v \in Workers, pc[v] = "claim", NEW i \in Jobs, status'[i] = "leased"
        PROVE  ~(KeySource[keyOf'[i]] # NoSource /\ KeySource[keyOf'[i]] = KeySource[keyOf'[cur'[v]]])
    <3>1. status[i] = "leased" /\ keyOf'[i] = keyOf[i]
      BY <2>2, <2>3, <2>7
    <3>2. keyOf'[cur'[v]] = keyOf[cur[v]]
      BY <2>5, <2>7
    <3> QED
      BY <2>7, <3>1, <3>2
  <2>8. pc' = pc
    BY <2>4
  <2> QED
    BY <2>5, <2>6, <2>7, <2>8
<1>2. ASSUME NEW w \in Workers, Lease(w) PROVE LeaseProgress'
  <2> USE DEF jobVars, lockVars, LeasePhases
  <2>1. CASE LeaseOpen(w)
      BY <2>1 DEF LeaseOpen
  <2>2. ASSUME NEW j \in Jobs, LeaseLock(w, j) PROVE LeaseProgress'
      BY <2>2 DEF LeaseLock, Unlocked, Runnable
  <2>3. ASSUME NEW j \in Jobs, LeaseSkip(w, j) PROVE LeaseProgress'
      BY <2>3 DEF LeaseSkip
  <2>4. CASE LeaseNone(w)
      BY <2>4 DEF LeaseNone, ReleaseLocks
  <2>5. CASE LeaseGlobal(w)
      BY <2>5 DEF LeaseGlobal
  <2>6. CASE LeaseLockSource(w)
      BY <2>6 DEF LeaseLockSource
  <2>7. CASE LeaseSkipSource(w)
      BY <2>7 DEF LeaseSkipSource
  <2>8. CASE LeaseRecheck(w)
      BY <2>8 DEF LeaseRecheck, Busy
  <2>9. CASE LeaseCommit(w)
      BY <2>9 DEF LeaseCommit, ReleaseLocks, NextAttempt, HasJob
  <2> HIDE DEF LeaseProgress
  <2> QED
    BY <1>2, <2>1, <2>2, <2>3, <2>4, <2>5, <2>6, <2>7, <2>8, <2>9 DEF Lease
<1>3. ASSUME NEW w \in Workers, Heartbeat(w) PROVE LeaseProgress'
    BY <1>3 DEF Heartbeat, workerVars, lockVars
<1>4. ASSUME NEW w \in Workers, Complete(w) PROVE LeaseProgress'
    BY <1>4 DEF Complete, Return, Owns, lockVars, HasJob
<1>5. ASSUME NEW w \in Workers, NEW p \in BOOLEAN, Fail(w, p) PROVE LeaseProgress'
    BY <1>5 DEF Fail, PutBack, Return, Owns, lockVars
<1>6. ASSUME NEW w \in Workers, Crash(w) PROVE LeaseProgress'
    BY <1>6 DEF Crash, Return, ReleaseLocks, jobVars
<1>7. ASSUME NEW j \in Jobs, RecoverExpired(j) PROVE LeaseProgress'
    BY <1>7 DEF RecoverExpired, Expired, PutBack, workerVars, lockVars
<1>8. ASSUME NEW j \in Jobs, BecomeDue(j) PROVE LeaseProgress'
    BY <1>8 DEF BecomeDue, workerVars, lockVars
<1>9. ASSUME NEW s \in Sources, NEW op \in {"stop", "rotate"}, AdminLock(s, op) PROVE LeaseProgress'
    BY <1>9 DEF AdminLock, jobVars, workerVars
<1>10. ASSUME NEW j \in Jobs, AdminTake(j) PROVE LeaseProgress'
    BY <1>10 DEF AdminTake, Unlocked, jobVars, workerVars
<1>11. CASE AdminCommit
    BY <1>11 DEF AdminCommit, DoomedTo, workerVars, AdminHolds
<1>12. ASSUME NEW s \in Sources, PauseSource(s) PROVE LeaseProgress'
    BY <1>12 DEF PauseSource, JobsOf, Unlocked, workerVars, lockVars
<1>13. CASE Tick
    BY <1>13 DEF Tick, workerVars, lockVars
<1>14. CASE UNCHANGED vars
    BY <1>14 DEF vars, jobVars, workerVars, lockVars
<1> HIDE DEF LeaseProgress
<1> QED
    BY <1>1, <1>2, <1>3, <1>4, <1>5, <1>6, <1>7, <1>8, <1>9, <1>10, <1>11, <1>12, <1>13, <1>14
    DEF Next, WorkerStep

\* The administrator keeps the source row until its transaction commits.
LEMMA AdminHoldsNext == IndInv /\ [Next]_vars => AdminHolds'
<1> SUFFICES ASSUME IndInv, [Next]_vars PROVE AdminHolds'
    OBVIOUS
<1> USE ConstantsAssumption DEF IndInv, TypeOK, AdminHolds
<1>1. ASSUME NEW c \in Clients, Enqueue(c) PROVE AdminHolds'
    BY <1>1 DEF Enqueue, EnqueueCall, EnqueueCoalesce, EnqueueMiss, EnqueueInsert,
        EnqueueConflict, EnqueueReread, ActiveWith, jobVars, workerVars, lockVars
<1>2. ASSUME NEW w \in Workers, Lease(w) PROVE AdminHolds'
  <2> USE DEF jobVars, lockVars, LeasePhases
  <2>1. CASE LeaseOpen(w)
      BY <2>1 DEF LeaseOpen
  <2>2. ASSUME NEW j \in Jobs, LeaseLock(w, j) PROVE AdminHolds'
      BY <2>2 DEF LeaseLock, Unlocked, Runnable
  <2>3. ASSUME NEW j \in Jobs, LeaseSkip(w, j) PROVE AdminHolds'
      BY <2>3 DEF LeaseSkip
  <2>4. CASE LeaseNone(w)
      BY <2>4 DEF LeaseNone, ReleaseLocks
  <2>5. CASE LeaseGlobal(w)
      BY <2>5 DEF LeaseGlobal
  <2>6. CASE LeaseLockSource(w)
      BY <2>6 DEF LeaseLockSource
  <2>7. CASE LeaseSkipSource(w)
      BY <2>7 DEF LeaseSkipSource
  <2>8. CASE LeaseRecheck(w)
      BY <2>8 DEF LeaseRecheck
  <2>9. CASE LeaseCommit(w)
      BY <2>9 DEF LeaseCommit, ReleaseLocks, NextAttempt, HasJob
  <2> HIDE DEF AdminHolds
  <2> QED
    BY <1>2, <2>1, <2>2, <2>3, <2>4, <2>5, <2>6, <2>7, <2>8, <2>9 DEF Lease
<1>3. ASSUME NEW w \in Workers, Heartbeat(w) PROVE AdminHolds'
    BY <1>3 DEF Heartbeat, workerVars, lockVars
<1>4. ASSUME NEW w \in Workers, Complete(w) PROVE AdminHolds'
    BY <1>4 DEF Complete, Return, Owns, lockVars
<1>5. ASSUME NEW w \in Workers, NEW p \in BOOLEAN, Fail(w, p) PROVE AdminHolds'
    BY <1>5 DEF Fail, PutBack, Return, Owns, lockVars
<1>6. ASSUME NEW w \in Workers, Crash(w) PROVE AdminHolds'
    BY <1>6 DEF Crash, Return, ReleaseLocks, jobVars
<1>7. ASSUME NEW j \in Jobs, RecoverExpired(j) PROVE AdminHolds'
    BY <1>7 DEF RecoverExpired, Expired, PutBack, workerVars, lockVars
<1>8. ASSUME NEW j \in Jobs, BecomeDue(j) PROVE AdminHolds'
    BY <1>8 DEF BecomeDue, workerVars, lockVars
<1>9. ASSUME NEW s \in Sources, NEW op \in {"stop", "rotate"}, AdminLock(s, op) PROVE AdminHolds'
    BY <1>9 DEF AdminLock, jobVars, workerVars
<1>10. ASSUME NEW j \in Jobs, AdminTake(j) PROVE AdminHolds'
    BY <1>10 DEF AdminTake, Unlocked, jobVars, workerVars
<1>11. CASE AdminCommit
    BY <1>11 DEF AdminCommit, DoomedTo, workerVars
<1>12. ASSUME NEW s \in Sources, PauseSource(s) PROVE AdminHolds'
    BY <1>12 DEF PauseSource, JobsOf, Unlocked, workerVars, lockVars
<1>13. CASE Tick
    BY <1>13 DEF Tick, workerVars, lockVars
<1>14. CASE UNCHANGED vars
    BY <1>14 DEF vars, jobVars, workerVars, lockVars
<1> HIDE DEF AdminHolds
<1> QED
    BY <1>1, <1>2, <1>3, <1>4, <1>5, <1>6, <1>7, <1>8, <1>9, <1>10, <1>11, <1>12, <1>13, <1>14
    DEF Next, WorkerStep

\* Attempt numbers in the table never fall behind those in the workers' hands.
LEMMA TokensNext == IndInv /\ [Next]_vars => Tokens'
<1> SUFFICES ASSUME IndInv, [Next]_vars PROVE Tokens'
    OBVIOUS
<1> USE ConstantsAssumption DEF IndInv, TypeOK, RowLocks, Tokens
<1>1. ASSUME NEW c \in Clients, Enqueue(c) PROVE Tokens'
    BY <1>1 DEF Enqueue, EnqueueCall, EnqueueCoalesce, EnqueueMiss, EnqueueInsert,
        EnqueueConflict, EnqueueReread, ActiveWith, jobVars, workerVars, lockVars
<1>2. ASSUME NEW w \in Workers, Lease(w) PROVE Tokens'
  <2> USE DEF jobVars, lockVars, LeasePhases
  <2>1. CASE LeaseOpen(w)
      BY <2>1 DEF LeaseOpen
  <2>2. ASSUME NEW j \in Jobs, LeaseLock(w, j) PROVE Tokens'
      BY <2>2 DEF LeaseLock, Unlocked, Runnable
  <2>3. ASSUME NEW j \in Jobs, LeaseSkip(w, j) PROVE Tokens'
      BY <2>3 DEF LeaseSkip
  <2>4. CASE LeaseNone(w)
      BY <2>4 DEF LeaseNone, ReleaseLocks
  <2>5. CASE LeaseGlobal(w)
      BY <2>5 DEF LeaseGlobal
  <2>6. CASE LeaseLockSource(w)
      BY <2>6 DEF LeaseLockSource
  <2>7. CASE LeaseSkipSource(w)
      BY <2>7 DEF LeaseSkipSource
  <2>8. CASE LeaseRecheck(w)
      BY <2>8 DEF LeaseRecheck
  <2>9. CASE LeaseCommit(w)
      BY <2>9 DEF LeaseCommit, ReleaseLocks, NextAttempt, HasJob, LeaseProgress
  <2> HIDE DEF Tokens
  <2> QED
    BY <1>2, <2>1, <2>2, <2>3, <2>4, <2>5, <2>6, <2>7, <2>8, <2>9 DEF Lease
<1>3. ASSUME NEW w \in Workers, Heartbeat(w) PROVE Tokens'
    BY <1>3 DEF Heartbeat, workerVars, lockVars
<1>4. ASSUME NEW w \in Workers, Complete(w) PROVE Tokens'
    BY <1>4 DEF Complete, Return, Owns, lockVars
<1>5. ASSUME NEW w \in Workers, NEW p \in BOOLEAN, Fail(w, p) PROVE Tokens'
    BY <1>5 DEF Fail, PutBack, Return, Owns, lockVars
<1>6. ASSUME NEW w \in Workers, Crash(w) PROVE Tokens'
    BY <1>6 DEF Crash, Return, ReleaseLocks, jobVars
<1>7. ASSUME NEW j \in Jobs, RecoverExpired(j) PROVE Tokens'
    BY <1>7 DEF RecoverExpired, Expired, PutBack, workerVars, lockVars
<1>8. ASSUME NEW j \in Jobs, BecomeDue(j) PROVE Tokens'
    BY <1>8 DEF BecomeDue, workerVars, lockVars
<1>9. ASSUME NEW s \in Sources, NEW op \in {"stop", "rotate"}, AdminLock(s, op) PROVE Tokens'
    BY <1>9 DEF AdminLock, jobVars, workerVars
<1>10. ASSUME NEW j \in Jobs, AdminTake(j) PROVE Tokens'
    BY <1>10 DEF AdminTake, Unlocked, jobVars, workerVars
<1>11. CASE AdminCommit
    BY <1>11 DEF AdminCommit, DoomedTo, workerVars
<1>12. ASSUME NEW s \in Sources, PauseSource(s) PROVE Tokens'
    BY <1>12 DEF PauseSource, JobsOf, Unlocked, workerVars, lockVars
<1>13. CASE Tick
    BY <1>13 DEF Tick, workerVars, lockVars
<1>14. CASE UNCHANGED vars
    BY <1>14 DEF vars, jobVars, workerVars, lockVars
<1> HIDE DEF Tokens
<1> QED
    BY <1>1, <1>2, <1>3, <1>4, <1>5, <1>6, <1>7, <1>8, <1>9, <1>10, <1>11, <1>12, <1>13, <1>14
    DEF Next, WorkerStep

\* A claim keeps exclusion: the source row was locked and no job of it is leased.
LEMMA OneLeasePerSourceNext == IndInv /\ [Next]_vars => OneLeasePerSource'
<1> SUFFICES ASSUME IndInv, [Next]_vars PROVE OneLeasePerSource'
    OBVIOUS
<1> USE ConstantsAssumption DEF IndInv, TypeOK, OneLeasePerSource, SameSource, Source
<1>1. ASSUME NEW c \in Clients, Enqueue(c) PROVE OneLeasePerSource'
    BY <1>1 DEF Enqueue, EnqueueCall, EnqueueCoalesce, EnqueueMiss, EnqueueInsert,
        EnqueueConflict, EnqueueReread, ActiveWith, jobVars, workerVars, lockVars
<1>2. ASSUME NEW w \in Workers, Lease(w) PROVE OneLeasePerSource'
  <2> USE DEF jobVars, lockVars, LeasePhases
  <2>1. CASE LeaseOpen(w)
      BY <2>1 DEF LeaseOpen
  <2>2. ASSUME NEW j \in Jobs, LeaseLock(w, j) PROVE OneLeasePerSource'
      BY <2>2 DEF LeaseLock, Unlocked, Runnable
  <2>3. ASSUME NEW j \in Jobs, LeaseSkip(w, j) PROVE OneLeasePerSource'
      BY <2>3 DEF LeaseSkip
  <2>4. CASE LeaseNone(w)
      BY <2>4 DEF LeaseNone, ReleaseLocks
  <2>5. CASE LeaseGlobal(w)
      BY <2>5 DEF LeaseGlobal
  <2>6. CASE LeaseLockSource(w)
      BY <2>6 DEF LeaseLockSource
  <2>7. CASE LeaseSkipSource(w)
      BY <2>7 DEF LeaseSkipSource
  <2>8. CASE LeaseRecheck(w)
      BY <2>8 DEF LeaseRecheck
  <2>9. CASE LeaseCommit(w)
      BY <2>9 DEF LeaseCommit, ReleaseLocks, NextAttempt, HasJob, LeaseProgress, RowLocks
  <2> HIDE DEF OneLeasePerSource
  <2> QED
    BY <1>2, <2>1, <2>2, <2>3, <2>4, <2>5, <2>6, <2>7, <2>8, <2>9 DEF Lease
<1>3. ASSUME NEW w \in Workers, Heartbeat(w) PROVE OneLeasePerSource'
    BY <1>3 DEF Heartbeat, workerVars, lockVars
<1>4. ASSUME NEW w \in Workers, Complete(w) PROVE OneLeasePerSource'
    BY <1>4 DEF Complete, Return, Owns, lockVars
<1>5. ASSUME NEW w \in Workers, NEW p \in BOOLEAN, Fail(w, p) PROVE OneLeasePerSource'
    BY <1>5 DEF Fail, PutBack, Return, Owns, lockVars
<1>6. ASSUME NEW w \in Workers, Crash(w) PROVE OneLeasePerSource'
    BY <1>6 DEF Crash, Return, ReleaseLocks, jobVars
<1>7. ASSUME NEW j \in Jobs, RecoverExpired(j) PROVE OneLeasePerSource'
    BY <1>7 DEF RecoverExpired, Expired, PutBack, workerVars, lockVars
<1>8. ASSUME NEW j \in Jobs, BecomeDue(j) PROVE OneLeasePerSource'
    BY <1>8 DEF BecomeDue, workerVars, lockVars
<1>9. ASSUME NEW s \in Sources, NEW op \in {"stop", "rotate"}, AdminLock(s, op) PROVE OneLeasePerSource'
    BY <1>9 DEF AdminLock, jobVars, workerVars
<1>10. ASSUME NEW j \in Jobs, AdminTake(j) PROVE OneLeasePerSource'
    BY <1>10 DEF AdminTake, Unlocked, jobVars, workerVars
<1>11. CASE AdminCommit
    BY <1>11 DEF AdminCommit, DoomedTo, workerVars
<1>12. ASSUME NEW s \in Sources, PauseSource(s) PROVE OneLeasePerSource'
    BY <1>12 DEF PauseSource, JobsOf, Unlocked, workerVars, lockVars
<1>13. CASE Tick
    BY <1>13 DEF Tick, workerVars, lockVars
<1>14. CASE UNCHANGED vars
    BY <1>14 DEF vars, jobVars, workerVars, lockVars
<1> HIDE DEF OneLeasePerSource
<1> QED
    BY <1>1, <1>2, <1>3, <1>4, <1>5, <1>6, <1>7, <1>8, <1>9, <1>10, <1>11, <1>12, <1>13, <1>14
    DEF Next, WorkerStep

\* Only an insertion activates a job, and the unique index admits it.
LEMMA OneActivePerKeyNext == IndInv /\ [Next]_vars => OneActivePerKey'
<1> SUFFICES ASSUME IndInv, [Next]_vars PROVE OneActivePerKey'
    OBVIOUS
<1> USE ConstantsAssumption DEF IndInv, TypeOK, OneActivePerKey, Active
<1>1. ASSUME NEW c \in Clients, Enqueue(c) PROVE OneActivePerKey'
    BY <1>1 DEF Enqueue, EnqueueCall, EnqueueCoalesce, EnqueueMiss, EnqueueInsert,
        EnqueueConflict, EnqueueReread, ActiveWith, jobVars, workerVars, lockVars, UniqueActiveKey
<1>2. ASSUME NEW w \in Workers, Lease(w) PROVE OneActivePerKey'
  <2> USE DEF jobVars, lockVars, LeasePhases
  <2>1. CASE LeaseOpen(w)
      BY <2>1 DEF LeaseOpen
  <2>2. ASSUME NEW j \in Jobs, LeaseLock(w, j) PROVE OneActivePerKey'
      BY <2>2 DEF LeaseLock, Unlocked, Runnable
  <2>3. ASSUME NEW j \in Jobs, LeaseSkip(w, j) PROVE OneActivePerKey'
      BY <2>3 DEF LeaseSkip
  <2>4. CASE LeaseNone(w)
      BY <2>4 DEF LeaseNone, ReleaseLocks
  <2>5. CASE LeaseGlobal(w)
      BY <2>5 DEF LeaseGlobal
  <2>6. CASE LeaseLockSource(w)
      BY <2>6 DEF LeaseLockSource
  <2>7. CASE LeaseSkipSource(w)
      BY <2>7 DEF LeaseSkipSource
  <2>8. CASE LeaseRecheck(w)
      BY <2>8 DEF LeaseRecheck
  <2>9. CASE LeaseCommit(w)
      BY <2>9 DEF LeaseCommit, ReleaseLocks, NextAttempt, HasJob, LeaseProgress, RowLocks
  <2> HIDE DEF OneActivePerKey
  <2> QED
    BY <1>2, <2>1, <2>2, <2>3, <2>4, <2>5, <2>6, <2>7, <2>8, <2>9 DEF Lease
<1>3. ASSUME NEW w \in Workers, Heartbeat(w) PROVE OneActivePerKey'
    BY <1>3 DEF Heartbeat, workerVars, lockVars
<1>4. ASSUME NEW w \in Workers, Complete(w) PROVE OneActivePerKey'
    BY <1>4 DEF Complete, Return, Owns, lockVars
<1>5. ASSUME NEW w \in Workers, NEW p \in BOOLEAN, Fail(w, p) PROVE OneActivePerKey'
    BY <1>5 DEF Fail, PutBack, Return, Owns, lockVars
<1>6. ASSUME NEW w \in Workers, Crash(w) PROVE OneActivePerKey'
    BY <1>6 DEF Crash, Return, ReleaseLocks, jobVars
<1>7. ASSUME NEW j \in Jobs, RecoverExpired(j) PROVE OneActivePerKey'
    BY <1>7, ZenonT(60) DEF RecoverExpired, Expired, PutBack, workerVars, lockVars
<1>8. ASSUME NEW j \in Jobs, BecomeDue(j) PROVE OneActivePerKey'
    BY <1>8 DEF BecomeDue, workerVars, lockVars
<1>9. ASSUME NEW s \in Sources, NEW op \in {"stop", "rotate"}, AdminLock(s, op) PROVE OneActivePerKey'
    BY <1>9 DEF AdminLock, jobVars, workerVars
<1>10. ASSUME NEW j \in Jobs, AdminTake(j) PROVE OneActivePerKey'
    BY <1>10 DEF AdminTake, Unlocked, jobVars, workerVars
<1>11. CASE AdminCommit
    BY <1>11 DEF AdminCommit, DoomedTo, workerVars
<1>12. ASSUME NEW s \in Sources, PauseSource(s) PROVE OneActivePerKey'
    BY <1>12 DEF PauseSource, JobsOf, Unlocked, workerVars, lockVars
<1>13. CASE Tick
    BY <1>13 DEF Tick, workerVars, lockVars
<1>14. CASE UNCHANGED vars
    BY <1>14 DEF vars, jobVars, workerVars, lockVars
<1> HIDE DEF OneActivePerKey
<1> QED
    BY <1>1, <1>2, <1>3, <1>4, <1>5, <1>6, <1>7, <1>8, <1>9, <1>10, <1>11, <1>12, <1>13, <1>14
    DEF Next, WorkerStep

\* A job goes back to the queue only with attempts left.
LEMMA RetryBudgetNext == IndInv /\ [Next]_vars => RetryBudget'
<1> SUFFICES ASSUME IndInv, [Next]_vars PROVE RetryBudget'
    OBVIOUS
<1> USE ConstantsAssumption DEF IndInv, TypeOK, RetryBudget
<1>1. ASSUME NEW c \in Clients, Enqueue(c) PROVE RetryBudget'
    BY <1>1 DEF Enqueue, EnqueueCall, EnqueueCoalesce, EnqueueMiss, EnqueueInsert,
        EnqueueConflict, EnqueueReread, ActiveWith, jobVars, workerVars, lockVars, Tokens
<1>2. ASSUME NEW w \in Workers, Lease(w) PROVE RetryBudget'
  <2> USE DEF jobVars, lockVars, LeasePhases
  <2>1. CASE LeaseOpen(w)
      BY <2>1 DEF LeaseOpen
  <2>2. ASSUME NEW j \in Jobs, LeaseLock(w, j) PROVE RetryBudget'
      BY <2>2 DEF LeaseLock, Unlocked, Runnable
  <2>3. ASSUME NEW j \in Jobs, LeaseSkip(w, j) PROVE RetryBudget'
      BY <2>3 DEF LeaseSkip
  <2>4. CASE LeaseNone(w)
      BY <2>4 DEF LeaseNone, ReleaseLocks
  <2>5. CASE LeaseGlobal(w)
      BY <2>5 DEF LeaseGlobal
  <2>6. CASE LeaseLockSource(w)
      BY <2>6 DEF LeaseLockSource
  <2>7. CASE LeaseSkipSource(w)
      BY <2>7 DEF LeaseSkipSource
  <2>8. CASE LeaseRecheck(w)
      BY <2>8 DEF LeaseRecheck
  <2>9. CASE LeaseCommit(w)
      BY <2>9 DEF LeaseCommit, ReleaseLocks, NextAttempt, HasJob, LeaseProgress, RowLocks
  <2> HIDE DEF RetryBudget
  <2> QED
    BY <1>2, <2>1, <2>2, <2>3, <2>4, <2>5, <2>6, <2>7, <2>8, <2>9 DEF Lease
<1>3. ASSUME NEW w \in Workers, Heartbeat(w) PROVE RetryBudget'
    BY <1>3 DEF Heartbeat, workerVars, lockVars
<1>4. ASSUME NEW w \in Workers, Complete(w) PROVE RetryBudget'
    BY <1>4 DEF Complete, Return, Owns, lockVars
<1>5. ASSUME NEW w \in Workers, NEW p \in BOOLEAN, Fail(w, p) PROVE RetryBudget'
    BY <1>5 DEF Fail, PutBack, Return, Owns, lockVars, Exhausted
<1>6. ASSUME NEW w \in Workers, Crash(w) PROVE RetryBudget'
    BY <1>6 DEF Crash, Return, ReleaseLocks, jobVars
<1>7. ASSUME NEW j \in Jobs, RecoverExpired(j) PROVE RetryBudget'
    BY <1>7 DEF RecoverExpired, Expired, PutBack, workerVars, lockVars, Exhausted
<1>8. ASSUME NEW j \in Jobs, BecomeDue(j) PROVE RetryBudget'
    BY <1>8 DEF BecomeDue, workerVars, lockVars
<1>9. ASSUME NEW s \in Sources, NEW op \in {"stop", "rotate"}, AdminLock(s, op) PROVE RetryBudget'
    BY <1>9 DEF AdminLock, jobVars, workerVars
<1>10. ASSUME NEW j \in Jobs, AdminTake(j) PROVE RetryBudget'
    BY <1>10 DEF AdminTake, Unlocked, jobVars, workerVars
<1>11. CASE AdminCommit
    BY <1>11 DEF AdminCommit, DoomedTo, workerVars
<1>12. ASSUME NEW s \in Sources, PauseSource(s) PROVE RetryBudget'
    BY <1>12 DEF PauseSource, JobsOf, Unlocked, workerVars, lockVars
<1>13. CASE Tick
    BY <1>13 DEF Tick, workerVars, lockVars
<1>14. CASE UNCHANGED vars
    BY <1>14 DEF vars, jobVars, workerVars, lockVars
<1> HIDE DEF RetryBudget
<1> QED
    BY <1>1, <1>2, <1>3, <1>4, <1>5, <1>6, <1>7, <1>8, <1>9, <1>10, <1>11, <1>12, <1>13, <1>14
    DEF Next, WorkerStep

\* A new lease has an attempt number no other worker holds for the job.
LEMMA FencingTokenNext == IndInv /\ [Next]_vars => FencingToken'
<1> SUFFICES ASSUME IndInv, [Next]_vars PROVE FencingToken'
    OBVIOUS
<1> USE ConstantsAssumption DEF IndInv, TypeOK, FencingToken, Tokens
<1>1. ASSUME NEW c \in Clients, Enqueue(c) PROVE FencingToken'
    BY <1>1 DEF Enqueue, EnqueueCall, EnqueueCoalesce, EnqueueMiss, EnqueueInsert,
        EnqueueConflict, EnqueueReread, ActiveWith, jobVars, workerVars, lockVars
<1>2. ASSUME NEW w \in Workers, Lease(w) PROVE FencingToken'
  <2> USE DEF jobVars, lockVars, LeasePhases
  <2>1. CASE LeaseOpen(w)
      BY <2>1 DEF LeaseOpen
  <2>2. ASSUME NEW j \in Jobs, LeaseLock(w, j) PROVE FencingToken'
      BY <2>2 DEF LeaseLock, Unlocked, Runnable
  <2>3. ASSUME NEW j \in Jobs, LeaseSkip(w, j) PROVE FencingToken'
      BY <2>3 DEF LeaseSkip
  <2>4. CASE LeaseNone(w)
      BY <2>4 DEF LeaseNone, ReleaseLocks
  <2>5. CASE LeaseGlobal(w)
      BY <2>5 DEF LeaseGlobal
  <2>6. CASE LeaseLockSource(w)
      BY <2>6 DEF LeaseLockSource
  <2>7. CASE LeaseSkipSource(w)
      BY <2>7 DEF LeaseSkipSource
  <2>8. CASE LeaseRecheck(w)
      BY <2>8 DEF LeaseRecheck
  <2>9. CASE LeaseCommit(w)
      BY <2>9 DEF LeaseCommit, ReleaseLocks, NextAttempt, HasJob
  <2> HIDE DEF FencingToken
  <2> QED
    BY <1>2, <2>1, <2>2, <2>3, <2>4, <2>5, <2>6, <2>7, <2>8, <2>9 DEF Lease
<1>3. ASSUME NEW w \in Workers, Heartbeat(w) PROVE FencingToken'
    BY <1>3 DEF Heartbeat, workerVars, lockVars
<1>4. ASSUME NEW w \in Workers, Complete(w) PROVE FencingToken'
    BY <1>4 DEF Complete, Return, Owns, lockVars
<1>5. ASSUME NEW w \in Workers, NEW p \in BOOLEAN, Fail(w, p) PROVE FencingToken'
    BY <1>5 DEF Fail, PutBack, Return, Owns, lockVars
<1>6. ASSUME NEW w \in Workers, Crash(w) PROVE FencingToken'
    BY <1>6 DEF Crash, Return, ReleaseLocks, jobVars
<1>7. ASSUME NEW j \in Jobs, RecoverExpired(j) PROVE FencingToken'
    BY <1>7 DEF RecoverExpired, Expired, PutBack, workerVars, lockVars
<1>8. ASSUME NEW j \in Jobs, BecomeDue(j) PROVE FencingToken'
    BY <1>8 DEF BecomeDue, workerVars, lockVars
<1>9. ASSUME NEW s \in Sources, NEW op \in {"stop", "rotate"}, AdminLock(s, op) PROVE FencingToken'
    BY <1>9 DEF AdminLock, jobVars, workerVars
<1>10. ASSUME NEW j \in Jobs, AdminTake(j) PROVE FencingToken'
    BY <1>10 DEF AdminTake, Unlocked, jobVars, workerVars
<1>11. CASE AdminCommit
    BY <1>11 DEF AdminCommit, DoomedTo, workerVars
<1>12. ASSUME NEW s \in Sources, PauseSource(s) PROVE FencingToken'
    BY <1>12 DEF PauseSource, JobsOf, Unlocked, workerVars, lockVars
<1>13. CASE Tick
    BY <1>13 DEF Tick, workerVars, lockVars
<1>14. CASE UNCHANGED vars
    BY <1>14 DEF vars, jobVars, workerVars, lockVars
<1> HIDE DEF FencingToken
<1> QED
    BY <1>1, <1>2, <1>3, <1>4, <1>5, <1>6, <1>7, <1>8, <1>9, <1>10, <1>11, <1>12, <1>13, <1>14
    DEF Next, WorkerStep

-----------------------------------------------------------------------------
(* The theorems                                                             *)

LEMMA InvInit == Init => IndInv
<1> SUFFICES ASSUME Init PROVE IndInv
    OBVIOUS
<1>1. TypeOK
    BY TypeInit
<1>2. RowLocks /\ LeaseProgress /\ Tokens /\ AdminHolds
    BY DEF Init, RowLocks, LeaseProgress, Tokens, AdminHolds, LeasePhases
<1>3. OneLeasePerSource /\ OneActivePerKey /\ FencingToken
    BY DEF Init, OneLeasePerSource, OneActivePerKey, FencingToken, Active
<1>4. RetryBudget
    BY <1>1, ConstantsAssumption DEF Init, RetryBudget, TypeOK
<1> QED
    BY <1>1, <1>2, <1>3, <1>4 DEF IndInv

LEMMA InvNext == IndInv /\ [Next]_vars => IndInv'
<1> SUFFICES ASSUME IndInv, [Next]_vars PROVE IndInv'
    OBVIOUS
<1>1. TypeOK'
    BY TypeNext DEF IndInv
<1> QED
    BY <1>1, RowLocksNext, LeaseProgressNext, AdminHoldsNext, TokensNext,
       OneLeasePerSourceNext, OneActivePerKeyNext, RetryBudgetNext, FencingTokenNext
    DEF IndInv

LEMMA Invariance == Spec => []IndInv
<1>1. Init => IndInv
    BY InvInit
<1>2. IndInv /\ [Next]_vars => IndInv'
    BY InvNext
<1> QED
    BY <1>1, <1>2, PTL DEF Spec

\* Two jobs of one source are never leased together (jobs.py:81-115).
THEOREM PerSourceExclusion == Spec => []OneLeasePerSource
<1>1. IndInv => OneLeasePerSource
    BY DEF IndInv
<1> QED
    BY <1>1, Invariance, PTL

\* Concurrent requests leave one active job per key (jobs.py:48-78).
THEOREM Coalescing == Spec => []OneActivePerKey
<1>1. IndInv => OneActivePerKey
    BY DEF IndInv
<1> QED
    BY <1>1, Invariance, PTL

\* A job is attempted at most max_attempts times, although lease does not compare
\* (jobs.py:111, 142, 158).
THEOREM BoundedRetry == Spec => []RetryBudget
<1>1. IndInv => RetryBudget
    BY DEF IndInv
<1> QED
    BY <1>1, Invariance, PTL

\* Two workers that believe they run the same job hold different attempt numbers.
THEOREM Fencing == Spec => []FencingToken
<1>1. IndInv => FencingToken
    BY DEF IndInv
<1> QED
    BY <1>1, Invariance, PTL

\* No late completion, failure, recovery or withdrawal touches a settled job.
THEOREM SettledIsFinal == Spec => SettledStaysSettled
<1>1. IndInv /\ [Next]_vars =>
        [\A j \in Jobs : status[j] \in {"done", "failed", "deleted"} => status'[j] = status[j]]_vars
  <2> SUFFICES ASSUME IndInv, Next, NEW j \in Jobs, status[j] \in {"done", "failed", "deleted"}
               PROVE  status'[j] = status[j]
    BY DEF vars
  <2> USE DEF IndInv, TypeOK
  <2>1. ASSUME NEW c \in Clients, Enqueue(c) PROVE status'[j] = status[j]
    BY <2>1 DEF Enqueue, EnqueueCall, EnqueueCoalesce, EnqueueMiss, EnqueueInsert,
        EnqueueConflict, EnqueueReread, jobVars
  <2>2. ASSUME NEW w \in Workers, Lease(w) PROVE status'[j] = status[j]
    BY <2>2 DEF Lease, LeaseOpen, LeaseLock, LeaseSkip, LeaseNone, LeaseGlobal, LeaseLockSource,
        LeaseSkipSource, LeaseRecheck, LeaseCommit, LeaseProgress, RowLocks, HasJob, jobVars
  <2>3. ASSUME NEW w \in Workers, Complete(w) \/ (\E p \in BOOLEAN : Fail(w, p))
        PROVE  status'[j] = status[j]
    BY <2>3 DEF Complete, Fail, PutBack, Owns
  <2>4. ASSUME NEW w \in Workers, Heartbeat(w) \/ Crash(w) PROVE status'[j] = status[j]
    BY <2>4 DEF Heartbeat, Crash, jobVars
  <2>5. ASSUME NEW i \in Jobs, RecoverExpired(i) \/ BecomeDue(i) \/ AdminTake(i)
        PROVE  status'[j] = status[j]
    BY <2>5 DEF RecoverExpired, Expired, PutBack, BecomeDue, AdminTake, jobVars
  <2>6. ASSUME NEW s \in Sources, PauseSource(s) \/ (\E op \in {"stop", "rotate"} : AdminLock(s, op))
        PROVE  status'[j] = status[j]
    BY <2>6 DEF PauseSource, JobsOf, AdminLock, jobVars
  <2>7. CASE AdminCommit \/ Tick
    BY <2>7 DEF AdminCommit, Doomed, JobsOf, Active, Tick
  <2> QED
    BY <2>1, <2>2, <2>3, <2>4, <2>5, <2>6, <2>7 DEF Next, WorkerStep
<1> QED
  <2>1. Spec => [][Next]_vars
    BY PTL DEF Spec
  <2> QED
    BY <1>1, <2>1, Invariance, PTL DEF SettledStaysSettled

\* Only its owner, an expired lease or a stopped source ends a lease.
THEOREM OwnershipRespected == Spec => OwnerDecides
<1> DEFINE Justified(j) ==
        \/ left[j] = 0
        \/ admin.op = "stop" /\ admin.source = Source(j)
        \/ \E w \in Workers : /\ pc[w] = "running" /\ pc'[w] = "idle"
                              /\ cur[w] = j /\ holder[j] = w
                              /\ token[w] = attempts[j]
<1>1. IndInv /\ [Next]_vars =>
        [\A j \in Jobs : status[j] = "leased" /\ status'[j] # "leased" => Justified(j)]_vars
  <2> SUFFICES ASSUME IndInv, Next, NEW j \in Jobs, status[j] = "leased", status'[j] # "leased"
               PROVE  Justified(j)
    BY DEF vars
  <2> USE DEF IndInv, TypeOK
  <2>1. ASSUME NEW c \in Clients PROVE ~Enqueue(c)
    BY DEF Enqueue, EnqueueCall, EnqueueCoalesce, EnqueueMiss, EnqueueInsert,
        EnqueueConflict, EnqueueReread, jobVars
  <2>2. ASSUME NEW w \in Workers PROVE ~Lease(w)
    BY DEF Lease, LeaseOpen, LeaseLock, LeaseSkip, LeaseNone, LeaseGlobal, LeaseLockSource,
        LeaseSkipSource, LeaseRecheck, LeaseCommit, jobVars
  <2>3. ASSUME NEW w \in Workers, Complete(w) \/ (\E p \in BOOLEAN : Fail(w, p))
        PROVE  Justified(j)
    BY <2>3 DEF Complete, Fail, PutBack, Return, Owns
  <2>4. ASSUME NEW w \in Workers PROVE ~Heartbeat(w) /\ ~Crash(w)
    BY DEF Heartbeat, Crash, jobVars
  <2>5. ASSUME NEW i \in Jobs, RecoverExpired(i) \/ BecomeDue(i) \/ AdminTake(i)
        PROVE  Justified(j)
    BY <2>5 DEF RecoverExpired, Expired, PutBack, BecomeDue, AdminTake, jobVars
  <2>6. ASSUME NEW s \in Sources
        PROVE  ~PauseSource(s) /\ \A op \in {"stop", "rotate"} : ~AdminLock(s, op)
    BY DEF PauseSource, JobsOf, AdminLock, jobVars
  <2>7. CASE AdminCommit
    BY <2>7 DEF AdminCommit, Doomed, JobsOf
  <2>8. ~Tick
    BY DEF Tick
  <2> QED
    BY <2>1, <2>2, <2>3, <2>4, <2>5, <2>6, <2>7, <2>8 DEF Next, WorkerStep
<1> QED
  <2>1. Spec => [][Next]_vars
    BY PTL DEF Spec
  <2> QED
    BY <1>1, <2>1, Invariance, PTL DEF OwnerDecides

-----------------------------------------------------------------------------
(* Refinement                                                               *)

\* Every step of the queue is a step of the lifecycle it promises, or leaves the
\* lifecycle's variables alone.
LEMMA LifecycleStep == IndInv /\ [Next]_vars => [Lifecycle!Next]_(Lifecycle!vars)
<1> SUFFICES ASSUME IndInv, [Next]_vars,
                    ~ UNCHANGED <<status, keyOf, attempts>>
             PROVE  Lifecycle!Next
    BY DEF Lifecycle!vars
<1> USE DEF IndInv, TypeOK, jobVars, Lifecycle!Source, Lifecycle!SameSource, Lifecycle!Active
<1>1. ASSUME NEW c \in Clients, Enqueue(c) PROVE Lifecycle!Next
  <2>1. EnqueueInsert(c)
    BY <1>1 DEF Enqueue, EnqueueCall, EnqueueCoalesce, EnqueueMiss, EnqueueConflict,
        EnqueueReread
  <2>2. PICK j \in Jobs : /\ status[j] = "unused"
                          /\ status' = [status EXCEPT ![j] = "queued"]
                          /\ keyOf' = [keyOf EXCEPT ![j] = req[c].key]
    BY <2>1 DEF EnqueueInsert
  <2>3. req[c].key \in Keys
    OBVIOUS
  <2>4. Lifecycle!Create(j, req[c].key)
    BY <2>1, <2>2 DEF EnqueueInsert, UniqueActiveKey, ActiveWith, Active, Lifecycle!Create
  <2> QED
    BY <2>3, <2>4 DEF Lifecycle!Next
<1>2. ASSUME NEW w \in Workers, Lease(w) PROVE Lifecycle!Next
  <2>1. LeaseCommit(w)
    BY <1>2 DEF Lease, LeaseOpen, LeaseLock, LeaseSkip, LeaseNone, LeaseGlobal,
        LeaseLockSource, LeaseSkipSource, LeaseRecheck
  <2>2. cur[w] \in Jobs /\ status[cur[w]] = "queued"
    BY <2>1 DEF LeaseCommit, LeaseProgress, RowLocks, HasJob
  <2>3. \A i \in Jobs : status[i] = "leased" => ~SameSource(i, cur[w])
    BY <2>1 DEF LeaseCommit, LeaseProgress
  <2>4. Lifecycle!Claim(cur[w])
    BY <2>1, <2>2, <2>3 DEF LeaseCommit, NextAttempt, RetryBudget, SameSource, Source,
        Lifecycle!Claim
  <2> QED
    BY <2>2, <2>4 DEF Lifecycle!Next
<1>3. ASSUME NEW w \in Workers, Complete(w) PROVE Lifecycle!Next
  <2>1. Owns(w) /\ cur[w] \in Jobs
    BY <1>3 DEF Complete, HasJob
  <2>2. Lifecycle!Release(cur[w], "done")
    BY <1>3, <2>1 DEF Complete, Owns, Lifecycle!Release
  <2> QED
    BY <2>1, <2>2 DEF Lifecycle!Next
<1>4. ASSUME NEW j \in Jobs, NEW p \in BOOLEAN, status[j] = "leased", PutBack(j, p),
             UNCHANGED <<keyOf, attempts>>
      PROVE  Lifecycle!Next
  <2>1. PICK o \in {"queued", "failed"} :
           o = IF Exhausted(j, p) THEN "failed" ELSE "queued"
    OBVIOUS
  <2>2. o = "queued" => attempts[j] < KeyMax[keyOf[j]]
    BY <2>1, ConstantsAssumption DEF Exhausted
  <2>3. Lifecycle!Release(j, o)
    BY <1>4, <2>1, <2>2 DEF PutBack, Lifecycle!Release
  <2> QED
    BY <2>3 DEF Lifecycle!Next
<1>5. ASSUME NEW w \in Workers, NEW p \in BOOLEAN, Fail(w, p) PROVE Lifecycle!Next
  <2>1. Owns(w) /\ cur[w] \in Jobs
    BY <1>5 DEF Fail, HasJob
  <2> QED
    BY <1>4, <1>5, <2>1 DEF Fail, Owns
<1>6. ASSUME NEW j \in Jobs, RecoverExpired(j) PROVE Lifecycle!Next
    BY <1>4, <1>6 DEF RecoverExpired, Expired
<1>7. CASE AdminCommit
  <2>1. admin.source \in Sources /\ admin.op \in {"stop", "rotate"}
    BY <1>7 DEF AdminCommit, AdminHolds
  <2>2. CASE admin.op = "stop"
    BY <1>7, <2>1, <2>2 DEF AdminCommit, Doomed, DoomedTo, JobsOf, Source, Active,
        Lifecycle!Withdraw, Lifecycle!Next
  <2>3. CASE admin.op = "rotate"
    BY <1>7, <2>1, <2>3 DEF AdminCommit, Doomed, DoomedTo, JobsOf, Source,
        Lifecycle!Withdraw, Lifecycle!Next
  <2> QED
    BY <2>1, <2>2, <2>3
<1>8. ASSUME NEW s \in Sources, PauseSource(s) PROVE Lifecycle!Next
    BY <1>8 DEF PauseSource, JobsOf, Source, Lifecycle!Withdraw, Lifecycle!Next
<1>9. ASSUME NEW w \in Workers PROVE ~Heartbeat(w) /\ ~Crash(w)
    BY DEF Heartbeat, Crash
<1>10. ASSUME NEW j \in Jobs PROVE ~BecomeDue(j) /\ ~AdminTake(j)
    BY DEF BecomeDue, AdminTake
<1>11. ASSUME NEW s \in Sources, NEW op \in {"stop", "rotate"} PROVE ~AdminLock(s, op)
    BY DEF AdminLock
<1>12. ~Tick /\ ~UNCHANGED vars
    BY DEF Tick, vars
<1> QED
    BY <1>1, <1>2, <1>3, <1>5, <1>6, <1>7, <1>8, <1>9, <1>10, <1>11, <1>12 DEF Next, WorkerStep

\* The queue of jobs.py implements the abstract job lifecycle.
THEOREM Refinement == Spec => ImplementsLifecycle
<1>1. Init => Lifecycle!Init
  <2> SUFFICES ASSUME Init PROVE Lifecycle!Init
    OBVIOUS
  <2>1. TypeOK
    BY TypeInit
  <2> QED
    BY <2>1 DEF Init, TypeOK, Lifecycle!Init
<1>2. IndInv /\ [Next]_vars => [Lifecycle!Next]_(Lifecycle!vars)
    BY LifecycleStep
<1> QED
    BY <1>1, <1>2, Invariance, PTL DEF Spec, ImplementsLifecycle, Lifecycle!Spec
=============================================================================
