-------------------------- MODULE CollectionProofs --------------------------
(***************************************************************************)
(* Theorems about Collection, for every window of months, every set of     *)
(* jobs and workers and every bound.                                       *)
(***************************************************************************)
EXTENDS Collection, TLAPS

-----------------------------------------------------------------------------
(* The inductive invariant                                                  *)

\* The administrator who stops or rotates the source has its row.
AdminHolds == admin \in {"stop", "rotate"} => srcLock = Admin

\* The queue keeps to one leased job of the source.
OneLeased == \A i, j \in Jobs : status[i] = "leased" /\ status[j] = "leased" => i = j

\* A worker in a fenced transaction has its job row locked and still owns it; before
\* it commits it has the source row too, which is as the worker found it.
Fenced ==
    \A w \in Workers :
        /\ pc[w] \in {"source", "commit"} => Current(w) /\ jobLock[cur[w]] = w
        /\ pc[w] = "commit" => srcLock = w /\ enabled /\ approved /\ version = seen[w]

Publishing(w) == pc[w] \in {"fence", "source", "commit"} /\ goal[w] = "publish"

\* What a worker fetched is not newer than AWS's answer; while the worker owns its
\* job nobody publishes behind its back, so that what it fetched is not older than
\* the rows and the revision it read is the row's.
UpToDate ==
    /\ \A m \in Months : costs[m] <= usage[m]
    /\ \A w \in Workers : pc[w] = "read" \/ Publishing(w) =>
            /\ fetched[w] <= usage[month[w]]
            /\ Current(w) => costs[month[w]] <= fetched[w]
    /\ \A w \in Workers : Publishing(w) /\ Current(w) => base[w] = revision[month[w]]

PublishedFor(m, v) == revision[m] > 0 /\ provenance[m] >= v

\* Versions only grow, and a worker has seen the one its job was enqueued for.
Versions ==
    /\ \A m \in Months : provenance[m] <= version
    /\ \A j \in Jobs : jobVersion[j] <= version
    /\ \A w \in Workers : pc[w] # "idle" => status[cur[w]] # "unused"
    /\ \A w \in Workers : pc[w] \notin {"idle", "load"} => seen[w] = jobVersion[cur[w]]

\* Months are added to a job's progress, and to the worker's copy, after their costs
\* are published.
Progress ==
    /\ \A j \in Jobs : status[j] = "unused" => completed[j] = {}
    /\ \A j \in Jobs : \A m \in completed[j] : PublishedFor(m, jobVersion[j])
    /\ \A w \in Workers : pc[w] # "idle" =>
            \A m \in done[w] : PublishedFor(m, jobVersion[cur[w]])
    /\ \A w \in Workers : pc[w] = "save" => PublishedFor(month[w], jobVersion[cur[w]])

\* A run that will declare the initial import done collects the whole window.
Covered ==
    /\ \A w \in Workers : pc[w] \notin {"idle", "load"} => imported \/ todo[w] = Months
    /\ \A w \in Workers : pc[w] \in {"fence", "source", "commit"} /\ goal[w] = "final"
            => todo[w] \subseteq done[w]

IndInv ==
    /\ TypeOK
    /\ AdminHolds
    /\ OneLeased
    /\ Fenced
    /\ UpToDate
    /\ Versions
    /\ Progress
    /\ Covered
    /\ ImportedMeansAll

-----------------------------------------------------------------------------
(* Type correctness                                                         *)

\* The initial state is well typed.
LEMMA TypeInit == Init => TypeOK
<1> SUFFICES ASSUME Init PROVE TypeOK
  OBVIOUS
<1>1. /\ 0 \in 0..MaxEdits /\ 0 \in 0..MaxAttempts /\ 0 \in 0..LeaseTicks
      /\ 0 \in 0..MaxUsage /\ 0 \in 0..MaxCrashes /\ 0 < MaxAttempts
  BY ConstantsAssumption
<1>2. /\ version \in 0..MaxEdits /\ enabled \in BOOLEAN
      /\ imported \in BOOLEAN /\ approved \in BOOLEAN
      /\ status \in [Jobs -> Statuses]
      /\ attempts \in [Jobs -> 0..MaxAttempts]
      /\ \A j \in Jobs : status[j] \in {"unused", "queued"} => attempts[j] < MaxAttempts
      /\ holder \in [Jobs -> Workers \union {Nobody}]
      /\ left \in [Jobs -> 0..LeaseTicks]
      /\ completed \in [Jobs -> SUBSET Months]
      /\ jobVersion \in [Jobs -> 0..MaxEdits]
      /\ span \in [Jobs -> SUBSET Months]
  BY <1>1 DEF Init, Statuses
<1>3. /\ coverage \in [Months -> {"pending", "complete", "failed", "partial"}]
      /\ revision \in [Months -> Nat]
      /\ costs \in [Months -> 0..MaxUsage]
      /\ provenance \in [Months -> 0..MaxEdits]
      /\ usage \in [Months -> 0..MaxUsage]
      /\ jobLock \in [Jobs -> Owners] /\ srcLock \in Owners
  BY <1>1 DEF Init, Owners
<1>4. /\ pc \in [Workers -> Phases]
      /\ goal \in [Workers -> Goals]
      /\ cur \in [Workers -> Jobs \union {NoJob}]
      /\ token \in [Workers -> 0..MaxAttempts]
      /\ seen \in [Workers -> 0..MaxEdits]
      /\ todo \in [Workers -> SUBSET Months]
      /\ done \in [Workers -> SUBSET Months]
      /\ month \in [Workers -> Months \union {0}]
      /\ fetched \in [Workers -> 0..MaxUsage]
      /\ base \in [Workers -> Nat]
      /\ wasComplete \in [Workers -> BOOLEAN]
      /\ \A w \in Workers : (pc[w] # "idle" => cur[w] \in Jobs) /\ (HasMonth(w) => month[w] # 0)
  BY <1>1 DEF Init, Phases, Goals, HasMonth
<1>5. /\ admin \in {"none", "stop", "rotate", "pause"}
      /\ crashes \in 0..MaxCrashes
      /\ edits \in 0..MaxEdits
      /\ version + (IF admin \in {"stop", "rotate"} THEN 1 ELSE 0) <= edits
  BY <1>1 DEF Init
<1> QED
  BY <1>2, <1>3, <1>4, <1>5 DEF TypeOK

\* A job put back waits for another attempt only while it has attempts left.
LEMMA PutBackEffect ==
    ASSUME TypeOK, NEW j \in Jobs, NEW permanent \in BOOLEAN, PutBack(j, permanent)
    PROVE  /\ status' \in [Jobs -> Statuses] /\ left' \in [Jobs -> 0..LeaseTicks]
           /\ status'[j] \in {"failed", "queued"}
           /\ \A i \in Jobs \ {j} : status'[i] = status[i] /\ left'[i] = left[i]
           /\ \A i \in Jobs : status'[i] \in {"unused", "queued"} => attempts[i] < MaxAttempts
<1>1. status' \in [Jobs -> Statuses] /\ left' \in [Jobs -> 0..LeaseTicks]
  BY ConstantsAssumption DEF TypeOK, PutBack, Statuses
<1>2. \A i \in Jobs \ {j} : status'[i] = status[i] /\ left'[i] = left[i]
  BY DEF TypeOK, PutBack
<1>3. status'[j] = IF permanent \/ attempts[j] >= MaxAttempts THEN "failed" ELSE "queued"
  BY DEF TypeOK, PutBack
<1>4. attempts[j] \in Nat
  BY ConstantsAssumption DEF TypeOK
<1>5. status'[j] # "failed" => attempts[j] < MaxAttempts
  BY <1>3, <1>4, ConstantsAssumption
<1> QED
  BY <1>1, <1>2, <1>3, <1>5 DEF TypeOK

\* A worker that goes for a transaction changes only where it is.
LEMMA AimEffect ==
    ASSUME TypeOK, NEW w \in Workers, NEW what \in Goals, Aim(w, what)
    PROVE  /\ pc' \in [Workers -> Phases] /\ goal' \in [Workers -> Goals]
           /\ pc'[w] = "fence" /\ goal'[w] = what
           /\ \A v \in Workers \ {w} : pc'[v] = pc[v] /\ goal'[v] = goal[v]
BY DEF TypeOK, Aim, Goto, Phases

\* A transaction that raised leaves the worker with the next failure to record.
LEMMA UnwindEffect ==
    ASSUME TypeOK, NEW w \in Workers, Unwind(w)
    PROVE  /\ pc' \in [Workers -> Phases] /\ goal' \in [Workers -> Goals]
           /\ \/ pc'[w] = "fence" /\ goal'[w] \in {"failMonth", "failRun"}
              \/ pc'[w] = "fail"
           /\ pc'[w] = "fence" /\ goal'[w] = "failMonth" => goal[w] = "publish"
           /\ \A v \in Workers \ {w} : pc'[v] = pc[v] /\ goal'[v] = goal[v]
<1>1. CASE goal[w] = "failRun"
  BY <1>1 DEF TypeOK, Unwind, Goto, Phases
<1>2. CASE goal[w] = "publish"
  BY <1>2, ZenonT(60) DEF TypeOK, Unwind, Aim, Goto, Phases, Goals
<1>3. CASE goal[w] \notin {"publish", "failRun"}
  BY <1>3, ZenonT(60) DEF TypeOK, Unwind, Aim, Goto, Phases, Goals
<1> QED
  BY <1>1, <1>2, <1>3

\* A worker that returns to its loop keeps nothing of the run.
LEMMA ReturnEffect ==
    ASSUME TypeOK, NEW w \in Workers, Return(w)
    PROVE  /\ pc' \in [Workers -> Phases] /\ goal' \in [Workers -> Goals]
           /\ cur' \in [Workers -> Jobs \union {NoJob}]
           /\ token' \in [Workers -> 0..MaxAttempts]
           /\ seen' \in [Workers -> 0..MaxEdits]
           /\ todo' \in [Workers -> SUBSET Months]
           /\ done' \in [Workers -> SUBSET Months]
           /\ month' \in [Workers -> Months \union {0}]
           /\ fetched' \in [Workers -> 0..MaxUsage]
           /\ base' \in [Workers -> Nat]
           /\ wasComplete' \in [Workers -> BOOLEAN]
           /\ \A v \in Workers : (pc'[v] # "idle" => cur'[v] \in Jobs) /\ (HasMonth(v)' => month'[v] # 0)
BY ConstantsAssumption DEF TypeOK, Return, Goto, HasMonth, Phases, Goals

\* Every step keeps every variable in its type.
LEMMA TypeNext == TypeOK /\ [Next]_vars => TypeOK'
<1> SUFFICES ASSUME TypeOK, [Next]_vars PROVE TypeOK'
    OBVIOUS
<1> USE ConstantsAssumption DEF TypeOK, HasMonth, Statuses, Goals, Phases, Owners, rowVars, sourceVars, jobVars, periodVars, lockVars, localVars, keptVars, boundVars, Goto
<1>1. ASSUME NEW j \in Jobs, NEW months \in {Latest, Months}, Enqueue(j, months) PROVE TypeOK'
    BY <1>1 DEF Enqueue, Ready
<1>2. ASSUME NEW j \in Jobs, Extend(j) PROVE TypeOK'
    BY <1>2 DEF Extend, Ready, Free
<1>3. ASSUME NEW j \in Jobs, RecoverExpired(j) PROVE TypeOK'
    BY <1>3 DEF RecoverExpired, PutBack, Free
<1>4. ASSUME NEW j \in Jobs, AdminTake(j) PROVE TypeOK'
    BY <1>4 DEF AdminTake, Free, Doomed
<1>5. ASSUME NEW w \in Workers, NEW j \in Jobs, Lease(w, j) PROVE TypeOK'
    BY <1>5 DEF Lease, Free
<1>6. ASSUME NEW w \in Workers, Collect(w) PROVE TypeOK'
  <2>1. CASE LoadRefused(w)
    <3>0. /\ pc' \in [Workers -> Phases] /\ goal' \in [Workers -> Goals]
          /\ cur' \in [Workers -> Jobs \union {NoJob}]
          /\ token' \in [Workers -> 0..MaxAttempts]
          /\ seen' \in [Workers -> 0..MaxEdits]
          /\ todo' \in [Workers -> SUBSET Months]
          /\ done' \in [Workers -> SUBSET Months]
          /\ month' \in [Workers -> Months \union {0}]
          /\ fetched' \in [Workers -> 0..MaxUsage]
          /\ base' \in [Workers -> Nat]
          /\ wasComplete' \in [Workers -> BOOLEAN]
          /\ \A v \in Workers : (pc'[v] # "idle" => cur'[v] \in Jobs) /\ (HasMonth(v)' => month'[v] # 0)
      BY <2>1, ReturnEffect DEF LoadRefused
    <3>1. CASE Owns(w)
      <4>0. cur[w] \in Jobs /\ attempts[cur[w]] \in 0..MaxAttempts
        BY <2>1 DEF LoadRefused
      <4>1. /\ status' \in [Jobs -> Statuses] /\ left' \in [Jobs -> 0..LeaseTicks]
            /\ \A j \in Jobs : status'[j] \in {"unused", "queued"} => attempts[j] < MaxAttempts
        <5>1. PutBack(cur[w], TRUE)
          BY <2>1, <3>1 DEF LoadRefused
        <5> QED
          BY <4>0, <5>1, PutBackEffect
      <4>2. completed' \in [Jobs -> SUBSET Months]
        BY <2>1, <3>1, <4>0 DEF LoadRefused, Reached
      <4> QED
        BY <2>1, <3>0, <3>1, <4>1, <4>2 DEF LoadRefused
    <3>2. CASE ~Owns(w)
      BY <2>1, <3>0, <3>2 DEF LoadRefused
    <3> QED
      BY <3>1, <3>2
  <2>2. CASE Load(w)
      BY <2>2 DEF Load, Window, Refused
  <2>3. ASSUME NEW m \in Months, PickMonth(w, m) PROVE TypeOK'
      BY <2>3 DEF PickMonth, Pending
  <2>4. CASE PickNone(w)
      BY <2>4 DEF PickNone, Pending, Aim
  <2>5. CASE Request(w)
    <3>1. CASE Live(w)
      <4>1. left' \in [Jobs -> 0..LeaseTicks] /\ cur[w] \in Jobs
        BY <2>5, <3>1 DEF Request, Renew
      <4> QED
        BY <2>5, <3>1, <4>1 DEF Request
    <3>2. CASE ~Live(w)
      <4>1. Aim(w, "failMonth")
        BY <2>5, <3>2 DEF Request
      <4> QED
        BY <2>5, <3>2, <4>1, AimEffect DEF Request
    <3> QED
      BY <3>1, <3>2
  <2>6. CASE Response(w)
    <3>0. month[w] \in Months /\ cur[w] \in Jobs
      BY <2>6 DEF Response
    <3>1. CASE Live(w)
      <4>1. left' \in [Jobs -> 0..LeaseTicks]
        BY <2>6, <3>0, <3>1 DEF Response, Renew
      <4>2. fetched' \in [Workers -> 0..MaxUsage]
        <5>1. fetched' = [fetched EXCEPT ![w] = usage[month[w]]]
          BY <2>6, <3>1 DEF Response
        <5> QED
          BY <3>0, <5>1
      <4> QED
        BY <2>6, <3>1, <4>1, <4>2 DEF Response
    <3>2. CASE ~Live(w)
      <4>1. Aim(w, "failMonth")
        BY <2>6, <3>2 DEF Response
      <4> QED
        BY <2>6, <3>2, <4>1, AimEffect DEF Response
    <3> QED
      BY <3>1, <3>2
  <2>7. CASE RequestFails(w)
      BY <2>7 DEF RequestFails, Aim
  <2>8. CASE ReadPeriod(w)
    <3>1. month[w] \in Months
      BY <2>8 DEF ReadPeriod
    <3> QED
      BY <2>8, <3>1, ZenonT(60) DEF ReadPeriod, Aim
  <2>9. CASE FenceJob(w)
      BY <2>9 DEF FenceJob, LockJob, Live, Owns, Free
  <2>10. CASE FenceJobFails(w)
    <3>1. /\ pc' \in [Workers -> Phases] /\ goal' \in [Workers -> Goals]
          /\ \A v \in Workers : HasMonth(v)' => HasMonth(v) /\ month'[v] = month[v]
          /\ \A v \in Workers : pc'[v] # "idle" => cur'[v] \in Jobs
      BY UnwindEffect, <2>10 DEF FenceJobFails
    <3> QED
      BY <2>10, <3>1 DEF FenceJobFails, Unlock
  <2>11. CASE FenceSource(w)
      BY <2>11 DEF FenceSource, LockSource, Unchanged
  <2>12. CASE FenceSourceFails(w)
    <3>1. /\ pc' \in [Workers -> Phases] /\ goal' \in [Workers -> Goals]
          /\ \A v \in Workers : HasMonth(v)' => HasMonth(v) /\ month'[v] = month[v]
          /\ \A v \in Workers : pc'[v] # "idle" => cur'[v] \in Jobs
      BY UnwindEffect, <2>12 DEF FenceSourceFails
    <3> QED
      BY <2>12, <3>1 DEF FenceSourceFails, Unlock
  <2>13. CASE Publish(w)
      BY <2>13 DEF Publish, Unlock
  <2>14. CASE PublishRefused(w)
    <3>1. /\ pc' \in [Workers -> Phases] /\ goal' \in [Workers -> Goals]
          /\ \A v \in Workers : HasMonth(v)' => HasMonth(v) /\ month'[v] = month[v]
          /\ \A v \in Workers : pc'[v] # "idle" => cur'[v] \in Jobs
      BY UnwindEffect, <2>14 DEF PublishRefused
    <3> QED
      BY <2>14, <3>1 DEF PublishRefused, Unlock
  <2>15. CASE FinishRun(w)
      BY <2>15 DEF FinishRun, Unlock
  <2>16. CASE RecordMonthFailure(w)
      BY <2>16 DEF RecordMonthFailure, Aim, Unlock
  <2>17. CASE RecordRunFailure(w)
      BY <2>17 DEF RecordRunFailure, Unlock
  <2>18. CASE SaveProgress(w)
    <3>0. month[w] \in Months /\ cur[w] \in Jobs
      BY <2>18 DEF SaveProgress
    <3>1. done' \in [Workers -> SUBSET Months]
      BY <2>18, <3>0 DEF SaveProgress
    <3>2. CASE Live(w)
      <4>1. left' \in [Jobs -> 0..LeaseTicks]
        BY <2>18, <3>0, <3>2, SMTT(60) DEF SaveProgress, Renew
      <4>2. completed' \in [Jobs -> SUBSET Months]
        <5>1. completed' = [completed EXCEPT ![cur[w]] = done[w] \union {month[w]}]
          BY <2>18, <3>2 DEF SaveProgress
        <5> QED
          BY <3>0, <5>1
      <4> QED
        BY <2>18, <3>1, <3>2, <4>1, <4>2, SMTT(60) DEF SaveProgress
    <3>3. CASE ~Live(w)
      <4>1. Aim(w, "failRun")
        BY <2>18, <3>3 DEF SaveProgress
      <4> QED
        BY <2>18, <3>1, <3>3, <4>1, AimEffect DEF SaveProgress
    <3> QED
      BY <3>2, <3>3
  <2>19. CASE Complete(w)
    <3>0. /\ pc' \in [Workers -> Phases] /\ goal' \in [Workers -> Goals]
          /\ cur' \in [Workers -> Jobs \union {NoJob}]
          /\ token' \in [Workers -> 0..MaxAttempts]
          /\ seen' \in [Workers -> 0..MaxEdits]
          /\ todo' \in [Workers -> SUBSET Months]
          /\ done' \in [Workers -> SUBSET Months]
          /\ month' \in [Workers -> Months \union {0}]
          /\ fetched' \in [Workers -> 0..MaxUsage]
          /\ base' \in [Workers -> Nat]
          /\ wasComplete' \in [Workers -> BOOLEAN]
          /\ \A v \in Workers : (pc'[v] # "idle" => cur'[v] \in Jobs) /\ (HasMonth(v)' => month'[v] # 0)
      BY <2>19, ReturnEffect DEF Complete
    <3>1. CASE Owns(w)
      <4>0. cur[w] \in Jobs /\ attempts[cur[w]] \in 0..MaxAttempts
        BY <2>19 DEF Complete
      <4>1. /\ status' \in [Jobs -> Statuses] /\ left' \in [Jobs -> 0..LeaseTicks]
            /\ \A j \in Jobs : status'[j] \in {"unused", "queued"} => attempts[j] < MaxAttempts
        <5>1. status' = [status EXCEPT ![cur[w]] = "done"] /\ left' = [left EXCEPT ![cur[w]] = 0]
          BY <2>19, <3>1 DEF Complete
        <5> QED
          BY <4>0, <5>1
      <4>2. completed' \in [Jobs -> SUBSET Months]
        BY <2>19, <3>1, <4>0 DEF Complete, Reached
      <4> QED
        BY <2>19, <3>0, <3>1, <4>1, <4>2 DEF Complete
    <3>2. CASE ~Owns(w)
      BY <2>19, <3>0, <3>2 DEF Complete
    <3> QED
      BY <3>1, <3>2
  <2>20. CASE Fail(w)
    <3>0. /\ pc' \in [Workers -> Phases] /\ goal' \in [Workers -> Goals]
          /\ cur' \in [Workers -> Jobs \union {NoJob}]
          /\ token' \in [Workers -> 0..MaxAttempts]
          /\ seen' \in [Workers -> 0..MaxEdits]
          /\ todo' \in [Workers -> SUBSET Months]
          /\ done' \in [Workers -> SUBSET Months]
          /\ month' \in [Workers -> Months \union {0}]
          /\ fetched' \in [Workers -> 0..MaxUsage]
          /\ base' \in [Workers -> Nat]
          /\ wasComplete' \in [Workers -> BOOLEAN]
          /\ \A v \in Workers : (pc'[v] # "idle" => cur'[v] \in Jobs) /\ (HasMonth(v)' => month'[v] # 0)
      BY <2>20, ReturnEffect DEF Fail
    <3>1. CASE Owns(w)
      <4>0. cur[w] \in Jobs /\ attempts[cur[w]] \in 0..MaxAttempts
        BY <2>20 DEF Fail
      <4>1. /\ status' \in [Jobs -> Statuses] /\ left' \in [Jobs -> 0..LeaseTicks]
            /\ \A j \in Jobs : status'[j] \in {"unused", "queued"} => attempts[j] < MaxAttempts
        <5>1. PutBack(cur[w], FALSE)
          BY <2>20, <3>1 DEF Fail
        <5> QED
          BY <4>0, <5>1, PutBackEffect
      <4>2. completed' \in [Jobs -> SUBSET Months]
        BY <2>20, <3>1, <4>0, SMTT(60) DEF Fail, Reached
      <4> QED
        BY <2>20, <3>0, <3>1, <4>1, <4>2 DEF Fail
    <3>2. CASE ~Owns(w)
      BY <2>20, <3>0, <3>2 DEF Fail
    <3> QED
      BY <3>1, <3>2
  <2> HIDE DEF TypeOK
  <2> QED
    BY <1>6, <2>1, <2>2, <2>3, <2>4, <2>5, <2>6, <2>7, <2>8, <2>9, <2>10, <2>11, <2>12,
      <2>13, <2>14, <2>15, <2>16, <2>17, <2>18, <2>19, <2>20 DEF Collect
<1>7. ASSUME NEW w \in Workers, Crash(w) PROVE TypeOK'
    BY <1>7 DEF Crash, Unlock, Return
<1>8. ASSUME NEW w \in Workers, AbortWorker(w) PROVE TypeOK'
  <2>1. /\ pc' \in [Workers -> Phases] /\ goal' \in [Workers -> Goals]
        /\ \A v \in Workers : HasMonth(v)' => HasMonth(v) /\ month'[v] = month[v]
        /\ \A v \in Workers : pc'[v] # "idle" => cur'[v] \in Jobs
    BY UnwindEffect, <1>8 DEF AbortWorker, Deadlock
  <2> QED
    BY <1>8, <2>1 DEF AbortWorker, Deadlock, Unlock
<1>9. ASSUME NEW w \in Workers, AbortAdmin(w) PROVE TypeOK'
    BY <1>9 DEF AbortAdmin, Unlock, Deadlock, Doomed
<1>10. ASSUME NEW op \in {"stop", "rotate", "pause"}, AdminBegin(op) PROVE TypeOK'
    BY <1>10 DEF AdminBegin
<1>11. ASSUME NEW m \in Months, Bill(m) PROVE TypeOK'
    BY <1>11 DEF Bill
<1>12. CASE AdminCommit
  <2>1. status' \in [Jobs -> Statuses]
        /\ \A j \in Jobs : status'[j] \in {"unused", "queued"} => attempts[j] < MaxAttempts
    BY <1>12 DEF AdminCommit
  <2>2. jobLock' \in [Jobs -> Owners] /\ srcLock' \in Owners
    BY <1>12 DEF AdminCommit, Unlock
  <2>3. CASE admin = "pause"
    BY <1>12, <2>1, <2>2, <2>3 DEF AdminCommit
  <2>4. CASE admin # "pause"
    <3>1. /\ version' \in 0..MaxEdits /\ version' <= edits
          /\ enabled' \in BOOLEAN /\ approved' \in BOOLEAN
      <4>1. admin \in {"stop", "rotate"}
        BY <1>12, <2>4 DEF AdminCommit
      <4>2. version + 1 <= edits
        BY <4>1
      <4> QED
        <5>1. version' = version + 1 /\ approved' = FALSE /\ enabled' = (enabled /\ admin # "stop")
          BY <1>12, <2>4 DEF AdminCommit
        <5>2. version' \in 0..MaxEdits /\ version' <= edits
          BY <4>2, <5>1
        <5>3. enabled' \in BOOLEAN /\ approved' \in BOOLEAN
          BY <5>1
        <5> QED
          BY <5>2, <5>3
    <3> QED
      BY <1>12, <2>1, <2>2, <2>4, <3>1 DEF AdminCommit
  <2> QED
    BY <2>3, <2>4
<1>13. CASE Resume
    BY <1>13 DEF Resume
<1>14. CASE Approve
    BY <1>14 DEF Approve
<1>15. CASE Tick
    BY <1>15 DEF Tick, Ticking
<1>16. CASE UNCHANGED vars
    BY <1>16 DEF vars
<1> HIDE DEF TypeOK
<1> QED
    BY <1>1, <1>2, <1>3, <1>4, <1>5, <1>6, <1>7, <1>8, <1>9, <1>10, <1>11, <1>12, <1>13,
      <1>14, <1>15, <1>16 DEF Next
\* Every variable keeps its type.
THEOREM TypeCorrect == Spec => []TypeOK
<1>1. Init => TypeOK
    BY TypeInit
<1>2. TypeOK /\ [Next]_vars => TypeOK'
    BY TypeNext
<1> QED
    BY <1>1, <1>2, PTL DEF Spec

-----------------------------------------------------------------------------
(* The conjuncts of the inductive invariant                                 *)

\* Nobody takes the source row from an administrator.
LEMMA AdminHoldsNext == IndInv /\ [Next]_vars => AdminHolds'
<1> SUFFICES ASSUME IndInv, [Next]_vars PROVE AdminHolds'
    OBVIOUS
<1> USE ConstantsAssumption DEF TypeOK, HasMonth, Statuses, Owners, IndInv, AdminHolds, rowVars, sourceVars, jobVars, periodVars, lockVars, localVars, keptVars, boundVars, Goto
<1>1. ASSUME NEW j \in Jobs, NEW months \in {Latest, Months}, Enqueue(j, months) PROVE AdminHolds'
    BY <1>1 DEF Enqueue, Ready
<1>2. ASSUME NEW j \in Jobs, Extend(j) PROVE AdminHolds'
    BY <1>2 DEF Extend, Ready, Free
<1>3. ASSUME NEW j \in Jobs, RecoverExpired(j) PROVE AdminHolds'
    BY <1>3 DEF RecoverExpired, PutBack, Free
<1>4. ASSUME NEW j \in Jobs, AdminTake(j) PROVE AdminHolds'
    BY <1>4 DEF AdminTake, Free, Doomed
<1>5. ASSUME NEW w \in Workers, NEW j \in Jobs, Lease(w, j) PROVE AdminHolds'
    BY <1>5 DEF Lease, Free
<1>6. ASSUME NEW w \in Workers, Collect(w) PROVE AdminHolds'
  <2>1. CASE LoadRefused(w)
      BY <2>1 DEF LoadRefused, PutBack, Owns, Free, Return
  <2>2. CASE Load(w)
      BY <2>2 DEF Load, Window, Refused
  <2>3. ASSUME NEW m \in Months, PickMonth(w, m) PROVE AdminHolds'
      BY <2>3 DEF PickMonth, Pending
  <2>4. CASE PickNone(w)
      BY <2>4 DEF PickNone, Pending, Aim
  <2>5. CASE Request(w)
      BY <2>5 DEF Request, Renew, Aim, Live, Owns, Free
  <2>6. CASE Response(w)
      BY <2>6 DEF Response, Renew, Aim, Live, Owns, Free
  <2>7. CASE RequestFails(w)
      BY <2>7 DEF RequestFails, Aim
  <2>8. CASE ReadPeriod(w)
      BY <2>8 DEF ReadPeriod
  <2>9. CASE FenceJob(w)
      BY <2>9 DEF FenceJob, LockJob, Live, Owns, Free
  <2>10. CASE FenceJobFails(w)
      BY <2>10 DEF FenceJobFails, Unwind, Aim
  <2>11. CASE FenceSource(w)
      BY <2>11 DEF FenceSource, LockSource, Unchanged
  <2>12. CASE FenceSourceFails(w)
      BY <2>12 DEF FenceSourceFails, Unwind, Aim, Unlock
  <2>13. CASE Publish(w)
      BY <2>13 DEF Publish, Unlock
  <2>14. CASE PublishRefused(w)
      BY <2>14 DEF PublishRefused, Unwind, Aim, Unlock
  <2>15. CASE FinishRun(w)
      BY <2>15 DEF FinishRun, Unlock
  <2>16. CASE RecordMonthFailure(w)
      BY <2>16 DEF RecordMonthFailure, Aim, Unlock
  <2>17. CASE RecordRunFailure(w)
      BY <2>17 DEF RecordRunFailure, Unlock
  <2>18. CASE SaveProgress(w)
      BY <2>18 DEF SaveProgress, Live, Owns, Free, Renew, Aim
  <2>19. CASE Complete(w)
      BY <2>19 DEF Complete, Owns, Free, Return
  <2>20. CASE Fail(w)
      BY <2>20 DEF Fail, PutBack, Owns, Free, Reached, Return
  <2> HIDE DEF AdminHolds
  <2> QED
    BY <1>6, <2>1, <2>2, <2>3, <2>4, <2>5, <2>6, <2>7, <2>8, <2>9, <2>10, <2>11, <2>12,
      <2>13, <2>14, <2>15, <2>16, <2>17, <2>18, <2>19, <2>20 DEF Collect
<1>7. ASSUME NEW w \in Workers, Crash(w) PROVE AdminHolds'
    BY <1>7 DEF Crash, Unlock, Return
<1>8. ASSUME NEW w \in Workers, AbortWorker(w) PROVE AdminHolds'
    BY <1>8 DEF AbortWorker, Unwind, Aim, Unlock, Deadlock, Doomed
<1>9. ASSUME NEW w \in Workers, AbortAdmin(w) PROVE AdminHolds'
    BY <1>9 DEF AbortAdmin, Unlock, Deadlock, Doomed
<1>10. ASSUME NEW op \in {"stop", "rotate", "pause"}, AdminBegin(op) PROVE AdminHolds'
    BY <1>10 DEF AdminBegin
<1>11. ASSUME NEW m \in Months, Bill(m) PROVE AdminHolds'
    BY <1>11 DEF Bill
<1>12. CASE AdminCommit
    BY <1>12 DEF AdminCommit, Unlock, Doomed
<1>13. CASE Resume
    BY <1>13 DEF Resume
<1>14. CASE Approve
    BY <1>14 DEF Approve
<1>15. CASE Tick
    BY <1>15 DEF Tick, Ticking
<1>16. CASE UNCHANGED vars
    BY <1>16 DEF vars
<1> HIDE DEF AdminHolds
<1> QED
    BY <1>1, <1>2, <1>3, <1>4, <1>5, <1>6, <1>7, <1>8, <1>9, <1>10, <1>11, <1>12, <1>13,
      <1>14, <1>15, <1>16 DEF Next

\* A lease is granted only while no job of the source is leased.
LEMMA OneLeasedNext == IndInv /\ [Next]_vars => OneLeased'
<1> SUFFICES ASSUME IndInv, [Next]_vars PROVE OneLeased'
    OBVIOUS
<1> USE ConstantsAssumption DEF TypeOK, HasMonth, Statuses, Owners, IndInv, OneLeased, rowVars, sourceVars, jobVars, periodVars, lockVars, localVars, keptVars, boundVars, Goto
<1>1. ASSUME NEW j \in Jobs, NEW months \in {Latest, Months}, Enqueue(j, months) PROVE OneLeased'
    BY <1>1 DEF Enqueue, Ready
<1>2. ASSUME NEW j \in Jobs, Extend(j) PROVE OneLeased'
    BY <1>2 DEF Extend, Ready, Free
<1>3. ASSUME NEW j \in Jobs, RecoverExpired(j) PROVE OneLeased'
    BY <1>3 DEF RecoverExpired, PutBack, Free
<1>4. ASSUME NEW j \in Jobs, AdminTake(j) PROVE OneLeased'
    BY <1>4 DEF AdminTake, Free, Doomed
<1>5. ASSUME NEW w \in Workers, NEW j \in Jobs, Lease(w, j) PROVE OneLeased'
    BY <1>5 DEF Lease, Free
<1>6. ASSUME NEW w \in Workers, Collect(w) PROVE OneLeased'
  <2>1. CASE LoadRefused(w)
      BY <2>1 DEF LoadRefused, PutBack, Owns, Free, Return
  <2>2. CASE Load(w)
      BY <2>2 DEF Load, Window, Refused
  <2>3. ASSUME NEW m \in Months, PickMonth(w, m) PROVE OneLeased'
      BY <2>3 DEF PickMonth, Pending
  <2>4. CASE PickNone(w)
      BY <2>4 DEF PickNone, Pending, Aim
  <2>5. CASE Request(w)
      BY <2>5 DEF Request, Renew, Aim, Live, Owns, Free
  <2>6. CASE Response(w)
      BY <2>6 DEF Response, Renew, Aim, Live, Owns, Free
  <2>7. CASE RequestFails(w)
      BY <2>7 DEF RequestFails, Aim
  <2>8. CASE ReadPeriod(w)
      BY <2>8 DEF ReadPeriod
  <2>9. CASE FenceJob(w)
      BY <2>9 DEF FenceJob, LockJob, Live, Owns, Free
  <2>10. CASE FenceJobFails(w)
      BY <2>10 DEF FenceJobFails, Unwind, Aim
  <2>11. CASE FenceSource(w)
      BY <2>11 DEF FenceSource, LockSource, Unchanged
  <2>12. CASE FenceSourceFails(w)
      BY <2>12 DEF FenceSourceFails, Unwind, Aim, Unlock
  <2>13. CASE Publish(w)
      BY <2>13 DEF Publish, Unlock
  <2>14. CASE PublishRefused(w)
      BY <2>14 DEF PublishRefused, Unwind, Aim, Unlock
  <2>15. CASE FinishRun(w)
      BY <2>15 DEF FinishRun, Unlock
  <2>16. CASE RecordMonthFailure(w)
      BY <2>16 DEF RecordMonthFailure, Aim, Unlock
  <2>17. CASE RecordRunFailure(w)
      BY <2>17 DEF RecordRunFailure, Unlock
  <2>18. CASE SaveProgress(w)
      BY <2>18 DEF SaveProgress, Live, Owns, Free, Renew, Aim
  <2>19. CASE Complete(w)
      BY <2>19 DEF Complete, Owns, Free, Return
  <2>20. CASE Fail(w)
      BY <2>20 DEF Fail, PutBack, Owns, Free, Reached, Return
  <2> HIDE DEF OneLeased
  <2> QED
    BY <1>6, <2>1, <2>2, <2>3, <2>4, <2>5, <2>6, <2>7, <2>8, <2>9, <2>10, <2>11, <2>12,
      <2>13, <2>14, <2>15, <2>16, <2>17, <2>18, <2>19, <2>20 DEF Collect
<1>7. ASSUME NEW w \in Workers, Crash(w) PROVE OneLeased'
    BY <1>7 DEF Crash, Unlock, Return
<1>8. ASSUME NEW w \in Workers, AbortWorker(w) PROVE OneLeased'
    BY <1>8 DEF AbortWorker, Unwind, Aim, Unlock, Deadlock, Doomed
<1>9. ASSUME NEW w \in Workers, AbortAdmin(w) PROVE OneLeased'
    BY <1>9 DEF AbortAdmin, Unlock, Deadlock, Doomed
<1>10. ASSUME NEW op \in {"stop", "rotate", "pause"}, AdminBegin(op) PROVE OneLeased'
    BY <1>10 DEF AdminBegin
<1>11. ASSUME NEW m \in Months, Bill(m) PROVE OneLeased'
    BY <1>11 DEF Bill
<1>12. CASE AdminCommit
    BY <1>12 DEF AdminCommit, Unlock, Doomed
<1>13. CASE Resume
    BY <1>13 DEF Resume
<1>14. CASE Approve
    BY <1>14 DEF Approve
<1>15. CASE Tick
    BY <1>15 DEF Tick, Ticking
<1>16. CASE UNCHANGED vars
    BY <1>16 DEF vars
<1> HIDE DEF OneLeased
<1> QED
    BY <1>1, <1>2, <1>3, <1>4, <1>5, <1>6, <1>7, <1>8, <1>9, <1>10, <1>11, <1>12, <1>13,
      <1>14, <1>15, <1>16 DEF Next

\* No step of another process breaks the fences of a transaction.
LEMMA FencedNext == IndInv /\ [Next]_vars => Fenced'
<1> SUFFICES ASSUME IndInv, [Next]_vars PROVE Fenced'
    OBVIOUS
<1> USE ConstantsAssumption DEF TypeOK, HasMonth, Statuses, Owners, IndInv, AdminHolds, OneLeased, Current, Fenced, rowVars, sourceVars, jobVars, periodVars, lockVars, localVars, keptVars, boundVars, Goto
<1>1. ASSUME NEW j \in Jobs, NEW months \in {Latest, Months}, Enqueue(j, months) PROVE Fenced'
    BY <1>1 DEF Enqueue, Ready
<1>2. ASSUME NEW j \in Jobs, Extend(j) PROVE Fenced'
    BY <1>2 DEF Extend, Ready, Free
<1>3. ASSUME NEW j \in Jobs, RecoverExpired(j) PROVE Fenced'
    BY <1>3 DEF RecoverExpired, PutBack, Free
<1>4. ASSUME NEW j \in Jobs, AdminTake(j) PROVE Fenced'
    BY <1>4 DEF AdminTake, Free, Doomed
<1>5. ASSUME NEW w \in Workers, NEW j \in Jobs, Lease(w, j) PROVE Fenced'
    BY <1>5 DEF Lease, Free
<1>6. ASSUME NEW w \in Workers, Collect(w) PROVE Fenced'
  <2>1. CASE LoadRefused(w)
      BY <2>1 DEF LoadRefused, PutBack, Owns, Free, Return
  <2>2. CASE Load(w)
      BY <2>2 DEF Load, Window, Refused
  <2>3. ASSUME NEW m \in Months, PickMonth(w, m) PROVE Fenced'
      BY <2>3 DEF PickMonth, Pending
  <2>4. CASE PickNone(w)
      BY <2>4 DEF PickNone, Pending, Aim
  <2>5. CASE Request(w)
      BY <2>5 DEF Request, Renew, Aim, Live, Owns, Free
  <2>6. CASE Response(w)
      BY <2>6 DEF Response, Renew, Aim, Live, Owns, Free
  <2>7. CASE RequestFails(w)
      BY <2>7 DEF RequestFails, Aim
  <2>8. CASE ReadPeriod(w)
    <3>1. month[w] \in Months
      BY <2>8 DEF ReadPeriod
    <3>2. base' = [base EXCEPT ![w] = revision[month[w]]]
      BY <2>8 DEF ReadPeriod
    <3>3. pc' = [pc EXCEPT ![w] = "fence"] /\ goal' = [goal EXCEPT ![w] = "publish"]
      BY <2>8 DEF ReadPeriod, Aim
    <3> QED
      BY <2>8, <3>1, <3>2, <3>3 DEF ReadPeriod
  <2>9. CASE FenceJob(w)
      BY <2>9 DEF FenceJob, LockJob, Live, Owns, Free
  <2>10. CASE FenceJobFails(w)
      BY <2>10 DEF FenceJobFails, Unwind, Aim
  <2>11. CASE FenceSource(w)
      BY <2>11 DEF FenceSource, LockSource, Unchanged
  <2>12. CASE FenceSourceFails(w)
      BY <2>12 DEF FenceSourceFails, Unwind, Aim, Unlock
  <2>13. CASE Publish(w)
      BY <2>13 DEF Publish, Unlock
  <2>14. CASE PublishRefused(w)
      BY <2>14 DEF PublishRefused, Unwind, Aim, Unlock
  <2>15. CASE FinishRun(w)
      BY <2>15 DEF FinishRun, Unlock
  <2>16. CASE RecordMonthFailure(w)
      BY <2>16 DEF RecordMonthFailure, Aim, Unlock
  <2>17. CASE RecordRunFailure(w)
      BY <2>17 DEF RecordRunFailure, Unlock
  <2>18. CASE SaveProgress(w)
      BY <2>18 DEF SaveProgress, Live, Owns, Free, Renew, Aim
  <2>19. CASE Complete(w)
      BY <2>19 DEF Complete, Owns, Free, Return
  <2>20. CASE Fail(w)
      BY <2>20 DEF Fail, PutBack, Owns, Free, Reached, Return
  <2> HIDE DEF Fenced
  <2> QED
    BY <1>6, <2>1, <2>2, <2>3, <2>4, <2>5, <2>6, <2>7, <2>8, <2>9, <2>10, <2>11, <2>12,
      <2>13, <2>14, <2>15, <2>16, <2>17, <2>18, <2>19, <2>20 DEF Collect
<1>7. ASSUME NEW w \in Workers, Crash(w) PROVE Fenced'
    BY <1>7 DEF Crash, Unlock, Return
<1>8. ASSUME NEW w \in Workers, AbortWorker(w) PROVE Fenced'
    BY <1>8 DEF AbortWorker, Unwind, Aim, Unlock, Deadlock, Doomed
<1>9. ASSUME NEW w \in Workers, AbortAdmin(w) PROVE Fenced'
    BY <1>9 DEF AbortAdmin, Unlock, Deadlock, Doomed
<1>10. ASSUME NEW op \in {"stop", "rotate", "pause"}, AdminBegin(op) PROVE Fenced'
    BY <1>10 DEF AdminBegin
<1>11. ASSUME NEW m \in Months, Bill(m) PROVE Fenced'
    BY <1>11 DEF Bill
<1>12. CASE AdminCommit
    BY <1>12 DEF AdminCommit, Unlock, Doomed
<1>13. CASE Resume
    BY <1>13 DEF Resume
<1>14. CASE Approve
    BY <1>14 DEF Approve
<1>15. CASE Tick
    BY <1>15 DEF Tick, Ticking
<1>16. CASE UNCHANGED vars
    BY <1>16 DEF vars
<1> HIDE DEF Fenced
<1> QED
    BY <1>1, <1>2, <1>3, <1>4, <1>5, <1>6, <1>7, <1>8, <1>9, <1>10, <1>11, <1>12, <1>13,
      <1>14, <1>15, <1>16 DEF Next

\* Only the owner of the job publishes, and what it publishes is up to date.
LEMMA UpToDateNext == IndInv /\ [Next]_vars => UpToDate'
<1> SUFFICES ASSUME IndInv, [Next]_vars PROVE UpToDate'
    OBVIOUS
<1> USE ConstantsAssumption DEF TypeOK, HasMonth, Statuses, Owners, IndInv, AdminHolds, OneLeased, Fenced, Current, Publishing, UpToDate, rowVars, sourceVars, jobVars, periodVars, lockVars, localVars, keptVars, boundVars, Goto
<1>1. ASSUME NEW j \in Jobs, NEW months \in {Latest, Months}, Enqueue(j, months) PROVE UpToDate'
    BY <1>1 DEF Enqueue, Ready
<1>2. ASSUME NEW j \in Jobs, Extend(j) PROVE UpToDate'
    BY <1>2 DEF Extend, Ready, Free
<1>3. ASSUME NEW j \in Jobs, RecoverExpired(j) PROVE UpToDate'
    BY <1>3 DEF RecoverExpired, PutBack, Free
<1>4. ASSUME NEW j \in Jobs, AdminTake(j) PROVE UpToDate'
    BY <1>4 DEF AdminTake, Free, Doomed
<1>5. ASSUME NEW w \in Workers, NEW j \in Jobs, Lease(w, j) PROVE UpToDate'
    BY <1>5 DEF Lease, Free
<1>6. ASSUME NEW w \in Workers, Collect(w) PROVE UpToDate'
  <2>1. CASE LoadRefused(w)
      BY <2>1 DEF LoadRefused, PutBack, Owns, Free, Return
  <2>2. CASE Load(w)
      BY <2>2 DEF Load, Window, Refused
  <2>3. ASSUME NEW m \in Months, PickMonth(w, m) PROVE UpToDate'
      BY <2>3 DEF PickMonth, Pending
  <2>4. CASE PickNone(w)
      BY <2>4 DEF PickNone, Pending, Aim
  <2>5. CASE Request(w)
      BY <2>5 DEF Request, Renew, Aim, Live, Owns, Free
  <2>6. CASE Response(w)
    <3>1. CASE Live(w)
      <4>1. month[w] \in Months /\ cur[w] \in Jobs
        BY <2>6 DEF Response
      <4>2. /\ fetched' = [fetched EXCEPT ![w] = usage[month[w]]]
            /\ pc' = [pc EXCEPT ![w] = "read"] /\ goal' = goal
        BY <2>6, <3>1 DEF Response
      <4>3. \A v \in Workers \ {w} : pc'[v] = pc[v] /\ fetched'[v] = fetched[v]
        BY <4>2
      <4>4. pc'[w] = "read" /\ ~Publishing(w)' /\ fetched'[w] = usage[month[w]]
        BY <4>2
      <4>5. costs[month[w]] <= usage[month[w]] /\ usage[month[w]] <= usage[month[w]]
        <5> HIDE DEF Fenced, AdminHolds, OneLeased
        <5>1. costs[month[w]] \in 0..MaxUsage /\ usage[month[w]] \in 0..MaxUsage
          <6> HIDE DEF UpToDate
          <6> QED
            BY <4>1
        <5>2. costs[month[w]] <= usage[month[w]]
          <6> HIDE DEF TypeOK
          <6> QED
            BY <4>1
        <5> QED
          BY <5>1, <5>2, ConstantsAssumption
      <4>6. \A v \in Workers : Current(v)' => Current(v) \/ v = w
        BY <2>6, <4>3 DEF Response
      <4>7. /\ costs' = costs /\ usage' = usage /\ revision' = revision /\ base' = base
            /\ month' = month
        BY <2>6 DEF Response
      <4> HIDE DEF Current
      <4> QED
        BY <4>2, <4>3, <4>4, <4>5, <4>6, <4>7
    <3>2. CASE ~Live(w)
      <4>1. pc' = [pc EXCEPT ![w] = "fence"] /\ goal' = [goal EXCEPT ![w] = "failMonth"]
        BY <2>6, <3>2 DEF Response, Aim
      <4> QED
        BY <2>6, <3>2, <4>1 DEF Response
    <3> QED
      BY <3>1, <3>2
  <2>7. CASE RequestFails(w)
      BY <2>7 DEF RequestFails, Aim
  <2>8. CASE ReadPeriod(w)
    <3>1. month[w] \in Months
      BY <2>8 DEF ReadPeriod
    <3>2. base' = [base EXCEPT ![w] = revision[month[w]]]
      BY <2>8 DEF ReadPeriod
    <3>3. pc' = [pc EXCEPT ![w] = "fence"] /\ goal' = [goal EXCEPT ![w] = "publish"]
      BY <2>8 DEF ReadPeriod, Aim
    <3> QED
      BY <2>8, <3>1, <3>2, <3>3 DEF ReadPeriod
  <2>9. CASE FenceJob(w)
      BY <2>9 DEF FenceJob, LockJob, Live, Owns, Free
  <2>10. CASE FenceJobFails(w)
      BY <2>10 DEF FenceJobFails, Unwind, Aim
  <2>11. CASE FenceSource(w)
      BY <2>11 DEF FenceSource, LockSource, Unchanged
  <2>12. CASE FenceSourceFails(w)
      BY <2>12 DEF FenceSourceFails, Unwind, Aim, Unlock
  <2>13. CASE Publish(w)
      BY <2>13 DEF Publish, Unlock
  <2>14. CASE PublishRefused(w)
      BY <2>14 DEF PublishRefused, Unwind, Aim, Unlock
  <2>15. CASE FinishRun(w)
      BY <2>15 DEF FinishRun, Unlock
  <2>16. CASE RecordMonthFailure(w)
      BY <2>16 DEF RecordMonthFailure, Aim, Unlock
  <2>17. CASE RecordRunFailure(w)
      BY <2>17 DEF RecordRunFailure, Unlock
  <2>18. CASE SaveProgress(w)
      BY <2>18 DEF SaveProgress, Live, Owns, Free, Renew, Aim
  <2>19. CASE Complete(w)
      BY <2>19 DEF Complete, Owns, Free, Return
  <2>20. CASE Fail(w)
      BY <2>20 DEF Fail, PutBack, Owns, Free, Reached, Return
  <2> HIDE DEF UpToDate
  <2> QED
    BY <1>6, <2>1, <2>2, <2>3, <2>4, <2>5, <2>6, <2>7, <2>8, <2>9, <2>10, <2>11, <2>12,
      <2>13, <2>14, <2>15, <2>16, <2>17, <2>18, <2>19, <2>20 DEF Collect
<1>7. ASSUME NEW w \in Workers, Crash(w) PROVE UpToDate'
    BY <1>7 DEF Crash, Unlock, Return
<1>8. ASSUME NEW w \in Workers, AbortWorker(w) PROVE UpToDate'
    BY <1>8 DEF AbortWorker, Unwind, Aim, Unlock, Deadlock, Doomed
<1>9. ASSUME NEW w \in Workers, AbortAdmin(w) PROVE UpToDate'
    BY <1>9 DEF AbortAdmin, Unlock, Deadlock, Doomed
<1>10. ASSUME NEW op \in {"stop", "rotate", "pause"}, AdminBegin(op) PROVE UpToDate'
    BY <1>10 DEF AdminBegin
<1>11. ASSUME NEW m \in Months, Bill(m) PROVE UpToDate'
    BY <1>11 DEF Bill
<1>12. CASE AdminCommit
    BY <1>12 DEF AdminCommit, Unlock, Doomed
<1>13. CASE Resume
    BY <1>13 DEF Resume
<1>14. CASE Approve
    BY <1>14 DEF Approve
<1>15. CASE Tick
    BY <1>15 DEF Tick, Ticking
<1>16. CASE UNCHANGED vars
    BY <1>16 DEF vars
<1> HIDE DEF UpToDate
<1> QED
    BY <1>1, <1>2, <1>3, <1>4, <1>5, <1>6, <1>7, <1>8, <1>9, <1>10, <1>11, <1>12, <1>13,
      <1>14, <1>15, <1>16 DEF Next

\* Versions grow, and jobs and workers keep theirs.
LEMMA VersionsNext == IndInv /\ [Next]_vars => Versions'
<1> SUFFICES ASSUME IndInv, [Next]_vars PROVE Versions'
    OBVIOUS
<1> USE ConstantsAssumption DEF TypeOK, HasMonth, Statuses, Owners, IndInv, Fenced, Versions, rowVars, sourceVars, jobVars, periodVars, lockVars, localVars, keptVars, boundVars, Goto
<1>1. ASSUME NEW j \in Jobs, NEW months \in {Latest, Months}, Enqueue(j, months) PROVE Versions'
    BY <1>1 DEF Enqueue, Ready
<1>2. ASSUME NEW j \in Jobs, Extend(j) PROVE Versions'
    BY <1>2 DEF Extend, Ready, Free
<1>3. ASSUME NEW j \in Jobs, RecoverExpired(j) PROVE Versions'
    BY <1>3 DEF RecoverExpired, PutBack, Free
<1>4. ASSUME NEW j \in Jobs, AdminTake(j) PROVE Versions'
    BY <1>4 DEF AdminTake, Free, Doomed
<1>5. ASSUME NEW w \in Workers, NEW j \in Jobs, Lease(w, j) PROVE Versions'
    BY <1>5 DEF Lease, Free
<1>6. ASSUME NEW w \in Workers, Collect(w) PROVE Versions'
  <2>1. CASE LoadRefused(w)
      BY <2>1 DEF LoadRefused, PutBack, Owns, Free, Return
  <2>2. CASE Load(w)
      BY <2>2 DEF Load, Window, Refused
  <2>3. ASSUME NEW m \in Months, PickMonth(w, m) PROVE Versions'
      BY <2>3 DEF PickMonth, Pending
  <2>4. CASE PickNone(w)
      BY <2>4 DEF PickNone, Pending, Aim
  <2>5. CASE Request(w)
      BY <2>5 DEF Request, Renew, Aim, Live, Owns, Free
  <2>6. CASE Response(w)
      BY <2>6 DEF Response, Renew, Aim, Live, Owns, Free
  <2>7. CASE RequestFails(w)
      BY <2>7 DEF RequestFails, Aim
  <2>8. CASE ReadPeriod(w)
    <3>1. month[w] \in Months
      BY <2>8 DEF ReadPeriod
    <3>2. base' = [base EXCEPT ![w] = revision[month[w]]]
      BY <2>8 DEF ReadPeriod
    <3>3. pc' = [pc EXCEPT ![w] = "fence"] /\ goal' = [goal EXCEPT ![w] = "publish"]
      BY <2>8 DEF ReadPeriod, Aim
    <3> QED
      BY <2>8, <3>1, <3>2, <3>3 DEF ReadPeriod
  <2>9. CASE FenceJob(w)
      BY <2>9 DEF FenceJob, LockJob, Live, Owns, Free
  <2>10. CASE FenceJobFails(w)
      BY <2>10 DEF FenceJobFails, Unwind, Aim
  <2>11. CASE FenceSource(w)
      BY <2>11 DEF FenceSource, LockSource, Unchanged
  <2>12. CASE FenceSourceFails(w)
      BY <2>12 DEF FenceSourceFails, Unwind, Aim, Unlock
  <2>13. CASE Publish(w)
      BY <2>13 DEF Publish, Unlock
  <2>14. CASE PublishRefused(w)
      BY <2>14 DEF PublishRefused, Unwind, Aim, Unlock
  <2>15. CASE FinishRun(w)
      BY <2>15 DEF FinishRun, Unlock
  <2>16. CASE RecordMonthFailure(w)
      BY <2>16 DEF RecordMonthFailure, Aim, Unlock
  <2>17. CASE RecordRunFailure(w)
      BY <2>17 DEF RecordRunFailure, Unlock
  <2>18. CASE SaveProgress(w)
      BY <2>18 DEF SaveProgress, Live, Owns, Free, Renew, Aim
  <2>19. CASE Complete(w)
      BY <2>19 DEF Complete, Owns, Free, Return
  <2>20. CASE Fail(w)
      BY <2>20 DEF Fail, PutBack, Owns, Free, Reached, Return
  <2> HIDE DEF Versions
  <2> QED
    BY <1>6, <2>1, <2>2, <2>3, <2>4, <2>5, <2>6, <2>7, <2>8, <2>9, <2>10, <2>11, <2>12,
      <2>13, <2>14, <2>15, <2>16, <2>17, <2>18, <2>19, <2>20 DEF Collect
<1>7. ASSUME NEW w \in Workers, Crash(w) PROVE Versions'
    BY <1>7 DEF Crash, Unlock, Return
<1>8. ASSUME NEW w \in Workers, AbortWorker(w) PROVE Versions'
    BY <1>8 DEF AbortWorker, Unwind, Aim, Unlock, Deadlock, Doomed
<1>9. ASSUME NEW w \in Workers, AbortAdmin(w) PROVE Versions'
    BY <1>9 DEF AbortAdmin, Unlock, Deadlock, Doomed
<1>10. ASSUME NEW op \in {"stop", "rotate", "pause"}, AdminBegin(op) PROVE Versions'
    BY <1>10 DEF AdminBegin
<1>11. ASSUME NEW m \in Months, Bill(m) PROVE Versions'
    BY <1>11 DEF Bill
<1>12. CASE AdminCommit
    BY <1>12 DEF AdminCommit, Unlock, Doomed
<1>13. CASE Resume
    BY <1>13 DEF Resume
<1>14. CASE Approve
    BY <1>14 DEF Approve
<1>15. CASE Tick
    BY <1>15 DEF Tick, Ticking
<1>16. CASE UNCHANGED vars
    BY <1>16 DEF vars
<1> HIDE DEF Versions
<1> QED
    BY <1>1, <1>2, <1>3, <1>4, <1>5, <1>6, <1>7, <1>8, <1>9, <1>10, <1>11, <1>12, <1>13,
      <1>14, <1>15, <1>16 DEF Next

\* Progress never runs ahead of publication.
LEMMA ProgressNext == IndInv /\ [Next]_vars => Progress'
<1> SUFFICES ASSUME IndInv, [Next]_vars PROVE Progress'
    OBVIOUS
<1> USE ConstantsAssumption DEF TypeOK, HasMonth, Statuses, Owners, IndInv, Versions, Fenced, PublishedFor, Progress, rowVars, sourceVars, jobVars, periodVars, lockVars, localVars, keptVars, boundVars, Goto
<1>1. ASSUME NEW j \in Jobs, NEW months \in {Latest, Months}, Enqueue(j, months) PROVE Progress'
    BY <1>1 DEF Enqueue, Ready
<1>2. ASSUME NEW j \in Jobs, Extend(j) PROVE Progress'
    BY <1>2 DEF Extend, Ready, Free
<1>3. ASSUME NEW j \in Jobs, RecoverExpired(j) PROVE Progress'
    BY <1>3 DEF RecoverExpired, PutBack, Free
<1>4. ASSUME NEW j \in Jobs, AdminTake(j) PROVE Progress'
    BY <1>4 DEF AdminTake, Free, Doomed
<1>5. ASSUME NEW w \in Workers, NEW j \in Jobs, Lease(w, j) PROVE Progress'
    BY <1>5 DEF Lease, Free
<1>6. ASSUME NEW w \in Workers, Collect(w) PROVE Progress'
  <2>1. CASE LoadRefused(w)
    <3>0. cur[w] \in Jobs /\ pc[w] # "idle"
      BY <2>1 DEF LoadRefused
    <3>1. /\ pc' = [pc EXCEPT ![w] = "idle"] /\ cur' = [cur EXCEPT ![w] = NoJob]
          /\ done' = [done EXCEPT ![w] = {}] /\ month' = [month EXCEPT ![w] = 0]
      BY <2>1 DEF LoadRefused, Return
    <3>2. jobVersion' = jobVersion /\ revision' = revision /\ provenance' = provenance
      BY <2>1 DEF LoadRefused
    <3>3. \A i \in Jobs : status'[i] = "unused" => status[i] = "unused"
      <4>1. CASE Owns(w)
        <5>1. PutBack(cur[w], TRUE)
          BY <2>1, <4>1 DEF LoadRefused
        <5> HIDE DEF TypeOK, Fenced, Progress, Versions
        <5> QED
          BY <3>0, <5>1, PutBackEffect DEF IndInv
      <4>2. CASE ~Owns(w)
        BY <2>1, <4>2 DEF LoadRefused
      <4> QED
        BY <4>1, <4>2
    <3>4. \A m \in done[w] : PublishedFor(m, jobVersion[cur[w]])
      BY <3>0
    <3>5. completed' = completed
      BY <2>1 DEF LoadRefused
    <3>6. Owns(w) => status[cur[w]] # "unused"
      BY DEF Owns
    <3>7. /\ \A j \in Jobs : status'[j] = "unused" => completed'[j] = {}
          /\ \A j \in Jobs : \A m \in completed'[j] : PublishedFor(m, jobVersion[j])
      BY <3>3, <3>5
    <3>8. \A v \in Workers : pc'[v] \notin {"idle"} =>
            v # w /\ pc'[v] = pc[v] /\ cur'[v] = cur[v] /\ done'[v] = done[v] /\ month'[v] = month[v]
      BY <3>1
    <3> QED
      BY <3>2, <3>7, <3>8, ZenonT(60)
  <2>2. CASE Load(w)
      BY <2>2 DEF Load, Window, Refused
  <2>3. ASSUME NEW m \in Months, PickMonth(w, m) PROVE Progress'
      BY <2>3 DEF PickMonth, Pending
  <2>4. CASE PickNone(w)
      BY <2>4 DEF PickNone, Pending, Aim
  <2>5. CASE Request(w)
      BY <2>5, SMTT(60) DEF Request, Renew, Aim, Live, Owns, Free
  <2>6. CASE Response(w)
    <3>1. CASE Live(w)
      <4>1. pc' = [pc EXCEPT ![w] = "read"]
        BY <2>6, <3>1 DEF Response
      <4>2. goal' = goal
        BY <2>6, <3>1 DEF Response
      <4> QED
        BY <2>6, <4>1, <4>2 DEF Response
    <3>2. CASE ~Live(w)
      <4>1. pc' = [pc EXCEPT ![w] = "fence"] /\ goal' = [goal EXCEPT ![w] = "failMonth"]
        BY <2>6, <3>2 DEF Response, Aim
      <4> QED
        BY <2>6, <3>2, <4>1 DEF Response
    <3> QED
      BY <3>1, <3>2
  <2>7. CASE RequestFails(w)
      BY <2>7 DEF RequestFails, Aim
  <2>8. CASE ReadPeriod(w)
    <3>1. month[w] \in Months
      BY <2>8 DEF ReadPeriod
    <3>2. base' = [base EXCEPT ![w] = revision[month[w]]]
      BY <2>8 DEF ReadPeriod
    <3>3. pc' = [pc EXCEPT ![w] = "fence"] /\ goal' = [goal EXCEPT ![w] = "publish"]
      BY <2>8 DEF ReadPeriod, Aim
    <3> QED
      BY <2>8, <3>1, <3>2, <3>3 DEF ReadPeriod
  <2>9. CASE FenceJob(w)
      BY <2>9 DEF FenceJob, LockJob, Live, Owns, Free
  <2>10. CASE FenceJobFails(w)
      BY <2>10 DEF FenceJobFails, Unwind, Aim
  <2>11. CASE FenceSource(w)
      BY <2>11 DEF FenceSource, LockSource, Unchanged
  <2>12. CASE FenceSourceFails(w)
      BY <2>12 DEF FenceSourceFails, Unwind, Aim, Unlock
  <2>13. CASE Publish(w)
      BY <2>13 DEF Publish, Unlock
  <2>14. CASE PublishRefused(w)
      BY <2>14 DEF PublishRefused, Unwind, Aim, Unlock
  <2>15. CASE FinishRun(w)
      BY <2>15 DEF FinishRun, Unlock
  <2>16. CASE RecordMonthFailure(w)
      BY <2>16 DEF RecordMonthFailure, Aim, Unlock
  <2>17. CASE RecordRunFailure(w)
      BY <2>17 DEF RecordRunFailure, Unlock
  <2>18. CASE SaveProgress(w)
    <3>1. cur[w] \in Jobs /\ month[w] \in Months /\ pc[w] = "save"
      BY <2>18 DEF SaveProgress
    <3>2. PublishedFor(month[w], jobVersion[cur[w]])
      BY <3>1
    <3>3. done' = [done EXCEPT ![w] = done[w] \union {month[w]}]
      BY <2>18 DEF SaveProgress
    <3>4. CASE Live(w)
      <4>1. /\ completed' = [completed EXCEPT ![cur[w]] = done[w] \union {month[w]}]
            /\ pc' = [pc EXCEPT ![w] = "pick"]
        BY <2>18, <3>4 DEF SaveProgress
      <4>2. \A m \in done[w] \union {month[w]} : PublishedFor(m, jobVersion[cur[w]])
        BY <3>1, <3>2
      <4>3. status[cur[w]] # "unused"
        BY <3>1
      <4> QED
        BY <2>18, <3>1, <3>3, <4>1, <4>2, <4>3 DEF SaveProgress
    <3>5. CASE ~Live(w)
      <4>1. pc' = [pc EXCEPT ![w] = "fence"]
        BY <2>18, <3>5 DEF SaveProgress, Aim
      <4>2. completed' = completed
        BY <2>18, <3>5 DEF SaveProgress
      <4>3. \A m \in done[w] \union {month[w]} : PublishedFor(m, jobVersion[cur[w]])
        BY <3>1, <3>2
      <4> QED
        BY <2>18, <3>1, <3>3, <4>1, <4>2, <4>3 DEF SaveProgress
    <3> QED
      BY <3>4, <3>5
  <2>19. CASE Complete(w)
      BY <2>19 DEF Complete, Owns, Free, Return
  <2>20. CASE Fail(w)
    <3>0. cur[w] \in Jobs /\ pc[w] # "idle"
      BY <2>20 DEF Fail
    <3>1. /\ pc' = [pc EXCEPT ![w] = "idle"] /\ cur' = [cur EXCEPT ![w] = NoJob]
          /\ done' = [done EXCEPT ![w] = {}] /\ month' = [month EXCEPT ![w] = 0]
      BY <2>20 DEF Fail, Return
    <3>2. jobVersion' = jobVersion /\ revision' = revision /\ provenance' = provenance
      BY <2>20 DEF Fail
    <3>3. \A i \in Jobs : status'[i] = "unused" => status[i] = "unused"
      <4>1. CASE Owns(w)
        <5>1. PutBack(cur[w], FALSE)
          BY <2>20, <4>1 DEF Fail
        <5> HIDE DEF TypeOK, Fenced, Progress, Versions
        <5> QED
          BY <3>0, <5>1, PutBackEffect DEF IndInv
      <4>2. CASE ~Owns(w)
        BY <2>20, <4>2 DEF Fail
      <4> QED
        BY <4>1, <4>2
    <3>4. \A m \in done[w] : PublishedFor(m, jobVersion[cur[w]])
      BY <3>0
    <3>5. (Owns(w) => completed' = [completed EXCEPT ![cur[w]] = done[w]])
          /\ (~Owns(w) => completed' = completed)
      BY <2>20 DEF Fail, Reached
    <3>6. Owns(w) => status[cur[w]] # "unused"
      BY DEF Owns
    <3>7. /\ \A j \in Jobs : status'[j] = "unused" => completed'[j] = {}
          /\ \A j \in Jobs : \A m \in completed'[j] : PublishedFor(m, jobVersion[j])
      <4>1. CASE ~Owns(w)
        BY <3>3, <3>5, <4>1
      <4>2. CASE Owns(w)
        <5>1. /\ completed' = [completed EXCEPT ![cur[w]] = done[w]] /\ cur[w] \in Jobs
              /\ status[cur[w]] # "unused"
          BY <3>0, <3>5, <3>6, <4>2
        <5> HIDE DEF Fenced, Versions
        <5>2. \A j \in Jobs : status'[j] = "unused" => completed'[j] = {}
          BY <3>3, <5>1
        <5>3. \A j \in Jobs : \A m \in completed'[j] : PublishedFor(m, jobVersion[j])
          BY <3>4, <5>1
        <5> QED
          BY <5>2, <5>3
      <4> QED
        BY <4>1, <4>2
    <3>8. \A v \in Workers : pc'[v] \notin {"idle"} =>
            v # w /\ pc'[v] = pc[v] /\ cur'[v] = cur[v] /\ done'[v] = done[v] /\ month'[v] = month[v]
      BY <3>1
    <3> QED
      BY <3>2, <3>7, <3>8, ZenonT(60)
  <2> HIDE DEF Progress
  <2> QED
    BY <1>6, <2>1, <2>2, <2>3, <2>4, <2>5, <2>6, <2>7, <2>8, <2>9, <2>10, <2>11, <2>12,
      <2>13, <2>14, <2>15, <2>16, <2>17, <2>18, <2>19, <2>20 DEF Collect
<1>7. ASSUME NEW w \in Workers, Crash(w) PROVE Progress'
    BY <1>7 DEF Crash, Unlock, Return
<1>8. ASSUME NEW w \in Workers, AbortWorker(w) PROVE Progress'
    BY <1>8 DEF AbortWorker, Unwind, Aim, Unlock, Deadlock, Doomed
<1>9. ASSUME NEW w \in Workers, AbortAdmin(w) PROVE Progress'
    BY <1>9 DEF AbortAdmin, Unlock, Deadlock, Doomed
<1>10. ASSUME NEW op \in {"stop", "rotate", "pause"}, AdminBegin(op) PROVE Progress'
    BY <1>10 DEF AdminBegin
<1>11. ASSUME NEW m \in Months, Bill(m) PROVE Progress'
    BY <1>11 DEF Bill
<1>12. CASE AdminCommit
    BY <1>12 DEF AdminCommit, Unlock, Doomed
<1>13. CASE Resume
    BY <1>13 DEF Resume
<1>14. CASE Approve
    BY <1>14 DEF Approve
<1>15. CASE Tick
    BY <1>15 DEF Tick, Ticking
<1>16. CASE UNCHANGED vars
    BY <1>16 DEF vars
<1> HIDE DEF Progress
<1> QED
    BY <1>1, <1>2, <1>3, <1>4, <1>5, <1>6, <1>7, <1>8, <1>9, <1>10, <1>11, <1>12, <1>13,
      <1>14, <1>15, <1>16 DEF Next

\* A run's window is fixed when it loads the source.
LEMMA CoveredNext == IndInv /\ [Next]_vars => Covered'
<1> SUFFICES ASSUME IndInv, [Next]_vars PROVE Covered'
    OBVIOUS
<1> USE ConstantsAssumption DEF TypeOK, HasMonth, Statuses, Owners, IndInv, Covered, rowVars, sourceVars, jobVars, periodVars, lockVars, localVars, keptVars, boundVars, Goto
<1>1. ASSUME NEW j \in Jobs, NEW months \in {Latest, Months}, Enqueue(j, months) PROVE Covered'
    BY <1>1 DEF Enqueue, Ready
<1>2. ASSUME NEW j \in Jobs, Extend(j) PROVE Covered'
    BY <1>2 DEF Extend, Ready, Free
<1>3. ASSUME NEW j \in Jobs, RecoverExpired(j) PROVE Covered'
    BY <1>3 DEF RecoverExpired, PutBack, Free
<1>4. ASSUME NEW j \in Jobs, AdminTake(j) PROVE Covered'
    BY <1>4 DEF AdminTake, Free, Doomed
<1>5. ASSUME NEW w \in Workers, NEW j \in Jobs, Lease(w, j) PROVE Covered'
    BY <1>5 DEF Lease, Free
<1>6. ASSUME NEW w \in Workers, Collect(w) PROVE Covered'
  <2>1. CASE LoadRefused(w)
      BY <2>1 DEF LoadRefused, PutBack, Owns, Free, Return
  <2>2. CASE Load(w)
      BY <2>2 DEF Load, Window, Refused
  <2>3. ASSUME NEW m \in Months, PickMonth(w, m) PROVE Covered'
      BY <2>3 DEF PickMonth, Pending
  <2>4. CASE PickNone(w)
      BY <2>4 DEF PickNone, Pending, Aim
  <2>5. CASE Request(w)
    <3>1. CASE Live(w)
      <4>1. pc' = [pc EXCEPT ![w] = "response"]
        BY <2>5, <3>1 DEF Request
      <4>2. goal' = goal
        BY <2>5, <3>1 DEF Request
      <4> QED
        BY <2>5, <4>1, <4>2 DEF Request
    <3>2. CASE ~Live(w)
      <4>1. pc' = [pc EXCEPT ![w] = "fence"] /\ goal' = [goal EXCEPT ![w] = "failMonth"]
        BY <2>5, <3>2 DEF Request, Aim
      <4> QED
        BY <2>5, <3>2, <4>1 DEF Request
    <3> QED
      BY <3>1, <3>2
  <2>6. CASE Response(w)
    <3>1. CASE Live(w)
      <4>1. pc' = [pc EXCEPT ![w] = "read"]
        BY <2>6, <3>1 DEF Response
      <4>2. goal' = goal
        BY <2>6, <3>1 DEF Response
      <4> QED
        BY <2>6, <4>1, <4>2 DEF Response
    <3>2. CASE ~Live(w)
      <4>1. pc' = [pc EXCEPT ![w] = "fence"] /\ goal' = [goal EXCEPT ![w] = "failMonth"]
        BY <2>6, <3>2 DEF Response, Aim
      <4> QED
        BY <2>6, <3>2, <4>1 DEF Response
    <3> QED
      BY <3>1, <3>2
  <2>7. CASE RequestFails(w)
      BY <2>7 DEF RequestFails, Aim
  <2>8. CASE ReadPeriod(w)
    <3>1. month[w] \in Months
      BY <2>8 DEF ReadPeriod
    <3>2. base' = [base EXCEPT ![w] = revision[month[w]]]
      BY <2>8 DEF ReadPeriod
    <3>3. pc' = [pc EXCEPT ![w] = "fence"] /\ goal' = [goal EXCEPT ![w] = "publish"]
      BY <2>8 DEF ReadPeriod, Aim
    <3> QED
      BY <2>8, <3>1, <3>2, <3>3 DEF ReadPeriod
  <2>9. CASE FenceJob(w)
      BY <2>9 DEF FenceJob, LockJob, Live, Owns, Free
  <2>10. CASE FenceJobFails(w)
    <3>1. Unwind(w)
      BY <2>10 DEF FenceJobFails
    <3> HIDE DEF Unwind
    <3> QED
      BY <2>10, <3>1, UnwindEffect DEF FenceJobFails, Unlock
  <2>11. CASE FenceSource(w)
      BY <2>11 DEF FenceSource, LockSource, Unchanged
  <2>12. CASE FenceSourceFails(w)
    <3>1. Unwind(w)
      BY <2>12 DEF FenceSourceFails
    <3> HIDE DEF Unwind
    <3> QED
      BY <2>12, <3>1, UnwindEffect DEF FenceSourceFails, Unlock
  <2>13. CASE Publish(w)
      BY <2>13 DEF Publish, Unlock
  <2>14. CASE PublishRefused(w)
    <3>1. Unwind(w)
      BY <2>14 DEF PublishRefused
    <3> HIDE DEF Unwind
    <3> QED
      BY <2>14, <3>1, UnwindEffect, ZenonT(60) DEF PublishRefused, Unlock
  <2>15. CASE FinishRun(w)
      BY <2>15 DEF FinishRun, Unlock
  <2>16. CASE RecordMonthFailure(w)
      BY <2>16 DEF RecordMonthFailure, Aim, Unlock
  <2>17. CASE RecordRunFailure(w)
      BY <2>17 DEF RecordRunFailure, Unlock
  <2>18. CASE SaveProgress(w)
    <3>1. CASE Live(w)
      <4>1. pc' = [pc EXCEPT ![w] = "pick"]
        BY <2>18, <3>1 DEF SaveProgress
      <4>2. goal' = goal
        BY <2>18, <3>1 DEF SaveProgress
      <4> QED
        BY <2>18, <4>1, <4>2 DEF SaveProgress
    <3>2. CASE ~Live(w)
      <4>1. pc' = [pc EXCEPT ![w] = "fence"] /\ goal' = [goal EXCEPT ![w] = "failRun"]
        BY <2>18, <3>2 DEF SaveProgress, Aim
      <4> QED
        BY <2>18, <3>2, <4>1 DEF SaveProgress
    <3> QED
      BY <3>1, <3>2
  <2>19. CASE Complete(w)
      BY <2>19 DEF Complete, Owns, Free, Return
  <2>20. CASE Fail(w)
      BY <2>20 DEF Fail, PutBack, Owns, Free, Reached, Return
  <2> HIDE DEF Covered
  <2> QED
    BY <1>6, <2>1, <2>2, <2>3, <2>4, <2>5, <2>6, <2>7, <2>8, <2>9, <2>10, <2>11, <2>12,
      <2>13, <2>14, <2>15, <2>16, <2>17, <2>18, <2>19, <2>20 DEF Collect
<1>7. ASSUME NEW w \in Workers, Crash(w) PROVE Covered'
    BY <1>7 DEF Crash, Unlock, Return
<1>8. ASSUME NEW w \in Workers, AbortWorker(w) PROVE Covered'
  <2>1. Unwind(w)
    BY <1>8 DEF AbortWorker, Deadlock
  <2> HIDE DEF Unwind
  <2> QED
    BY <1>8, <2>1, UnwindEffect, ZenonT(60) DEF AbortWorker, Deadlock, Unlock
<1>9. ASSUME NEW w \in Workers, AbortAdmin(w) PROVE Covered'
    BY <1>9 DEF AbortAdmin, Unlock, Deadlock, Doomed
<1>10. ASSUME NEW op \in {"stop", "rotate", "pause"}, AdminBegin(op) PROVE Covered'
    BY <1>10 DEF AdminBegin
<1>11. ASSUME NEW m \in Months, Bill(m) PROVE Covered'
    BY <1>11 DEF Bill
<1>12. CASE AdminCommit
    BY <1>12 DEF AdminCommit, Unlock, Doomed
<1>13. CASE Resume
    BY <1>13 DEF Resume
<1>14. CASE Approve
    BY <1>14 DEF Approve
<1>15. CASE Tick
    BY <1>15 DEF Tick, Ticking
<1>16. CASE UNCHANGED vars
    BY <1>16 DEF vars
<1> HIDE DEF Covered
<1> QED
    BY <1>1, <1>2, <1>3, <1>4, <1>5, <1>6, <1>7, <1>8, <1>9, <1>10, <1>11, <1>12, <1>13,
      <1>14, <1>15, <1>16 DEF Next

\* The import is declared done when the window is published.
LEMMA ImportedMeansAllNext == IndInv /\ [Next]_vars => ImportedMeansAll'
<1> SUFFICES ASSUME IndInv, [Next]_vars PROVE ImportedMeansAll'
    OBVIOUS
<1> USE ConstantsAssumption DEF TypeOK, HasMonth, Statuses, Owners, IndInv, Covered, Progress, PublishedFor, ImportedMeansAll, rowVars, sourceVars, jobVars, periodVars, lockVars, localVars, keptVars, boundVars, Goto
<1>1. ASSUME NEW j \in Jobs, NEW months \in {Latest, Months}, Enqueue(j, months) PROVE ImportedMeansAll'
    BY <1>1 DEF Enqueue, Ready
<1>2. ASSUME NEW j \in Jobs, Extend(j) PROVE ImportedMeansAll'
    BY <1>2 DEF Extend, Ready, Free
<1>3. ASSUME NEW j \in Jobs, RecoverExpired(j) PROVE ImportedMeansAll'
    BY <1>3 DEF RecoverExpired, PutBack, Free
<1>4. ASSUME NEW j \in Jobs, AdminTake(j) PROVE ImportedMeansAll'
    BY <1>4 DEF AdminTake, Free, Doomed
<1>5. ASSUME NEW w \in Workers, NEW j \in Jobs, Lease(w, j) PROVE ImportedMeansAll'
    BY <1>5 DEF Lease, Free
<1>6. ASSUME NEW w \in Workers, Collect(w) PROVE ImportedMeansAll'
  <2>1. CASE LoadRefused(w)
      BY <2>1 DEF LoadRefused, PutBack, Owns, Free, Return
  <2>2. CASE Load(w)
      BY <2>2 DEF Load, Window, Refused
  <2>3. ASSUME NEW m \in Months, PickMonth(w, m) PROVE ImportedMeansAll'
      BY <2>3 DEF PickMonth, Pending
  <2>4. CASE PickNone(w)
      BY <2>4 DEF PickNone, Pending, Aim
  <2>5. CASE Request(w)
      BY <2>5 DEF Request, Renew, Aim, Live, Owns, Free
  <2>6. CASE Response(w)
      BY <2>6 DEF Response, Renew, Aim, Live, Owns, Free
  <2>7. CASE RequestFails(w)
      BY <2>7 DEF RequestFails, Aim
  <2>8. CASE ReadPeriod(w)
      BY <2>8 DEF ReadPeriod
  <2>9. CASE FenceJob(w)
      BY <2>9 DEF FenceJob, LockJob, Live, Owns, Free
  <2>10. CASE FenceJobFails(w)
      BY <2>10 DEF FenceJobFails, Unwind, Aim
  <2>11. CASE FenceSource(w)
      BY <2>11 DEF FenceSource, LockSource, Unchanged
  <2>12. CASE FenceSourceFails(w)
      BY <2>12 DEF FenceSourceFails, Unwind, Aim, Unlock
  <2>13. CASE Publish(w)
      BY <2>13 DEF Publish, Unlock
  <2>14. CASE PublishRefused(w)
      BY <2>14 DEF PublishRefused, Unwind, Aim, Unlock
  <2>15. CASE FinishRun(w)
    <3>1. imported \/ todo[w] = Months
      BY <2>15 DEF FinishRun
    <3>2. todo[w] \subseteq done[w] /\ cur[w] \in Jobs
      BY <2>15 DEF FinishRun
    <3>3. \A m \in done[w] : revision[m] > 0
      BY <2>15, <3>2 DEF FinishRun
    <3>4. \A m \in Months : revision[m] > 0
      BY <3>1, <3>2, <3>3
    <3> QED
      BY <2>15, <3>4 DEF FinishRun
  <2>16. CASE RecordMonthFailure(w)
      BY <2>16 DEF RecordMonthFailure, Aim, Unlock
  <2>17. CASE RecordRunFailure(w)
      BY <2>17 DEF RecordRunFailure, Unlock
  <2>18. CASE SaveProgress(w)
      BY <2>18 DEF SaveProgress, Live, Owns, Free, Renew, Aim
  <2>19. CASE Complete(w)
      BY <2>19 DEF Complete, Owns, Free, Return
  <2>20. CASE Fail(w)
      BY <2>20 DEF Fail, PutBack, Owns, Free, Reached, Return
  <2> HIDE DEF ImportedMeansAll
  <2> QED
    BY <1>6, <2>1, <2>2, <2>3, <2>4, <2>5, <2>6, <2>7, <2>8, <2>9, <2>10, <2>11, <2>12,
      <2>13, <2>14, <2>15, <2>16, <2>17, <2>18, <2>19, <2>20 DEF Collect
<1>7. ASSUME NEW w \in Workers, Crash(w) PROVE ImportedMeansAll'
    BY <1>7 DEF Crash, Unlock, Return
<1>8. ASSUME NEW w \in Workers, AbortWorker(w) PROVE ImportedMeansAll'
    BY <1>8 DEF AbortWorker, Unwind, Aim, Unlock, Deadlock, Doomed
<1>9. ASSUME NEW w \in Workers, AbortAdmin(w) PROVE ImportedMeansAll'
    BY <1>9 DEF AbortAdmin, Unlock, Deadlock, Doomed
<1>10. ASSUME NEW op \in {"stop", "rotate", "pause"}, AdminBegin(op) PROVE ImportedMeansAll'
    BY <1>10 DEF AdminBegin
<1>11. ASSUME NEW m \in Months, Bill(m) PROVE ImportedMeansAll'
    BY <1>11 DEF Bill
<1>12. CASE AdminCommit
    BY <1>12 DEF AdminCommit, Unlock, Doomed
<1>13. CASE Resume
    BY <1>13 DEF Resume
<1>14. CASE Approve
    BY <1>14 DEF Approve
<1>15. CASE Tick
    BY <1>15 DEF Tick, Ticking
<1>16. CASE UNCHANGED vars
    BY <1>16 DEF vars
<1> HIDE DEF ImportedMeansAll
<1> QED
    BY <1>1, <1>2, <1>3, <1>4, <1>5, <1>6, <1>7, <1>8, <1>9, <1>10, <1>11, <1>12, <1>13,
      <1>14, <1>15, <1>16 DEF Next

\* The inductive invariant holds in every reachable state.
LEMMA Invariance == Spec => []IndInv
<1>1. Init => IndInv
  <2> SUFFICES ASSUME Init PROVE IndInv
    OBVIOUS
  <2>1. TypeOK
    BY TypeInit
  <2>2. AdminHolds /\ OneLeased /\ Fenced
    BY DEF Init, AdminHolds, OneLeased, Fenced
  <2>3. UpToDate /\ Versions
    BY ConstantsAssumption DEF Init, UpToDate, Publishing, Versions
  <2>4. Progress /\ Covered /\ ImportedMeansAll
    BY DEF Init, Progress, Covered, ImportedMeansAll
  <2> QED
    BY <2>1, <2>2, <2>3, <2>4 DEF IndInv
<1>2. IndInv /\ [Next]_vars => IndInv'
  <2>1. IndInv /\ [Next]_vars => TypeOK'
    BY TypeNext DEF IndInv
  <2> QED
    BY <2>1, AdminHoldsNext, OneLeasedNext, FencedNext, UpToDateNext, VersionsNext,
       ProgressNext, CoveredNext, ImportedMeansAllNext DEF IndInv
<1> QED
  BY <1>1, <1>2, PTL DEF Spec

-----------------------------------------------------------------------------
(* What is promised                                                         *)

\* A connection is declared imported only with every month of its window published.
THEOREM ImportIsComplete == Spec => []ImportedMeansAll
<1>1. IndInv => ImportedMeansAll
  BY DEF IndInv
<1> QED
  BY <1>1, Invariance, PTL

\* A retry that resumes from the saved progress skips only published months.
THEOREM ResumeSkipsNothing == Spec => []ProgressIsPublished
<1>1. IndInv => ProgressIsPublished
  BY DEF IndInv, Progress, PublishedFor, ProgressIsPublished
<1> QED
  BY <1>1, Invariance, PTL

\* No publication and no record of a failure.
Quiet == UNCHANGED periodVars /\ \A v \in Workers : pc'[v] = "save" => pc[v] = "save"

\* The periods and their rows change in two transactions only.
LEMMA PeriodSteps ==
    ASSUME TypeOK, [Next]_vars
    PROVE  Quiet \/ \E w \in Workers : Publish(w) \/ RecordMonthFailure(w)
<1> USE DEF Quiet, rowVars
<1>1. ASSUME NEW w \in Workers, Collect(w) PROVE Quiet \/ Publish(w) \/ RecordMonthFailure(w)
  <2> USE DEF TypeOK, Goto, Aim, Return
  <2>1. CASE LoadRefused(w) \/ Load(w) \/ \E m \in Months : PickMonth(w, m)
    BY <2>1 DEF LoadRefused, Load, PickMonth
  <2>2. CASE PickNone(w) \/ RequestFails(w) \/ ReadPeriod(w)
    BY <2>2 DEF PickNone, RequestFails, ReadPeriod
  <2>3. CASE Request(w)
    BY <2>3 DEF Request
  <2>4. CASE Response(w)
    BY <2>4 DEF Response
  <2>5. CASE FenceJob(w) \/ FenceSource(w) \/ FinishRun(w) \/ RecordRunFailure(w)
    BY <2>5 DEF FenceJob, FenceSource, FinishRun, RecordRunFailure
  <2>6. CASE FenceJobFails(w) \/ FenceSourceFails(w) \/ PublishRefused(w)
    <3>1. Unwind(w) /\ UNCHANGED periodVars
      BY <2>6 DEF FenceJobFails, FenceSourceFails, PublishRefused
    <3> QED
      BY <3>1, UnwindEffect
  <2>7. CASE SaveProgress(w)
    BY <2>7 DEF SaveProgress
  <2>8. CASE Complete(w) \/ Fail(w)
    BY <2>8 DEF Complete, Fail
  <2> QED
    BY <1>1, <2>1, <2>2, <2>3, <2>4, <2>5, <2>6, <2>7, <2>8 DEF Collect
<1>2. ASSUME NEW w \in Workers, AbortWorker(w) PROVE Quiet
  <2>1. Unwind(w) /\ UNCHANGED periodVars
    BY <1>2 DEF AbortWorker
  <2> QED
    BY <2>1, UnwindEffect DEF TypeOK
<1>3. ASSUME NEW w \in Workers, Crash(w) \/ AbortAdmin(w) PROVE Quiet
  BY <1>3 DEF Crash, AbortAdmin, Return, Goto, TypeOK
<1>4. ASSUME NEW j \in Jobs, Extend(j) \/ RecoverExpired(j) \/ AdminTake(j) PROVE Quiet
  BY <1>4 DEF Extend, RecoverExpired, AdminTake
<1>5. ASSUME NEW j \in Jobs, NEW months \in {Latest, Months}, Enqueue(j, months) PROVE Quiet
  BY <1>5 DEF Enqueue
<1>6. ASSUME NEW w \in Workers, NEW j \in Jobs, Lease(w, j) PROVE Quiet
  BY <1>6 DEF Lease, TypeOK
<1>7. ASSUME NEW op \in {"stop", "rotate", "pause"}, AdminBegin(op) PROVE Quiet
  BY <1>7 DEF AdminBegin
<1>8. ASSUME NEW m \in Months, Bill(m) PROVE Quiet
  BY <1>8 DEF Bill
<1>9. CASE AdminCommit \/ Resume \/ Approve \/ Tick
  BY <1>9 DEF AdminCommit, Resume, Approve, Tick
<1>10. CASE UNCHANGED vars
  BY <1>10 DEF vars
<1> HIDE DEF Quiet
<1> QED
  BY <1>1, <1>2, <1>3, <1>4, <1>5, <1>6, <1>7, <1>8, <1>9, <1>10 DEF Next

\* What a publication writes, by a worker that owns its job and found the source as it is.
LEMMA PublishEffect ==
    ASSUME IndInv, NEW w \in Workers, Publish(w)
    PROVE  /\ month[w] \in Months /\ enabled /\ approved
           /\ coverage' = [coverage EXCEPT ![month[w]] = "complete"]
           /\ revision' = [revision EXCEPT ![month[w]] = revision[month[w]] + 1]
           /\ provenance' = [provenance EXCEPT ![month[w]] = version]
           /\ costs' = [costs EXCEPT ![month[w]] = fetched[w]]
           /\ costs[month[w]] <= fetched[w]
<1>1. pc[w] = "commit" /\ goal[w] = "publish" /\ month[w] \in Months
  BY DEF Publish, IndInv, TypeOK, HasMonth
<1>2. Current(w) /\ enabled /\ approved /\ seen[w] = version
  BY <1>1 DEF IndInv, Fenced
<1>3. base[w] = revision[month[w]] /\ costs[month[w]] <= fetched[w]
  BY <1>1, <1>2 DEF IndInv, UpToDate, Publishing
<1> QED
  BY <1>1, <1>2, <1>3 DEF Publish

\* A failure is recorded for the month of a worker that owns its job.
LEMMA FailureEffect ==
    ASSUME IndInv, NEW w \in Workers, RecordMonthFailure(w)
    PROVE  /\ Current(w) /\ month[w] \in Months /\ pc'[w] # "save"
           /\ \A v \in Workers \ {w} : pc'[v] = pc[v]
           /\ \E s \in {"partial", "failed"} : coverage' = [coverage EXCEPT ![month[w]] = s]
           /\ UNCHANGED <<revision, costs, provenance>>
<1>1. pc[w] = "commit" /\ goal[w] = "failMonth" /\ month[w] \in Months
  BY DEF RecordMonthFailure, IndInv, TypeOK, HasMonth
<1>2. Current(w)
  BY <1>1 DEF IndInv, Fenced
<1>3. coverage' = [coverage EXCEPT ![month[w]] = IF wasComplete[w] THEN "partial" ELSE "failed"]
  BY DEF RecordMonthFailure
<1> QED
  BY <1>1, <1>2, <1>3 DEF RecordMonthFailure, Aim, Goto, IndInv, TypeOK

\* A publication is never lost from the count of revisions.
THEOREM RevisionsCount == Spec => RevisionCountsPublications
<1>1. ASSUME IndInv, [Next]_vars, NEW w \in Workers, pc[w] = "commit", pc'[w] = "save"
      PROVE  revision'[month[w]] = revision[month[w]] + 1
  <2>1. TypeOK
    BY <1>1 DEF IndInv
  <2>2. ~Quiet
    BY <1>1 DEF Quiet
  <2>3. PICK v \in Workers : Publish(v) \/ RecordMonthFailure(v)
    BY <1>1, <2>1, <2>2, PeriodSteps
  <2>4. CASE RecordMonthFailure(v)
    BY <1>1, <2>4, FailureEffect
  <2>5. CASE Publish(v)
    <3>1. v = w
      BY <1>1, <2>1, <2>5 DEF Publish, Goto, TypeOK
    <3> QED
      BY <1>1, <2>1, <2>5, <3>1, PublishEffect DEF TypeOK
  <2> QED
    BY <2>3, <2>4, <2>5
<1>2. IndInv /\ [Next]_vars =>
        \A w \in Workers : pc[w] = "commit" /\ pc'[w] = "save"
            => revision'[month[w]] = revision[month[w]] + 1
  BY <1>1
<1> QED
  BY <1>2, Invariance, PTL DEF Spec, RevisionCountsPublications

\* Costs are never replaced by older ones.
THEOREM NewestKept == Spec => NewestDataWins
<1>1. ASSUME IndInv, [Next]_vars, NEW m \in Months PROVE costs'[m] >= costs[m]
  <2>1. TypeOK /\ costs[m] \in Nat
    BY <1>1, ConstantsAssumption DEF IndInv, TypeOK
  <2>2. CASE Quiet
    BY <2>1, <2>2 DEF Quiet, periodVars
  <2>3. ASSUME NEW w \in Workers, Publish(w) PROVE costs'[m] >= costs[m]
    <3>1. costs[month[w]] <= fetched[w] /\ costs' = [costs EXCEPT ![month[w]] = fetched[w]]
      BY <1>1, <2>3, PublishEffect
    <3>2. CASE m = month[w]
      <4>1. costs'[m] = fetched[w] /\ fetched[w] \in 0..MaxUsage
        BY <2>1, <3>1, <3>2 DEF TypeOK
      <4> QED
        BY <2>1, <3>1, <3>2, <4>1, ConstantsAssumption
    <3>3. CASE m # month[w]
      BY <2>1, <3>1, <3>3 DEF TypeOK
    <3> QED
      BY <3>2, <3>3
  <2>4. ASSUME NEW w \in Workers, RecordMonthFailure(w) PROVE costs'[m] >= costs[m]
    BY <1>1, <2>1, <2>4, FailureEffect
  <2> QED
    BY <1>1, <2>1, <2>2, <2>3, <2>4, PeriodSteps
<1>2. IndInv /\ [Next]_vars => \A m \in Months : costs'[m] >= costs[m]
  BY <1>1
<1> QED
  BY <1>2, Invariance, PTL DEF Spec, NewestDataWins

\* Costs are published only for the source as it is when they are.
THEOREM PublicationFenced == Spec => NoStalePublication
<1>1. ASSUME IndInv, [Next]_vars, NEW m \in Months, revision'[m] # revision[m]
      PROVE  enabled /\ approved /\ provenance'[m] = version
  <2>1. TypeOK
    BY <1>1 DEF IndInv
  <2>2. ~Quiet
    BY <1>1 DEF Quiet, periodVars
  <2>3. PICK w \in Workers : Publish(w) \/ RecordMonthFailure(w)
    BY <1>1, <2>1, <2>2, PeriodSteps
  <2>4. ~RecordMonthFailure(w)
    BY <1>1, FailureEffect
  <2>5. m = month[w]
    BY <1>1, <2>1, <2>3, <2>4, PublishEffect DEF TypeOK
  <2> QED
    BY <1>1, <2>1, <2>3, <2>4, <2>5, PublishEffect DEF TypeOK
<1>2. IndInv /\ [Next]_vars =>
        \A m \in Months : revision'[m] # revision[m] =>
            enabled /\ approved /\ provenance'[m] = version
  BY <1>1
<1> QED
  BY <1>2, Invariance, PTL DEF Spec, NoStalePublication

\* Only the worker that has the lease marks a month as failed.
THEOREM FailuresAreCurrent == Spec => FailureIsCurrent
<1>1. ASSUME IndInv, [Next]_vars, NEW m \in Months,
             coverage'[m] # coverage[m], coverage'[m] # "complete"
      PROVE  \E w \in Workers : Current(w) /\ month[w] = m
  <2>1. TypeOK
    BY <1>1 DEF IndInv
  <2>2. ~Quiet
    BY <1>1 DEF Quiet, periodVars
  <2>3. PICK w \in Workers : Publish(w) \/ RecordMonthFailure(w)
    BY <1>1, <2>1, <2>2, PeriodSteps
  <2>4. ~Publish(w)
    BY <1>1, <2>1, PublishEffect DEF TypeOK
  <2>5. m = month[w] /\ Current(w)
    BY <1>1, <2>1, <2>3, <2>4, FailureEffect DEF TypeOK
  <2> QED
    BY <2>5
<1>2. IndInv /\ [Next]_vars =>
        \A m \in Months : coverage'[m] # coverage[m] /\ coverage'[m] # "complete" =>
            \E w \in Workers : Current(w) /\ month[w] = m
  BY <1>1
<1> QED
  BY <1>2, Invariance, PTL DEF Spec, FailureIsCurrent
=============================================================================
