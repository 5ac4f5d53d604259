------------------------------ MODULE Scheduler ------------------------------
(***************************************************************************)
(* When the data of one connection is pulled (billing/scheduler.py): the   *)
(* six-hour slots of the scheduler ticks, the pulls people ask for, the     *)
(* worker that runs the jobs.  The worker's tick and the legacy cron        *)
(* command schedule too, so that there may be two schedulers at a time.     *)
(* How jobs are leased and retried is JobQueue's; here a lease is one step. *)
(***************************************************************************)
EXTENDS Naturals, Sequences, FiniteSets

CONSTANTS
    Schedulers,      \* processes that call schedule_due
    Clients,         \* requests of people: one pull each
    Nobody,
    MaxSlots,        \* bound: slots
    MaxJobs,         \* bound: rows of the job table
    MaxAttempts,     \* attempts of a job
    History,         \* HISTORY_MONTHS
    FullMonths,      \* what sync_costs --full asks for
    Reconciles       \* months a slot may refresh: the previous, RECONCILE_MONTHS, HISTORY_MONTHS

SchedulerAssumption ==
    /\ Schedulers \cap Clients = {} /\ Nobody \notin Schedulers \cup Clients
    /\ {MaxSlots, MaxAttempts, History, FullMonths} \subseteq Nat \ {0} /\ MaxJobs \in Nat
    /\ Reconciles \subseteq 1..History

VARIABLES
    slot,            \* the slot of now
    reconcile,       \* reconcile[s]: reconcile_months of slot s
    ready,           \* collection_readiness: enabled, verified, approved, discovered
    initialized,     \* initial_import_done
    last,            \* slot of the last success of each kind, 0 for never
    srcLock,         \* the process whose transaction locks the source row
    table,           \* the job table of the source, in the order of created_at
    txn,             \* the transaction of each process
    answer           \* what a client asked for and the job it was told of

source == <<ready, initialized, last, srcLock>>
clock == <<slot, reconcile>>
vars == <<clock, source, table, txn, answer>>

Kinds == <<"collect", "import_budgets">>
KindNames == {"collect", "import_budgets"}
Slots == 1..MaxSlots
Months == Reconciles \cup {1, History, FullMonths}
Processes == Schedulers \cup Clients
Active == {"queued", "leased"}
Rows == 1..Len(table)

\* The key of a job: the slot's for the scheduler and for a first pull, else by suffix.
SlotKey(kind, s) == <<kind, "slot", s>>
Key(kind, suffix) == <<kind, suffix, 0>>

NoTxn == [step |-> "none", at |-> 1, now |-> 0, months |-> 0, initial |-> FALSE, seen |-> 0, leased |-> FALSE]
NoAnswer == [months |-> 0, job |-> 0]

TypeOK ==
    /\ slot \in Slots /\ reconcile \in [Slots -> Reconciles]
    /\ ready \in BOOLEAN /\ initialized \in BOOLEAN /\ last \in [KindNames -> 0..MaxSlots]
    /\ srcLock \in Processes \cup {Nobody}
    /\ Len(table) <= MaxJobs
    /\ \A j \in Rows : /\ table[j].kind \in KindNames /\ table[j].months \in Months
                       /\ table[j].read \in Months \cup {0} /\ table[j].saved \in BOOLEAN
                       /\ table[j].status \in Active \cup {"done", "failed", "deleted"}
                       /\ table[j].attempts \in 0..MaxAttempts
    /\ \A p \in Processes : txn[p].step \in {"none", "look", "write"} /\ txn[p].seen \in 0..Len(table)
    /\ \A c \in Clients : answer[c].job \in 0..Len(table)

Init ==
    /\ slot = 1 /\ reconcile \in [Slots -> Reconciles]
    /\ ready \in BOOLEAN /\ initialized \in BOOLEAN
    /\ last = [k \in KindNames |-> 0] /\ srcLock = Nobody
    /\ table = <<>> /\ txn = [p \in Processes |-> NoTxn] /\ answer = [c \in Clients |-> NoAnswer]

-----------------------------------------------------------------------------
(* jobs.enqueue, in a transaction that holds the source row.                *)

ActiveRows(key) == {j \in Rows : table[j].key = key /\ table[j].status \in Active}
Earliest(S) == CHOOSE j \in S : \A i \in S : j <= i
Latest(S) == CHOOSE j \in S : \A i \in S : j >= i
NewRow(kind, key, months) ==
    [kind |-> kind, key |-> key, months |-> months, status |-> "queued", attempts |-> 0,
     read |-> 0, saved |-> FALSE]

\* A mutant: the scheduler's keys are looked up among the active rows only.
Existing_Active(key, once) == IF ActiveRows(key) # {} THEN Earliest(ActiveRows(key)) ELSE 0

\* The row a call returns; a call with "once" accepts the rows of the key that are settled.
Existing(key, once) ==
    IF once /\ \E j \in Rows : table[j].key = key
    THEN Latest({j \in Rows : table[j].key = key})
    ELSE IF ActiveRows(key) # {} THEN Earliest(ActiveRows(key)) ELSE 0

Enqueued(kind, key, months, once) ==
    IF Existing(key, once) # 0 THEN table ELSE Append(table, NewRow(kind, key, months))
EnqueuedRow(key, once) == IF Existing(key, once) # 0 THEN Existing(key, once) ELSE Len(table) + 1

\* _pending_job
Pending(kind) ==
    LET found == {j \in Rows : table[j].kind = kind /\ table[j].status \in Active}
    IN IF found = {} THEN 0 ELSE Earliest(found)

-----------------------------------------------------------------------------
(* The transactions of schedule_due and _request_pull: lock and check the   *)
(* source, then for each kind look for a pending job and write.             *)

Begin(p, months, initial) ==
    /\ txn[p].step = "none" /\ srcLock = Nobody /\ ready
    /\ srcLock' = p
    /\ txn' = [txn EXCEPT ![p] = [NoTxn EXCEPT !.step = "look", !.now = slot, !.months = months,
                                               !.initial = initial \/ ~initialized]]
    /\ UNCHANGED <<clock, ready, initialized, last, table, answer>>

Tick(p) == p \in Schedulers /\ Begin(p, reconcile[slot], FALSE)

Request(c, months, initial) ==
    c \in Clients /\ answer[c] = NoAnswer /\ Begin(c, IF initial \/ ~initialized THEN History ELSE months, initial)

\* A mutant: a tick pulls only what was never pulled.
Due_Initial(p, kind) == p \in Clients \/ txn[p].initial

\* A tick passes over a kind whose pull of this slot has succeeded.
Due(p, kind) == p \in Clients \/ txn[p].initial \/ last[kind] < txn[p].now

Look(p) ==
    /\ txn[p].step = "look"
    /\ LET kind == Kinds[txn[p].at] IN
       LET j == IF Due(p, kind) THEN Pending(kind) ELSE 0 IN
       txn' = [txn EXCEPT ![p].step = "write", ![p].seen = j,
                          ![p].leased = (j # 0) /\ (table[j].status = "leased")]
    /\ UNCHANGED <<clock, source, table, answer>>

\* The next kind, or the commit.
Proceed(p) ==
    IF txn[p].at = Len(Kinds)
    THEN txn' = [txn EXCEPT ![p] = NoTxn] /\ srcLock' = Nobody
    ELSE txn' = [txn EXCEPT ![p].at = @ + 1, ![p].step = "look", ![p].seen = 0] /\ srcLock' = srcLock

\* _schedule_source for one kind
WriteTick(p) ==
    /\ p \in Schedulers /\ txn[p].step = "write" /\ Len(table) < MaxJobs
    /\ LET t == txn[p] kind == Kinds[t.at]
           key == SlotKey(kind, t.now) months == IF t.initial THEN History ELSE t.months IN
       table' = IF Due(p, kind) /\ t.seen = 0 THEN Enqueued(kind, key, months, TRUE) ELSE table
    /\ Proceed(p)
    /\ UNCHANGED <<clock, ready, initialized, last, answer>>

\* _request_pull for one kind: a queued shorter pull is extended, a running one is not
\* enough and a backfill is queued behind it.
WriteRequest(p) ==
    /\ p \in Clients /\ txn[p].step = "write" /\ Len(table) < MaxJobs
    /\ LET t == txn[p] kind == Kinds[t.at]
           short == t.seen # 0 /\ kind = "collect" /\ t.months > table[t.seen].months
           extend == short /\ ~t.leased
           backfill == short /\ t.leased
           key == IF t.initial /\ ~backfill THEN SlotKey(kind, slot)
                  ELSE Key(kind, IF backfill THEN "backfill" ELSE "manual")
           kept == t.seen # 0 /\ ~backfill
           row == IF kept THEN t.seen ELSE EnqueuedRow(key, FALSE) IN
       /\ table' = IF extend THEN [table EXCEPT ![t.seen].months = t.months]
                   ELSE IF kept THEN table ELSE Enqueued(kind, key, t.months, FALSE)
       /\ answer' = IF t.at = 1 THEN [answer EXCEPT ![p] = [months |-> t.months, job |-> row]] ELSE answer
    /\ Proceed(p)
    /\ UNCHANGED <<clock, ready, initialized, last>>

-----------------------------------------------------------------------------
(* The worker, the administrator and time.                                  *)

\* A mutant: a job is claimed without the source row.
Lease_Unlocked(j) ==
    /\ table[j].status = "queued"
    /\ \A i \in Rows : table[i].status # "leased"
    /\ table' = [table EXCEPT ![j].status = "leased", ![j].attempts = @ + 1,
          ![j].read = IF table[j].kind = "collect" /\ ~initialized THEN History ELSE table[j].months]
    /\ UNCHANGED <<clock, source, txn, answer>>

\* A source whose row is locked, or that has a leased job, is passed over.
Lease(j) ==
    /\ table[j].status = "queued" /\ srcLock = Nobody
    /\ \A i \in Rows : table[i].status # "leased"
    /\ table' = [table EXCEPT ![j].status = "leased", ![j].attempts = @ + 1,
          ![j].read = IF table[j].kind = "collect" /\ ~initialized THEN History ELSE table[j].months]
    /\ UNCHANGED <<clock, source, txn, answer>>

\* The pull is published and the source says so, in a transaction of its own.
Succeed(j) ==
    /\ table[j].status = "leased" /\ ~table[j].saved /\ ready /\ srcLock = Nobody
    /\ table' = [table EXCEPT ![j].saved = TRUE]
    /\ last' = [last EXCEPT ![table[j].kind] = slot]
    /\ initialized' = (initialized \/ table[j].kind = "collect")
    /\ UNCHANGED <<clock, ready, srcLock, txn, answer>>

Complete(j) ==
    /\ table[j].status = "leased" /\ table[j].saved
    /\ table' = [table EXCEPT ![j].status = "done"]
    /\ UNCHANGED <<clock, source, txn, answer>>

\* A failure is retried unless it is permanent: attempts exhausted, or the source paused.
Fail(j) ==
    /\ table[j].status = "leased" /\ ~table[j].saved
    /\ table' = [table EXCEPT ![j].status =
                    IF ready /\ table[j].attempts < MaxAttempts THEN "queued" ELSE "failed"]
    /\ UNCHANGED <<clock, source, txn, answer>>

\* set_paused: the source, then its queued jobs.
Pause ==
    /\ ready /\ srcLock = Nobody
    /\ ready' = FALSE
    /\ table' = [j \in Rows |-> IF table[j].status = "queued" THEN [table[j] EXCEPT !.status = "deleted"]
                                ELSE table[j]]
    /\ UNCHANGED <<clock, initialized, last, srcLock, txn, answer>>

NextSlot ==
    /\ slot < MaxSlots /\ slot' = slot + 1
    /\ UNCHANGED <<reconcile, source, table, txn, answer>>

Worker == \E j \in Rows : Lease(j) \/ Succeed(j) \/ Complete(j) \/ Fail(j)
Scheduling == \E p \in Schedulers : Tick(p) \/ Look(p) \/ WriteTick(p)

\* Who asks: the refresh of a customer's connections, the buttons of one connection, the
\* cron command with its --customer and --full.
RequestSync(c) == Request(c, 1, FALSE)
SourceAction(c) == Request(c, 1, FALSE) \/ Request(c, History, TRUE)
SyncCosts(c) == \E months \in {1, FullMonths} : Request(c, months, FALSE)
Asking == \E c \in Clients : RequestSync(c) \/ SourceAction(c) \/ SyncCosts(c) \/ Look(c) \/ WriteRequest(c)

Next == Worker \/ Scheduling \/ Asking \/ Pause \/ NextSlot

Spec == Init /\ [][Next]_vars

\* The worker's tick comes again every 30 seconds and every transaction ends; a worker
\* that keeps polling finds the source row free, since ticks hold it only for a moment.
Fairness ==
    /\ WF_vars(\E p \in Schedulers : Tick(p)) /\ SF_vars(Worker)
    /\ WF_vars(\E p \in Processes : Look(p) \/ WriteTick(p) \/ WriteRequest(p))

FairSpec == Spec /\ Fairness

-----------------------------------------------------------------------------
\* A request is answered with a job that pulls at least the months asked for: whatever
\* the job had read when it was leased, the payload of a running job is not what counts.
RequestIsServed ==
    \A c \in Clients : LET j == answer[c].job IN
        j # 0 /\ table[j].status \in {"leased", "done"} => table[j].read >= answer[c].months

\* Two schedulers and a pull that ends between their steps: one row for each kind and
\* slot, unless a person asked again, and none for a pull that already succeeded.
SlotPulledOnce ==
    \A p \in Schedulers : txn[p].step = "write" /\ txn'[p] # txn[p] /\ Len(table') > Len(table) =>
       LET new == table'[Len(table')] IN
          /\ last[new.kind] < txn[p].now \/ ~initialized
          /\ \A j \in Rows : table[j].key # new.key
\* A connection that stays ready is pulled in its slot, by the tick or by whoever asked
\* first, unless the attempts of a job ran out.
SlotIsPulled ==
    \A s \in Slots :
        (ready /\ slot = s) ~> \/ ~ready \/ slot > s \/ last["collect"] >= s
                                \/ \E j \in Rows : table[j].kind = "collect" /\ table[j].status = "failed"
=============================================================================
