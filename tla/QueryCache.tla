------------------------------ MODULE QueryCache ------------------------------
(***************************************************************************)
(* The cache of Cost Explorer answers of one connection (query_cache.py).  *)
(* A page creates or asks for a query, whose fingerprint holds the         *)
(* connection's settings and the user's scope; a refresh job of the        *)
(* on-demand key or of a six-hour slot selects the requested queries, asks *)
(* AWS and stores each answer under a fence, while the connection is       *)
(* rotated, paused or stopped and the user's memberships change.           *)
(***************************************************************************)
EXTENDS Naturals

CONSTANTS
    MaxKey,         \* bound: connection keys (version, external ID, role, ownership version)
    MaxScope,       \* bound: scopes of the user
    MaxCrashes      \* bound: workers that die

QueryCacheAssumption == MaxKey \in Nat \ {0} /\ MaxScope \in Nat \ {0} /\ MaxCrashes \in Nat

Queries == [key : 1..MaxKey, scope : 1..MaxScope]
Kinds == {"ondemand", "scheduled"}
Absent == [known |-> FALSE, requested |-> FALSE, recent |-> FALSE, data |-> FALSE]
Entries == [known : BOOLEAN, requested : BOOLEAN, recent : BOOLEAN, data : BOOLEAN]
NoQuery == [key |-> 0, scope |-> 0]

VARIABLES
    key, enabled,   \* connection_key and enabled of the source
    scope,          \* scope_fingerprint of the user
    cache,          \* the ExplorerQuery rows; recent: attempted since the last slot
    queued,         \* the refresh jobs waiting
    page,           \* the request that looks a query up: the query and what it read of it
    worker,         \* the job that runs: its kind, copy of the connection key, batch, query
    wiped,          \* history: queries an offboarding emptied
    crashes

source == <<key, enabled>>
vars == <<source, scope, cache, queued, page, worker, wiped, crashes>>

NoPage == [query |-> NoQuery, requested |-> FALSE]
NoJob == [step |-> "idle", kind |-> "none", seen |-> 0, batch |-> {}, query |-> NoQuery]

TypeOK ==
    /\ key \in 1..MaxKey /\ enabled \in BOOLEAN /\ scope \in 1..MaxScope
    /\ cache \in [Queries -> Entries]
    /\ queued \subseteq Kinds
    /\ page \in [query : Queries \cup {NoQuery}, requested : BOOLEAN]
    /\ worker \in [step : {"idle", "loaded", "batch", "asking", "answered"}, kind : Kinds \cup {"none"},
                   seen : 0..MaxKey, batch : SUBSET Queries, query : Queries \cup {NoQuery}]
    /\ wiped \subseteq Queries /\ crashes \in 0..MaxCrashes

Init ==
    /\ key = 1 /\ enabled = TRUE /\ scope = 1
    /\ cache = [q \in Queries |-> Absent]
    /\ queued = {} /\ page = NoPage /\ worker = NoJob /\ wiped = {} /\ crashes = 0

Requested == {q \in Queries : cache[q].requested}

----------------------------------------------------------------------------
(* A page: get_query in one transaction.  The row is written from what was *)
(* read of it.                                                             *)
LookUp ==
    /\ page = NoPage
    /\ LET q == [key |-> key, scope |-> scope]
       IN  page' = [query |-> q, requested |-> cache[q].requested \/ ~cache[q].recent]
    /\ UNCHANGED <<source, scope, cache, queued, worker, wiped, crashes>>

\* enqueue: one active job of the on-demand key, without the connection's version in it.
Coalesced(kind) == worker.step # "idle" /\ worker.kind = kind

GetQuery ==
    /\ page # NoPage
    /\ cache' = [cache EXCEPT ![page.query].known = TRUE, ![page.query].requested = page.requested]
    /\ queued' = IF page.requested /\ ~Coalesced("ondemand") THEN queued \cup {"ondemand"} ELSE queued
    /\ page' = NoPage
    /\ UNCHANGED <<source, scope, worker, wiped, crashes>>

\* refresh_costs asks again for the queries its page has looked up, recent or not, once it
\* has requested a pull: it makes no refresh job for them, and what it read of the
\* connection may have changed.
RefreshCosts(q) ==
    /\ cache[q].known
    /\ cache' = [cache EXCEPT ![q].requested = TRUE]
    /\ UNCHANGED <<source, scope, queued, page, worker, wiped, crashes>>

\* schedule_due at a new slot, six hours after the last.
Slot ==
    /\ enabled /\ ~Coalesced("scheduled")
    /\ queued' = queued \cup {"scheduled"}
    /\ cache' = [q \in Queries |-> [cache[q] EXCEPT !.recent = FALSE]]
    /\ UNCHANGED <<source, scope, page, worker, wiped, crashes>>

----------------------------------------------------------------------------
(* The refresh job. *)
Lease(kind) ==
    /\ worker = NoJob /\ kind \in queued
    /\ queued' = queued \ {kind}
    /\ worker' = IF enabled THEN [NoJob EXCEPT !.step = "loaded", !.kind = kind] ELSE NoJob
    /\ UNCHANGED <<source, scope, cache, page, wiped, crashes>>

\* Mutant: a job of a slot repeats only what was answered before.
Selected_Scheduled(rows) ==
    {q \in Queries : enabled /\ rows[q].requested /\ (worker.kind = "scheduled" => rows[q].data)}

\* The batch, whose rows carry the connection as it is now.
Selected(rows) == {q \in Queries : enabled /\ rows[q].requested}

SelectBatch ==
    /\ worker.step = "loaded"
    /\ LET Renew(q) == worker.kind = "scheduled" /\ enabled /\ cache[q].known /\ ~cache[q].recent
           rows == [q \in Queries |-> [cache[q] EXCEPT !.requested = @ \/ Renew(q)]]
       IN  /\ cache' = rows
           /\ worker' = [worker EXCEPT !.step = "batch", !.batch = Selected(rows), !.seen = key]
    /\ UNCHANGED <<source, scope, queued, page, wiped, crashes>>

Authorized(q) == q.scope = scope

Settled(q) == [worker EXCEPT !.step = "batch", !.batch = @ \ {q}, !.query = NoQuery]

Take(q) ==
    /\ worker.step = "batch" /\ q \in worker.batch
    /\ IF ~Authorized(q)
       THEN /\ cache' = [cache EXCEPT ![q].requested = FALSE, ![q].data = FALSE]
            /\ worker' = Settled(q)
       ELSE IF worker.seen # q.key
       THEN cache' = [cache EXCEPT ![q].requested = FALSE] /\ worker' = Settled(q)
       ELSE /\ cache' = [cache EXCEPT ![q].recent = TRUE]
            /\ worker' = [worker EXCEPT !.step = "asking", !.query = q]
    /\ UNCHANGED <<source, scope, queued, page, wiped, crashes>>

\* AWS answers or refuses; the refusal keeps the data and ends the request.
Ask ==
    /\ worker.step = "asking"
    /\ \/ worker' = [worker EXCEPT !.step = "answered"] /\ cache' = cache
       \/ /\ worker' = Settled(worker.query)
          /\ cache' = [cache EXCEPT ![worker.query].requested = FALSE]
    /\ UNCHANGED <<source, scope, queued, page, wiped, crashes>>

\* Mutant: the connection need only be enabled.
Fence_Enabled(q) == enabled /\ Authorized(q)

\* With the source row locked.
Fence(q) == enabled /\ key = q.key /\ Authorized(q)

RunQuery ==
    /\ worker.step = "answered"
    /\ LET q == worker.query
       IN  /\ cache' = [cache EXCEPT ![q].requested = FALSE, ![q].data = @ \/ Fence(q)]
           /\ worker' = Settled(q)
    /\ UNCHANGED <<source, scope, queued, page, wiped, crashes>>

Finish ==
    /\ worker.step = "batch" /\ worker.batch = {}
    /\ worker' = NoJob
    /\ UNCHANGED <<source, scope, cache, queued, page, wiped, crashes>>

\* The lease of a dead worker expires and the job waits again.
Crash ==
    /\ worker # NoJob /\ crashes < MaxCrashes
    /\ crashes' = crashes + 1
    /\ queued' = queued \cup {worker.kind} /\ worker' = NoJob
    /\ UNCHANGED <<source, scope, cache, page, wiped>>

Worker == (\E k \in Kinds : Lease(k)) \/ SelectBatch \/ (\E q \in Queries : Take(q)) \/ Ask \/ RunQuery \/ Finish

----------------------------------------------------------------------------
(* The administration. *)
Withdrawn(rows) == [q \in Queries |-> [rows[q] EXCEPT !.requested = FALSE]]

RotateExternalId ==
    /\ key < MaxKey /\ key' = key + 1
    /\ cache' = Withdrawn(cache) /\ queued' = {}
    /\ UNCHANGED <<enabled, scope, page, worker, wiped, crashes>>

\* A saved assignment raises ownership_version.
TransferAccount ==
    /\ key < MaxKey /\ key' = key + 1
    /\ UNCHANGED <<enabled, scope, cache, queued, page, worker, wiped, crashes>>

SetPaused ==
    /\ enabled' = ~enabled
    /\ queued' = IF enabled THEN {} ELSE queued
    /\ UNCHANGED <<key, scope, cache, page, worker, wiped, crashes>>

\* stop_customer; a job that runs is cancelled, its worker does not know.
StopCustomer ==
    /\ key < MaxKey /\ key' = key + 1
    /\ enabled' = FALSE /\ queued' = {}
    /\ cache' = [q \in Queries |-> [cache[q] EXCEPT !.requested = FALSE, !.data = FALSE]]
    /\ wiped' = wiped \cup {q \in Queries : cache[q].known}
    /\ UNCHANGED <<scope, page, worker, crashes>>

ChangeMembership ==
    /\ scope < MaxScope /\ scope' = scope + 1
    /\ UNCHANGED <<source, cache, queued, page, worker, wiped, crashes>>

Next ==
    \/ LookUp \/ GetQuery \/ (\E q \in Queries : RefreshCosts(q)) \/ Slot \/ Worker \/ Crash
    \/ RotateExternalId \/ TransferAccount \/ SetPaused \/ StopCustomer \/ ChangeMembership

Spec == Init /\ [][Next]_vars

\* The worker goes on, a request commits, and slots keep coming while the source is enabled.
Fairness == WF_vars(Worker) /\ WF_vars(GetQuery) /\ WF_vars(Slot)

FairSpec == Spec /\ Fairness

----------------------------------------------------------------------------
(* What an offboarding emptied stays empty: a run that asked AWS before it *)
(* stores nothing after it, also when the connection was resumed meanwhile *)
(* (query_cache.py:186-189, governance.py:70-71).                          *)
WipedStaysEmpty == \A q \in wiped : ~cache[q].data

(* A query that was asked for is settled while its connection is enabled,  *)
(* although the request may have joined a job that had selected its batch  *)
(* already or was loaded before a rotation (query_cache.py:98-100).       *)
RequestsAreSettled ==
    \A q \in Queries : cache[q].requested ~> (~cache[q].requested \/ ~enabled)

(* "Failed requests have a cooldown to avoid costly reload loops."         *)
Cooldown == \A q \in Queries : Take(q) => ~cache[q].recent
=============================================================================
