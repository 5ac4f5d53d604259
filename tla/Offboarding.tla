----------------------------- MODULE Offboarding -----------------------------
(***************************************************************************)
(* The end of a customer: offboarding (onboarding.py:58-78, governance.py  *)
(* :55-78), evidence and retention (management/commands/                   *)
(* offboarding_control.py) and the purge of the data (retention.py), with  *)
(* the way back: a customer may be reactivated and offboarded again, and   *)
(* every offboarding leaves a record of its own.                           *)
(***************************************************************************)
EXTENDS Naturals, Sequences, FiniteSets

CONSTANTS
    Purges,         \* purge commands that may be under way at once
    MaxRecords      \* bound: offboardings

VARIABLES
    active,         \* Customer.active
    enabled,        \* a connection of the customer is enabled
    jobs,           \* a job of such a connection is queued or leased
    owned,          \* an ownership interval of the customer is open
    members,        \* a membership of the customer is active
    dependents,     \* another active customer owns an account behind a shared connection
    facts,          \* stored costs and reports of the customer
    records,        \* the offboarding records
    purge           \* purge -> the record it has locked and found fit, or 0

vars == <<active, enabled, jobs, owned, members, dependents, facts, records, purge>>

Evidence == {"allowlist_removed_at", "trust_revocation_reference", "deletion_approved_reference"}
Windows == {"sessions_expire_after", "retention_until"}
Record == [running : SUBSET Windows, evidence : SUBSET Evidence, deletion_completed : BOOLEAN]
Made == 1..Len(records)
NoRecord == 0

TypeOK ==
    /\ {active, enabled, jobs, owned, members, dependents, facts} \subseteq BOOLEAN
    /\ records \in Seq(Record) /\ Len(records) <= MaxRecords
    /\ purge \in [Purges -> 0..MaxRecords]

Init ==
    /\ active = TRUE /\ enabled = TRUE /\ jobs = FALSE /\ owned = TRUE /\ members = TRUE
    /\ dependents = FALSE /\ facts = FALSE
    /\ records = <<>>
    /\ purge = [p \in Purges |-> NoRecord]

----------------------------------------------------------------------------
(* stop_customer, inside the transaction of offboard_customer.  Without a  *)
(* retention agreement retention_until stays empty, which never expires.   *)
StopCustomer ==
    /\ ~ dependents /\ Len(records) < MaxRecords
    /\ enabled' = FALSE /\ jobs' = FALSE
    /\ records' = Append(records, [running |-> Windows, evidence |-> {}, deletion_completed |-> FALSE])
Offboard ==
    /\ active /\ StopCustomer
    /\ active' = FALSE /\ owned' = FALSE /\ members' = FALSE
    /\ UNCHANGED <<dependents, facts, purge>>

Reactivate ==
    /\ ~ active
    /\ active' = TRUE
    /\ UNCHANGED <<enabled, jobs, owned, members, dependents, facts, records, purge>>

(* set_paused, a transfer, a grant: what brings the parts back             *)
SetPaused(on) ==
    /\ enabled' = on
    /\ jobs' \in IF on THEN {jobs} ELSE {jobs, FALSE}
    /\ UNCHANGED <<active, owned, members, dependents, facts, records, purge>>
Transfer ==
    /\ active
    /\ owned' = TRUE
    /\ UNCHANGED <<active, enabled, jobs, members, dependents, facts, records, purge>>
Grant ==
    /\ members' = TRUE
    /\ UNCHANGED <<active, enabled, jobs, owned, dependents, facts, records, purge>>
Depend ==
    /\ active
    /\ dependents' \in BOOLEAN
    /\ UNCHANGED <<active, enabled, jobs, owned, members, facts, records, purge>>
Schedule ==
    /\ jobs' = (active /\ enabled /\ ~ jobs)
    /\ UNCHANGED <<active, enabled, owned, members, dependents, facts, records, purge>>

(* Publication of the customer's own connection, behind its fence.         *)
Publish ==
    /\ active /\ enabled /\ jobs
    /\ facts' = TRUE
    /\ UNCHANGED <<active, enabled, jobs, owned, members, dependents, records, purge>>

----------------------------------------------------------------------------
(* offboarding_control *)
Control(r, e) ==
    /\ records' = [records EXCEPT ![r].evidence = @ \cup {e}]
    /\ UNCHANGED <<active, enabled, jobs, owned, members, dependents, facts, purge>>
Expires(r, w) ==
    /\ w \in records[r].running
    /\ records' = [records EXCEPT ![r].running = @ \ {w}]
    /\ UNCHANGED <<active, enabled, jobs, owned, members, dependents, facts, purge>>

\* Mutant: the record is read without FOR UPDATE.
Locked_Never(r) == FALSE

Locked(r) == \E p \in Purges : purge[p] = r

Fit(r) ==
    /\ ~ active /\ ~ enabled /\ ~ jobs
    /\ records[r].running = {} /\ records[r].evidence = Evidence
    /\ ~ records[r].deletion_completed

PurgeBegin(p, r) ==
    /\ purge[p] = NoRecord /\ ~ Locked(r) /\ Fit(r)
    /\ purge' = [purge EXCEPT ![p] = r]
    /\ UNCHANGED <<active, enabled, jobs, owned, members, dependents, facts, records>>

PurgeCommit(p) ==
    /\ purge[p] # NoRecord
    /\ facts' = FALSE
    /\ records' = [records EXCEPT ![purge[p]].deletion_completed = TRUE]
    /\ purge' = [purge EXCEPT ![p] = NoRecord]
    /\ UNCHANGED <<active, enabled, jobs, owned, members, dependents>>

PurgeDies(p) ==
    /\ purge[p] # NoRecord
    /\ purge' = [purge EXCEPT ![p] = NoRecord]
    /\ UNCHANGED <<active, enabled, jobs, owned, members, dependents, facts, records>>

Next ==
    \/ Offboard \/ Reactivate \/ Transfer \/ Grant \/ Depend \/ Schedule \/ Publish
    \/ \E on \in BOOLEAN : SetPaused(on)
    \/ \E r \in Made : (\E e \in Evidence : Control(r, e)) \/ (\E w \in Windows : Expires(r, w))
    \/ \E p \in Purges : PurgeCommit(p) \/ PurgeDies(p) \/ \E r \in Made : PurgeBegin(p, r)

Spec == Init /\ [][Next]_vars

----------------------------------------------------------------------------
(* A record deletes once: a second purge command that was waiting for the  *)
(* first does not delete what the customer, reactivated since, has again.  *)
(* "The purge is audited, transactional and idempotent."                   *)
(* (docs/recovery-offboarding.md:56)                                       *)
DeletesOnce ==
    \A p \in Purges : PurgeCommit(p) => ~ records[purge[p]].deletion_completed

(* "Approved retention and previously issued session windows must expire   *)
(* first." (retention.py:52): data is not deleted while a window of any    *)
(* offboarding of the customer runs.                                       *)
RetentionIsHonoured ==
    facts /\ ~ facts' => \A r \in Made : records[r].running = {}
=============================================================================
