------------------------------ MODULE OnceJobs ------------------------------
(***************************************************************************)
(* The portfolio-wide jobs of a slot (evaluate_budgets, allocate_projects, *)
(* monitor_operations): schedule_due enqueues them with "once" and no      *)
(* source, so that no row lock holds jobs.enqueue's check and its insert    *)
(* together.                                                                *)
(***************************************************************************)
EXTENDS Naturals

CONSTANTS Schedulers, Keys

VARIABLES
    active,     \* active[k]: a job under key k is queued or leased
    settled,    \* settled[k]: jobs under key k that are done or failed
    at          \* at[s]: the key scheduler s found no job of, or "none"

vars == <<active, settled, at>>

TypeOK ==
    /\ active \in [Keys -> BOOLEAN] /\ settled \in [Keys -> Nat]
    /\ at \in [Schedulers -> Keys \cup {"none"}]

Init ==
    /\ active = [k \in Keys |-> FALSE] /\ settled = [k \in Keys |-> 0]
    /\ at = [s \in Schedulers |-> "none"]

\* A mutant: only an active job of the key counts.
Found_Active(k) == active[k]

\* The "once" check: no job of the key, whatever its status.
Found(k) == active[k] \/ settled[k] > 0

Check(s, k) ==
    /\ at[s] = "none" /\ ~Found(k)
    /\ at' = [at EXCEPT ![s] = k]
    /\ UNCHANGED <<active, settled>>

\* The constraint on active keys turns the row away; enqueue then returns the other's.
Insert(s) ==
    /\ at[s] # "none"
    /\ active' = [active EXCEPT ![at[s]] = TRUE]
    /\ at' = [at EXCEPT ![s] = "none"]
    /\ UNCHANGED settled

Run(k) ==
    /\ active[k]
    /\ active' = [active EXCEPT ![k] = FALSE] /\ settled' = [settled EXCEPT ![k] = @ + 1]
    /\ UNCHANGED at

Next == (\E s \in Schedulers, k \in Keys : Check(s, k)) \/ (\E s \in Schedulers : Insert(s))
        \/ (\E k \in Keys : Run(k))

Spec == Init /\ [][Next]_vars

-----------------------------------------------------------------------------
\* A slot's portfolio-wide job is made once, however often the schedulers tick.
PortfolioOnce == \A k \in Keys : settled[k] + (IF active[k] THEN 1 ELSE 0) <= 1
=============================================================================
