---------------------------- MODULE MCJobQueue ------------------------------
(* Small instances of JobQueue for TLC. *)
EXTENDS JobQueue, TLC

CONSTANTS ka, kb, kg, s1

\* Two keys of one source (a refresh and a backfill, say) and a portfolio-wide key.
SourceOfKey == [k \in Keys |-> IF k = kg THEN NoSource ELSE s1]
AttemptsOfKey == [k \in Keys |-> IF k = ka THEN 2 ELSE 1]
OneAttempt == [k \in Keys |-> 1]
PriorityOfKey == [k \in Keys |-> IF k = kg THEN 9 ELSE 3]

WorkerJobSymmetry == Permutations(Workers) \union Permutations(Jobs)
FullSymmetry == WorkerJobSymmetry \union Permutations(Clients)
=============================================================================
