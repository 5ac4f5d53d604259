---------------------------- MODULE MCCollection ----------------------------
(* Small instances of Collection for TLC. *)
EXTENDS Collection, TLC

WorkerJobSymmetry == Permutations(Workers) \union Permutations(Jobs)

\* What one run explores of the constants of Collection.cfg, in which AWS revises the costs
\* of a month while it is refreshed and administrators act ...
Refreshing ==
    /\ crashes = 0
    /\ \A j \in Jobs : span[j] \subseteq Latest
    /\ \A m \in Months \ Latest : usage[m] = 0
    /\ \A m \in Latest : edits + usage[m] <= 3

\* ... or workers crash while they import two months, at one administrative change.
Importing == edits <= 1 /\ \A m \in Months : usage[m] = 0

Explored == Refreshing \/ Importing
=============================================================================
