------------------------------ MODULE MCBroker ------------------------------
(* Small instances of Broker for TLC. *)
EXTENDS Broker, TLC

Symmetry == Permutations(Roles) \union Permutations(Invocations)
=============================================================================
