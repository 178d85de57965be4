-------------------------- MODULE MCImplicitQueue --------------------------
(* Instances of one producer's queue for TLC. *)
EXTENDS ImplicitQueue, TLC

Symmetry == Permutations(Blocks) \cup Permutations(Consumers)
=============================================================================
