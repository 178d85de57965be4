----------------------------- MODULE MCIngest -----------------------------
(* Instances of the receive path for TLC. *)
EXTENDS Ingest, TLC

Symmetry == Permutations(Bufs) \cup Permutations(Lcores)
=============================================================================
