---------------------------- MODULE MCAssembler ----------------------------
(* Instances of frame assembly for TLC. *)
EXTENDS Assembler, TLC

Symmetry == Permutations(Frames)

\* Nothing is promised once the pool has run dry: its successors are left out.
UntilDry == ~exhausted
=============================================================================
