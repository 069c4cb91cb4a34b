------------------------------ MODULE MCEgress ------------------------------
(***************************************************************************)
(* Two nodes and a source for TLC.                                         *)
(***************************************************************************)
EXTENDS Egress, TLC

Symmetry == Permutations(Nodes) \cup Permutations(Calls)
=============================================================================
