----------------------------- MODULE MCPrivateFiles -----------------------------
(* Two writers that may disagree and a reader; one power loss and one retry. *)
EXTENDS PrivateFiles, TLC

Symmetry == Permutations(Writers) \cup Permutations(Values)
=============================================================================
