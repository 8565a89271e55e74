----------------------------- MODULE MCRunEvents ------------------------------
(***************************************************************************)
(* Instances of RunEvents for TLC; nodes are interchangeable.              *)
(***************************************************************************)
EXTENDS RunEvents, TLC

Symmetry == Permutations(Node)
=============================================================================
