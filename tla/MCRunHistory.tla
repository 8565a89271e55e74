----------------------------- MODULE MCRunHistory -----------------------------
(***************************************************************************)
(* An instance of RunHistory: two sessions, two damaged rows.              *)
(***************************************************************************)
EXTENDS RunHistory, TLC

Symmetry == Permutations(Session)
=============================================================================
