----------------------------- MODULE MCRunStore -----------------------------
(***************************************************************************)
(* An instance of RunStore for TLC. Processes whose absence is reported    *)
(* alike, operations and controls are interchangeable, so TLC may identify *)
(* states up to their permutation.                                         *)
(***************************************************************************)
EXTENDS RunStore, TLC

CONSTANT p3

Symmetry ==
    Permutations(Process \ Misreported) \cup Permutations(Op) \cup Permutations(Control)

\* Three mutations, and three generations, but not all of both.
HistoryBound == lease.generation + Len(history) <= 5
=============================================================================
