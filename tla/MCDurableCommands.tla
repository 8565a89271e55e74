--------------------------- MODULE MCDurableCommands ---------------------------
(***************************************************************************)
(* An instance of DurableCommands: three commands in two process slots on  *)
(* a run of one node.                                                      *)
(***************************************************************************)
EXTENDS DurableCommands, TLC

CONSTANTS n1, cancel1

SingleNode == <<n1>>
Independent == [n \in Node |-> {}]
OneAttempt == [n \in Node |-> 1]
Action == [k \in Control |-> IF k = cancel1 THEN "cancel" ELSE "pause"]
Symmetry == Permutations(Coord)
=============================================================================
