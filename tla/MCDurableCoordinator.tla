------------------------- MODULE MCDurableCoordinator -------------------------
(***************************************************************************)
(* Instances of DurableCoordinator: a single node, two that are            *)
(* independent, and three of which the last needs the other two.           *)
(***************************************************************************)
EXTENDS DurableCoordinator, TLC

CONSTANTS n1, n2, n3, cancel1

SingleNode == <<n1>>
Independent == [n \in Node |-> {}]
Pair == <<n1, n2>>
Join == <<n1, n2, n3>>
JoinNeeds == [n \in Node |-> IF n = n3 THEN {n1, n2} ELSE {}]
OneAttempt == [n \in Node |-> 1]
RetryFirst == [n \in Node |-> IF n = n1 THEN 2 ELSE 1]
TwoAttempts == [n \in Node |-> 2]
Action == [k \in Control |-> IF k = cancel1 THEN "cancel" ELSE "pause"]
Symmetry == Permutations(Coord) \cup Permutations(Content)
=============================================================================
