--------------------------- MODULE MCWorkflowEngine ---------------------------
(***************************************************************************)
(* Instances of WorkflowEngine for TLC: an agent that may be retried, and  *)
(* a verification command.                                                 *)
(***************************************************************************)
EXTENDS WorkflowEngine, TLC

CONSTANTS implement, verify

Both == <<implement, verify>>
VerifyLast == implement :> {} @@ verify :> {implement}
Unrelated == implement :> {} @@ verify :> {}
TwoAttempts == implement :> 2 @@ verify :> 1

Symmetry == Permutations(Caller)
=============================================================================
