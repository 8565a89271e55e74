------------------------- MODULE MCExecutionSupervisor -------------------------
(* The supervisor has no parameters: its whole state space is checked. *)
EXTENDS ExecutionSupervisor
=============================================================================
