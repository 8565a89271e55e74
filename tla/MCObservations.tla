----------------------------- MODULE MCObservations -----------------------------
(* A supervisor that keeps four events of an execution with up to three logs and two usage events. *)
EXTENDS Observations
=============================================================================
