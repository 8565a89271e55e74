------------------------------ MODULE MCWorkspaces ------------------------------
(* Both kinds of workspaces, edited up to three times around two captures and a cleanup. *)
EXTENDS Workspaces
=============================================================================
