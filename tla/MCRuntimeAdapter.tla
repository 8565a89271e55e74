---------------------------- MODULE MCRuntimeAdapter ----------------------------
(* The four adapters; a queue of four places overflows with the logs of five frames. *)
EXTENDS RuntimeAdapter
=============================================================================
