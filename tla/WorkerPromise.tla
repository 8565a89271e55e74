----------------------------- MODULE WorkerPromise ------------------------------
(***************************************************************************)
(* What an execution host promises the engine about one execution: its     *)
(* worker is launched at most once, and never once the execution was       *)
(* reported over; and it is reported over only when no worker is at work.  *)
(* How long a worker takes, who supervises it and what survives a crash    *)
(* are of no concern here.                                                 *)
(*                                                                         *)
(* ExecutionSupervisor implements this specification.                      *)
(***************************************************************************)
VARIABLES work,   \* "idle", "working" or "ended"
          over    \* some reader may take the execution for over

promiseVars == <<work, over>>

Init == work = "idle" /\ over = FALSE

Launch == work = "idle" /\ ~over /\ work' = "working" /\ UNCHANGED over

End == work = "working" /\ work' = "ended" /\ UNCHANGED over

Report == work # "working" /\ over' = TRUE /\ UNCHANGED work

Next == Launch \/ End \/ Report

Spec == Init /\ [][Next]_promiseVars
=============================================================================
