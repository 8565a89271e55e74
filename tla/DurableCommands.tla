---------------------------- MODULE DurableCommands ----------------------------
(***************************************************************************)
(* The commands of the CLI on one durable run: run, pause, cancel and      *)
(* resume, each a process that inspects the run, may submit a control,     *)
(* holds at most one session of DurableCoordinator and ends with an exit   *)
(* code. Every read of the store is a step of its own, so that between any *)
(* two of them another command may submit, take the run over, finish it or *)
(* be killed.                                                              *)
(*                                                                         *)
(* The coordinator's steps are those of DurableCoordinator; its controls   *)
(* come from these commands only. Every process slot is used again by a    *)
(* later command, MaxCommands of them in all.                              *)
(***************************************************************************)
EXTENDS DurableCoordinator

CONSTANT MaxCommands

ASSUME CommandConstants == MaxCommands \in Nat

VARIABLES
    cmd,       \* the command each process runs
    at,        \* its step
    op,        \* its operation identifier, of a pause or cancel
    exit,      \* how it ended
    commands   \* commands started

cli == <<cmd, at, op, exit, commands>>
allvars == <<vars, cli>>

ControlCommand == {"pause", "cancel"}
Command == ControlCommand \cup {"run", "resume"}
Step == {"idle", "inspect", "submit", "resume", "session", "report"}

\* Exit code 0 is "reached", 2 is "usage"; the others are 1.
Exit == {"none", "usage", "reached", "refused", "pending", "short", "error"}

-----------------------------------------------------------------------------
\* What a command makes of the run it inspects.

\* controlReached, and the exit code of run and resume.
Reached(command, status) ==
    CASE command = "pause" -> status = "paused"
      [] command = "cancel" -> status = "cancelled"
      [] OTHER -> status = "succeeded"

\* Mutant of CannotAcceptControl: a run that waits for recovery is refused too.
CannotAcceptUnlessLive(command, status) ==
    ~Reached(command, status)
    /\ status \in {"succeeded", "failed", "blocked", "recovery-blocked"}

\* cannotAcceptControl
CannotAcceptControl(command, status) ==
    ~Reached(command, status) /\ status \in {"succeeded", "failed", "blocked"}

-----------------------------------------------------------------------------
\* The steps of a command.

Goes(c, step) == at' = [at EXCEPT ![c] = step] /\ UNCHANGED <<cmd, op, exit, commands>>

Ends(c, how) ==
    /\ at' = [at EXCEPT ![c] = "idle"]
    /\ exit' = [exit EXCEPT ![c] = how]
    /\ UNCHANGED <<cmd, op, commands>>

\* A command with its options. A pause or cancel may repeat an earlier operation identifier.
Start(c) ==
    /\ at[c] = "idle" /\ pc[c] = "idle"
    /\ commands < MaxCommands
    /\ commands' = commands + 1
    /\ \E command \in ControlCommand \cup {"resume"} :
          /\ cmd' = [cmd EXCEPT ![c] = command]
          /\ \E k \in {x \in Control : ActionOf[x] = command} \cup {None} :
                /\ (k = None) = (command \notin ControlCommand)
                /\ op' = [op EXCEPT ![c] = k]
    /\ \/ at' = [at EXCEPT ![c] = "inspect"] /\ exit' = [exit EXCEPT ![c] = "none"]
       \/ exit' = [exit EXCEPT ![c] = "usage"] /\ UNCHANGED at
    /\ UNCHANGED vars

\* The first inspection: it decides what a pause or cancel does, and that the run exists.
InspectBefore(c) ==
    /\ at[c] = "inspect"
    /\ IF cmd[c] \notin ControlCommand THEN Goes(c, "resume")
       ELSE IF Reached(cmd[c], run.status) THEN Ends(c, "reached")
       ELSE IF CannotAcceptControl(cmd[c], run.status) THEN Ends(c, "refused")
       ELSE Goes(c, "submit")
    /\ UNCHANGED vars

\* Mutant of Submit: the receipt is printed without the request.
SubmitNothing(c) ==
    /\ at[c] = "submit"
    /\ UNCHANGED vars
    /\ Goes(c, "resume")

Submitted(k) == k \in pending \/ \E i \in DOMAIN observed : observed[i] = k

\* submitControl: a request that was already submitted is replayed.
Submit(c) ==
    /\ at[c] = "submit"
    /\ \/ SubmitControl(op[c])
       \/ Submitted(op[c]) /\ UNCHANGED vars
    /\ Goes(c, "resume")

\* resume: a settled run returns at once, any other is loaded.
Resume(c) ==
    /\ at[c] = "resume"
    /\ \/ Load(c) /\ Goes(c, "session")
       \/ Settled(run.status) /\ UNCHANGED vars /\ Goes(c, "report")

\* The session's own steps.
Session(c) ==
    /\ at[c] = "session"
    /\ \/ Recovery(c) \/ Coordination(c) \/ HostFails(c) \/ Abandon(c) \/ SessionFails(c)
    /\ pc[c] # "idle" /\ pc'[c] # "idle"
    /\ UNCHANGED cli

\* RunOwnershipBlockedError
OwnershipBlocked(c) == at[c] = "session" /\ Refused(c) /\ Ends(c, "pending")

Judged(c) == IF Reached(cmd[c], run.status) THEN "reached" ELSE "short"

\* The session gave up its lease: with the state it returns, which is what run reports, or
\* because it failed.
SessionOver(c) ==
    /\ at[c] = "session"
    /\ Release(c)
    /\ IF pc[c] # "returning" THEN Ends(c, "error")
       ELSE IF cmd[c] = "run" THEN Ends(c, Judged(c))
       ELSE Goes(c, "report")

\* The second inspection decides the exit code of the others.
Report(c) ==
    /\ at[c] = "report"
    /\ Ends(c, Judged(c))
    /\ UNCHANGED vars

\* The process is killed, in or outside its session.
Killed(c) ==
    /\ at[c] # "idle"
    /\ Crash(c) \/ (pc[c] = "idle" /\ UNCHANGED vars)
    /\ Ends(c, "none")

-----------------------------------------------------------------------------
\* runTask creates the run, which releases it, and then resumes it like any other.
CommandsInit ==
    /\ Init /\ holder = None
    /\ \E c \in Coord :
          /\ cmd = [d \in Coord |-> IF d = c THEN "run" ELSE "resume"]
          /\ at = [d \in Coord |-> IF d = c THEN "resume" ELSE "idle"]
    /\ op = [c \in Coord |-> None] /\ exit = [c \in Coord |-> "none"]
    /\ commands = 1

Process(c) ==
    \/ Start(c) \/ InspectBefore(c) \/ Submit(c) \/ Resume(c) \/ Session(c)
    \/ OwnershipBlocked(c) \/ SessionOver(c) \/ Report(c) \/ Killed(c)

CommandsNext ==
    \/ \E c \in Coord : Process(c)
    \/ (\E e \in Execution : Host(e)) /\ UNCHANGED cli
    \/ OperatorEdits /\ UNCHANGED cli

CommandsSpec == CommandsInit /\ [][CommandsNext]_allvars

-----------------------------------------------------------------------------
\* Correctness.

\* The variables keep their types, and a command outside its session holds no lease of it.
CommandsTypeOK ==
    /\ TypeOK
    /\ cmd \in [Coord -> Command] /\ at \in [Coord -> Step] /\ exit \in [Coord -> Exit]
    /\ op \in [Coord -> Control \cup {None}] /\ commands \in 0..MaxCommands
    /\ \A c \in Coord : (pc[c] = "idle") = (at[c] # "session")

\* cannotAcceptControl: the inspection is stale when "Control blocked" is printed, yet the
\* refusal stands: nothing that happened since, and no later command, makes that run accept
\* the control.
RefusalIsFinal ==
    \A c \in Coord :
        exit[c] = "refused" => Settled(run.status) /\ ~Reached(cmd[c], run.status)

\* controlDurableRun: a pause or cancel resumes the run only to carry its control out. It runs
\* the work of the run in one case only: another process completed its pause before it loaded
\* the run, which it then finds paused and resumes.
ControlCommandRunsNothing ==
    \A c \in Coord :
        cmd[c] \in ControlCommand /\ At(c, Executing) => cmd[c] = "pause" /\ op[c] \in completed
=============================================================================
