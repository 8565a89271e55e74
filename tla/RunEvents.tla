------------------------------ MODULE RunEvents -------------------------------
(***************************************************************************)
(* The reducer on its own: a run to which any event may be proposed, as a  *)
(* store replaying a history or any driver of the engine could. What holds *)
(* here holds of every history the reducer accepts, whoever wrote it.      *)
(***************************************************************************)
EXTENDS RunReducer

CONSTANTS MaxAttempts,      \* bound on attempt numbers proposed for a node
          ProposedCause,    \* cleanup causes among what is proposed
          ProposedPause     \* pause reasons among what is proposed

ASSUME EventConstants ==
    /\ MaxAttempts \in Nat
    /\ ProposedCause \subseteq Cause
    /\ ProposedPause \subseteq PauseKind

Number == 1..MaxAttempts

AttemptEvent(types) == [type : types, node : Node, attempt : Number]

\* What a driver may propose.
Payload ==
    [type : {"RuntimeConfigured", "RuntimeNegotiated", "WorkspaceAssigned",
             "ControlRequestObserved", "RunBlocked"}]
    \cup AttemptEvent({"ArtifactProduced", "WorkspaceObserved", "CommandCompleted",
                       "AttemptTimeoutRequested", "LateResultObserved", "AttemptScheduled",
                       "AttemptPrepared", "AttemptStartAuthorized", "AttemptStarted",
                       "AttemptSucceeded", "AttemptBlocked", "AttemptCancelled"})
    \cup [type : {"ExecutionCleanupObserved"}, node : Node, attempt : Number,
          cause : ProposedCause, outcome : CleanupOutcome]
    \cup [type : {"AttemptCancellationCompleted"}, node : Node, attempt : Number,
          outcome : CancellationOutcome]
    \cup [type : {"RuntimeEventObserved"}, node : Node, attempt : Number, usage : BOOLEAN]
    \cup [type : {"AttemptFailed"}, node : Node, attempt : Number, exhausted : BOOLEAN]
    \cup [type : {"AttemptOrphaned"}, node : Node, attempt : Number, differs : BOOLEAN]
    \cup [type : {"NodeReady"}, node : Node,
          reason : {"dependencies-satisfied", "retry", "resumed", "recovered"}]
    \cup [type : {"NodeSucceeded", "NodeFailed", "NodeBlocked", "NodeCancelled"}, node : Node]
    \cup [type : {"NodePaused"}, node : Node, reason : ProposedPause \cup {"none"}]
    \cup [type : {"RunPaused", "RunResumed", "RunCancelled"}, durable : BOOLEAN]
    \cup [type : {"RunCompleted"}, outcome : {"succeeded", "failed"}]
    \cup [type : {"RunRecoveryBlocked"}, node : Node, attempt : Number,
          kind : {"execution-unknown", "cleanup-unknown"}]

VARIABLE run

Init == run = CreatedRun

Apply(e) == run' \in Applied(run, e)

Next == \E e \in Payload : Apply(e)

Spec == Init /\ [][Next]_run

-----------------------------------------------------------------------------
TypeOK == run \in Run

\* applyNodeEvent and applyAttemptEvent agree: while an attempt runs its node does, a node
\* ends as its last attempt did, and a node that is not running has no running attempt to
\* leave behind.
NodeFollowsAttempt ==
    \A n \in Node :
        LET node == run.nodes[n]
        IN /\ node.last.status = "running" => node.status = "running"
           /\ node.status = "running" => node.last.status \notin {"none", "scheduled", "prepared"}
           /\ node.status \in {"succeeded", "failed"} => node.last.status = node.status
           /\ node.status = "pending" => node.attempts = 0

\* applyTimeoutEvent: once a timeout was requested, an attempt can only fail on its budget
\* after a recorded cancellation, or be orphaned; no late answer turns it into another result.
TimeoutIsFinal ==
    \A n \in Node :
        LET last == run.nodes[n].last
        IN /\ last.timeout # "none" => last.status \in {"running", "failed", "orphaned"}
           /\ last.status = "failed" => last.timeout # "requested"
           /\ last.late => last.timeout \in CancellationOutcome

\* A completed run agrees with its nodes for good: nothing after RunCompleted reopens one.
CompletionAgrees ==
    /\ run.status = "succeeded" => \A n \in Node : run.nodes[n].last.status = "succeeded"
    /\ run.status = "failed" => \E n \in Node : run.nodes[n].last.status = "failed"

\* How far an attempt has come.
Rank(status) ==
    IF status = "none" THEN 0 ELSE IF status = "scheduled" THEN 1
    ELSE IF status = "prepared" THEN 2 ELSE IF status = "running" THEN 3 ELSE 4

\* A node may get a later attempt; the current one only moves forward.
Forward(before, after) ==
    \/ after.attempts = before.attempts + 1
    \/ /\ after.attempts = before.attempts
       /\ \/ after.last.status = before.last.status
          \/ Rank(after.last.status) > Rank(before.last.status)

\* A lost, cancelled or failed attempt never comes back: work continues only under a new
\* attempt number.
AttemptsMoveForward == [][\A n \in Node : Forward(run.nodes[n], run'.nodes[n])]_run
=============================================================================
