------------------------------ MODULE RunReducer ------------------------------
(***************************************************************************)
(* The event reducer (applyRunEvent of packages/engine/src/events.ts): the *)
(* only way the state of a run changes, for the durable coordinator as for *)
(* the in-process engine. A store accepts a mutation only when every event *)
(* of its batch is accepted in turn (materializeEvents).                   *)
(*                                                                         *)
(* Each event is an operator from a run to the set of runs it leads to:    *)
(* one run when the event is accepted, none when the reducer throws        *)
(* InvalidTransitionError. RunCreated is CreatedRun.                       *)
(*                                                                         *)
(* An attempt keeps what later guards read: its status, whether an         *)
(* execution plan was prepared for it, its timeout and cleanup evidence    *)
(* and whether the orphan observation differed from the checkpoint. Only   *)
(* the latest attempt of a node can change, so earlier ones are counted    *)
(* only. Payload contents, identities and artifact bodies are left out: an *)
(* artifact that an event refers to precedes it in the same batch.         *)
(***************************************************************************)
EXTENDS Naturals, Sequences

CONSTANT Node

RunStatus == {"running", "blocked", "succeeded", "failed", "paused", "cancelled",
              "recovery-blocked"}
NodeStatus == {"pending", "ready", "running", "blocked", "succeeded", "failed", "paused",
               "cancelled"}
AttemptStatus == {"scheduled", "prepared", "running", "orphaned", "blocked", "succeeded",
                  "failed", "cancelled"}
PauseKind == {"operator", "workspace-conflict", "attempt-budget-exhausted",
              "runtime-unavailable", "policy-violation"}
Cause == {"pause", "cancel", "timeout", "recovery"}
CleanupOutcome == {"confirmed", "unknown"}
CancellationOutcome == {"succeeded", "failed", "unavailable"}

TerminalRun == {"succeeded", "failed", "cancelled"}
SettledNode == {"succeeded", "failed", "cancelled"}

\* The attempt of a node that has none: at(-1) is undefined.
NoAttempt == [status |-> "none", plan |-> FALSE, timeout |-> "none", late |-> FALSE,
              usage |-> FALSE, cleanup |-> {}, differs |-> FALSE]

Attempt == [status : AttemptStatus \cup {"none"}, plan : BOOLEAN,
            timeout : CancellationOutcome \cup {"none", "requested"}, late : BOOLEAN,
            usage : BOOLEAN, cleanup : SUBSET (Cause \X CleanupOutcome), differs : BOOLEAN]

NodeState == [status : NodeStatus, pause : PauseKind \cup {"none"}, attempts : Nat,
              last : Attempt]

Run == [status : RunStatus, configured : BOOLEAN, negotiated : BOOLEAN, workspace : BOOLEAN,
        nodes : [Node -> NodeState]]

\* The run the RunCreated event makes.
CreatedRun ==
    [status |-> "running", configured |-> FALSE, negotiated |-> FALSE, workspace |-> FALSE,
     nodes |-> [n \in Node |-> [status |-> "pending", pause |-> "none", attempts |-> 0,
                                last |-> NoAttempt]]]

-----------------------------------------------------------------------------
\* Guards and updates the events share.

\* The reducer returns the new run or throws.
When(accepted, r) == IF accepted THEN {r} ELSE {}

NodeOf(r, e) == r.nodes[e.node]
NodeIn(r, e, statuses) == NodeOf(r, e).status \in statuses

\* requireCurrentAttempt, for any of the given statuses.
CurrentAttempt(r, e, statuses) ==
    /\ NodeOf(r, e).attempts = e.attempt
    /\ NodeOf(r, e).last.status \in statuses

NoAttemptsYet(r) == \A n \in Node : r.nodes[n].attempts = 0

\* The run in which the node of the event becomes the given one.
Updated(r, e, node) == [r EXCEPT !.nodes[e.node] = node]

NodeBecomes(r, e, status) == Updated(r, e, [NodeOf(r, e) EXCEPT !.status = status])
AttemptBecomes(r, e, attempt) == Updated(r, e, [NodeOf(r, e) EXCEPT !.last = attempt])

\* Mutant of ActiveAttemptStopped: a node stops whatever its attempt does.
AnyAttemptStopped(r, e) == TRUE

\* A running node may stop for good only once its attempt was cancelled or orphaned.
ActiveAttemptStopped(r, e) ==
    NodeIn(r, e, {"running"}) => NodeOf(r, e).last.status \in {"cancelled", "orphaned"}

-----------------------------------------------------------------------------
\* Configuration and observations.

RuntimeConfigured(r, e) ==
    When(~r.configured /\ NoAttemptsYet(r), [r EXCEPT !.configured = TRUE])

RuntimeNegotiated(r, e) ==
    When(~r.negotiated /\ NoAttemptsYet(r), [r EXCEPT !.negotiated = TRUE])

WorkspaceAssigned(r, e) ==
    When(r.status = "running" /\ ~r.workspace, [r EXCEPT !.workspace = TRUE])

ArtifactProduced(r, e) ==
    When(\/ NodeIn(r, e, {"running"}) /\ CurrentAttempt(r, e, {"running"})
         \/ NodeIn(r, e, {"ready"}) /\ CurrentAttempt(r, e, {"scheduled", "prepared"}),
         r)

\* WorkspaceObserved and CommandCompleted.
ResultEvidence(r, e) == When(CurrentAttempt(r, e, {"running"}), r)

ControlRequestObserved(r, e) == {r}

ExecutionCleanupObserved(r, e) ==
    When(/\ CurrentAttempt(r, e, {"prepared", "running", "orphaned"})
         /\ NodeOf(r, e).last.plan
         /\ \A c \in NodeOf(r, e).last.cleanup : c[1] # e.cause,
         AttemptBecomes(r, e, [NodeOf(r, e).last EXCEPT
                                 !.cleanup = @ \cup {<<e.cause, e.outcome>>}]))

-----------------------------------------------------------------------------
\* Timeouts.

AttemptTimeoutRequested(r, e) ==
    When(/\ NodeIn(r, e, {"running"})
         /\ CurrentAttempt(r, e, {"running"})
         /\ NodeOf(r, e).last.timeout = "none",
         AttemptBecomes(r, e, [NodeOf(r, e).last EXCEPT !.timeout = "requested"]))

AttemptCancellationCompleted(r, e) ==
    When(/\ CurrentAttempt(r, e, {"running"})
         /\ NodeOf(r, e).last.timeout = "requested",
         AttemptBecomes(r, e, [NodeOf(r, e).last EXCEPT !.timeout = e.outcome]))

LateResultObserved(r, e) ==
    When(/\ CurrentAttempt(r, e, {"running"})
         /\ NodeOf(r, e).last.timeout \in CancellationOutcome
         /\ ~NodeOf(r, e).last.late,
         AttemptBecomes(r, e, [NodeOf(r, e).last EXCEPT !.late = TRUE]))

-----------------------------------------------------------------------------
\* Attempts.

AttemptScheduled(r, e) ==
    When(/\ NodeIn(r, e, {"ready"})
         /\ e.attempt = NodeOf(r, e).attempts + 1,
         Updated(r, e, [NodeOf(r, e) EXCEPT
                          !.attempts = e.attempt,
                          !.last = [NoAttempt EXCEPT !.status = "scheduled"]]))

\* A configured runtime is asked for an agent's node; a command's needs none, which is left out.
AttemptPrepared(r, e) ==
    When(/\ NodeIn(r, e, {"ready"})
         /\ CurrentAttempt(r, e, {"scheduled"})
         /\ r.configured,
         AttemptBecomes(r, e, [NodeOf(r, e).last EXCEPT !.status = "prepared", !.plan = TRUE]))

Started(r, e) ==
    Updated(r, e, [NodeOf(r, e) EXCEPT !.status = "running",
                                       !.last = [@ EXCEPT !.status = "running"]])

AttemptStartAuthorized(r, e) ==
    When(/\ NodeIn(r, e, {"ready"})
         /\ CurrentAttempt(r, e, {"prepared"}),
         Started(r, e))

AttemptStarted(r, e) ==
    When(/\ NodeIn(r, e, {"ready"})
         /\ ~r.configured
         /\ CurrentAttempt(r, e, {"scheduled"}),
         Started(r, e))

RuntimeEventObserved(r, e) ==
    When(/\ NodeIn(r, e, {"running"})
         /\ CurrentAttempt(r, e, {"running"})
         /\ ~(e.usage /\ NodeOf(r, e).last.usage),
         AttemptBecomes(r, e, [NodeOf(r, e).last EXCEPT !.usage = @ \/ e.usage]))

\* Mutant of AttemptEnded: an answer after the timeout still counts.
AttemptEndedLate(r, e, status) ==
    When(NodeIn(r, e, {"running"}) /\ CurrentAttempt(r, e, {"running"}),
         AttemptBecomes(r, e, [NodeOf(r, e).last EXCEPT !.status = status]))

\* AttemptSucceeded, AttemptBlocked and AttemptCancelled.
AttemptEnded(r, e, status) ==
    When(/\ NodeIn(r, e, {"running"})
         /\ CurrentAttempt(r, e, {"running"})
         /\ NodeOf(r, e).last.timeout = "none",
         AttemptBecomes(r, e, [NodeOf(r, e).last EXCEPT !.status = status]))

AttemptFailed(r, e) ==
    When(/\ NodeIn(r, e, {"running"})
         /\ CurrentAttempt(r, e, {"running"})
         /\ NodeOf(r, e).last.timeout # "none" =>
              /\ e.exhausted
              /\ NodeOf(r, e).last.timeout \in CancellationOutcome,
         AttemptBecomes(r, e, [NodeOf(r, e).last EXCEPT !.status = "failed"]))

AttemptOrphaned(r, e) ==
    When(/\ NodeIn(r, e, {"ready", "running"})
         /\ CurrentAttempt(r, e, {"prepared", "running"})
         /\ NodeOf(r, e).last.plan,
         Updated(r, e, [NodeOf(r, e) EXCEPT
                          !.status = "running",
                          !.last = [@ EXCEPT !.status = "orphaned", !.differs = e.differs]]))

-----------------------------------------------------------------------------
\* Nodes.

NodeReady(r, e) ==
    When(\/ e.reason = "dependencies-satisfied" /\ NodeIn(r, e, {"pending"})
         \/ e.reason = "resumed" /\ NodeIn(r, e, {"paused"})
         \/ /\ e.reason = "retry" /\ NodeIn(r, e, {"running"})
            /\ NodeOf(r, e).last.status = "failed"
         \/ /\ e.reason = "recovered" /\ NodeIn(r, e, {"running"})
            /\ NodeOf(r, e).last.status = "orphaned",
         Updated(r, e, [NodeOf(r, e) EXCEPT !.status = "ready", !.pause = "none"]))

\* NodeSucceeded and NodeFailed.
NodeEnded(r, e, status) ==
    When(/\ NodeIn(r, e, {"running"})
         /\ NodeOf(r, e).last.status = status,
         NodeBecomes(r, e, status))

NodeBlocked(r, e) ==
    When(/\ NodeIn(r, e, {"pending", "ready", "running"})
         /\ NodeIn(r, e, {"running"}) => NodeOf(r, e).last.status = "blocked",
         NodeBecomes(r, e, "blocked"))

\* A process-local pause carries no reason and never applies to a running node.
NodePaused(r, e) ==
    IF e.reason = "none"
    THEN When(NodeIn(r, e, {"pending", "ready"}), NodeBecomes(r, e, "paused"))
    ELSE When(/\ NodeIn(r, e, {"pending", "ready", "running"})
              /\ ActiveAttemptStopped(r, e),
              Updated(r, e, [NodeOf(r, e) EXCEPT !.status = "paused", !.pause = e.reason]))

NodeCancelled(r, e) ==
    When(/\ NodeIn(r, e, {"pending", "ready", "running", "blocked", "paused"})
         /\ ActiveAttemptStopped(r, e),
         NodeBecomes(r, e, "cancelled"))

-----------------------------------------------------------------------------
\* The lifecycle of the run. An event is durable when it has a reason or operation.

RunPaused(r, e) ==
    When(/\ r.status = "running" \/ (e.durable /\ r.status = "recovery-blocked")
         /\ e.durable => \A n \in Node : r.nodes[n].status # "running",
         [r EXCEPT !.status = "paused"])

\* Recovery has made the attempt of this node schedulable or paused.
Recovered(node) ==
    /\ node.last.status \notin {"prepared", "running"}
    /\ node.last.status = "orphaned" => node.status \in {"ready", "paused"}

RunResumed(r, e) ==
    When(\/ r.status = "paused"
         \/ /\ e.durable /\ r.status = "recovery-blocked"
            /\ \A n \in Node : Recovered(r.nodes[n]),
         [r EXCEPT !.status = "running"])

RunBlocked(r, e) == When(r.status = "running", [r EXCEPT !.status = "blocked"])

RunCancelled(r, e) ==
    When(e.durable => \A n \in Node : r.nodes[n].status \in SettledNode,
         [r EXCEPT !.status = "cancelled"])

\* Mutant of RunCompleted: the outcome is taken as claimed.
RunCompletedAsClaimed(r, e) == When(r.status = "running", [r EXCEPT !.status = e.outcome])

RunCompleted(r, e) ==
    When(/\ r.status = "running"
         /\ e.outcome = "succeeded" => \A n \in Node : r.nodes[n].status = "succeeded"
         /\ e.outcome = "failed" => \E n \in Node : r.nodes[n].status = "failed",
         [r EXCEPT !.status = e.outcome])

\* The reason names the execution of a node's latest attempt.
RunRecoveryBlocked(r, e) ==
    When(/\ r.status \in {"running", "paused", "recovery-blocked"}
         /\ CurrentAttempt(r, e, AttemptStatus)
         /\ NodeOf(r, e).last.plan
         /\ e.kind = "cleanup-unknown" => \E c \in NodeOf(r, e).last.cleanup : c[2] = "unknown",
         [r EXCEPT !.status = "recovery-blocked"])

-----------------------------------------------------------------------------
\* applyRunEvent. A terminal run accepts no event.
Applied(r, e) ==
    IF r.status \in TerminalRun THEN {}
    ELSE CASE e.type = "RuntimeConfigured" -> RuntimeConfigured(r, e)
           [] e.type = "RuntimeNegotiated" -> RuntimeNegotiated(r, e)
           [] e.type = "WorkspaceAssigned" -> WorkspaceAssigned(r, e)
           [] e.type = "ArtifactProduced" -> ArtifactProduced(r, e)
           [] e.type \in {"WorkspaceObserved", "CommandCompleted"} -> ResultEvidence(r, e)
           [] e.type = "ControlRequestObserved" -> ControlRequestObserved(r, e)
           [] e.type = "ExecutionCleanupObserved" -> ExecutionCleanupObserved(r, e)
           [] e.type = "AttemptTimeoutRequested" -> AttemptTimeoutRequested(r, e)
           [] e.type = "AttemptCancellationCompleted" -> AttemptCancellationCompleted(r, e)
           [] e.type = "LateResultObserved" -> LateResultObserved(r, e)
           [] e.type = "AttemptScheduled" -> AttemptScheduled(r, e)
           [] e.type = "AttemptPrepared" -> AttemptPrepared(r, e)
           [] e.type = "AttemptStartAuthorized" -> AttemptStartAuthorized(r, e)
           [] e.type = "AttemptStarted" -> AttemptStarted(r, e)
           [] e.type = "RuntimeEventObserved" -> RuntimeEventObserved(r, e)
           [] e.type = "AttemptSucceeded" -> AttemptEnded(r, e, "succeeded")
           [] e.type = "AttemptBlocked" -> AttemptEnded(r, e, "blocked")
           [] e.type = "AttemptCancelled" -> AttemptEnded(r, e, "cancelled")
           [] e.type = "AttemptFailed" -> AttemptFailed(r, e)
           [] e.type = "AttemptOrphaned" -> AttemptOrphaned(r, e)
           [] e.type = "NodeReady" -> NodeReady(r, e)
           [] e.type = "NodeSucceeded" -> NodeEnded(r, e, "succeeded")
           [] e.type = "NodeFailed" -> NodeEnded(r, e, "failed")
           [] e.type = "NodeBlocked" -> NodeBlocked(r, e)
           [] e.type = "NodePaused" -> NodePaused(r, e)
           [] e.type = "NodeCancelled" -> NodeCancelled(r, e)
           [] e.type = "RunPaused" -> RunPaused(r, e)
           [] e.type = "RunResumed" -> RunResumed(r, e)
           [] e.type = "RunBlocked" -> RunBlocked(r, e)
           [] e.type = "RunCancelled" -> RunCancelled(r, e)
           [] e.type = "RunCompleted" -> RunCompleted(r, e)
           [] e.type = "RunRecoveryBlocked" -> RunRecoveryBlocked(r, e)

\* materializeEvents: all events of the batch are accepted in turn, or none.
Materialized(r, batch) ==
    LET after[i \in 0..Len(batch)] ==
            IF i = 0 THEN {r} ELSE UNION {Applied(s, batch[i]) : s \in after[i - 1]}
    IN after[Len(batch)]
=============================================================================
