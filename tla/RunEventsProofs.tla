--------------------------- MODULE RunEventsProofs ----------------------------
(***************************************************************************)
(* What every history the reducer accepts satisfies, for any number of     *)
(* nodes and attempts. An event changes the run itself or one node of it,  *)
(* so the invariants reduce to what an event may do to one node.           *)
(*                                                                         *)
(* And where the events come from: of one execution of an adapter, what    *)
(* its result and its stream say, for any capacity of the queue and any    *)
(* number of frames. WorkInv is about the work: a result is only chosen    *)
(* where the group is known to be gone, or says that it is not. StreamInv  *)
(* is about the queue: what was pushed is queued, delivered or dropped     *)
(* (Counted), and behind the end of the stream nothing is missing from the *)
(* summary (Ended). That a required event always displaces a log needs     *)
(* that few are required (Room).                                           *)
(***************************************************************************)
EXTENDS RunEvents, RuntimeAdapter, FiniteSetTheorems, FunctionTheorems, SequenceTheorems, WellFoundedInduction, TLAPS

\* NodeFollowsAttempt and TimeoutIsFinal, of one node; a pending node has no attempt.
NodeSound(node) ==
    /\ node.last.status = "running" => node.status = "running"
    /\ node.status = "running" => node.last.status \notin {"none", "scheduled", "prepared"}
    /\ node.status \in {"succeeded", "failed"} => node.last.status = node.status
    /\ node.status = "pending" => node.attempts = 0 /\ node.last.status = "none"
    /\ node.last.timeout # "none" => node.last.status \in {"running", "failed", "orphaned"}
    /\ node.last.status = "failed" => node.last.timeout # "requested"
    /\ node.last.late => node.last.timeout \in CancellationOutcome

\* The nodes of a run after an event: unchanged, or one of them moved on.
NodesStep(before, after) ==
    \/ after = before
    \/ \E n \in Node, node \in NodeState :
          /\ after = [before EXCEPT ![n] = node]
          /\ NodeSound(node)
          /\ Forward(before[n], node)

\* An event about a node leaves the run's own fields alone.
NodeEventStep(r, s) ==
    /\ s \in Run
    /\ s.status = r.status
    /\ NodesStep(r.nodes, s.nodes)

-----------------------------------------------------------------------------
\* A payload about a node names one, and its other fields have their types.
LEMMA PayloadFields ==
    ASSUME NEW e \in Payload
    PROVE  /\ e.type \in {"ArtifactProduced", "WorkspaceObserved", "CommandCompleted",
                          "AttemptTimeoutRequested", "LateResultObserved", "AttemptScheduled",
                          "AttemptPrepared", "AttemptStartAuthorized", "AttemptStarted",
                          "AttemptSucceeded", "AttemptBlocked", "AttemptCancelled",
                          "ExecutionCleanupObserved", "AttemptCancellationCompleted",
                          "RuntimeEventObserved", "AttemptFailed", "AttemptOrphaned", "NodeReady",
                          "NodeSucceeded", "NodeFailed", "NodeBlocked", "NodeCancelled",
                          "NodePaused", "RunRecoveryBlocked"}
              => e.node \in Node
           /\ e.type = "AttemptScheduled" => e.attempt \in Nat
           /\ e.type = "ExecutionCleanupObserved"
              => e.cause \in Cause /\ e.outcome \in CleanupOutcome
           /\ e.type = "AttemptCancellationCompleted" => e.outcome \in CancellationOutcome
           /\ e.type = "RuntimeEventObserved" => e.usage \in BOOLEAN
           /\ e.type = "AttemptOrphaned" => e.differs \in BOOLEAN
           /\ e.type = "NodePaused" => e.reason \in PauseKind \cup {"none"}
           /\ e.type = "RunCompleted" => e.outcome \in {"succeeded", "failed"}
BY EventConstants DEF Payload, AttemptEvent, Number

\* The order of the statuses of an attempt.
LEMMA RankGrows ==
    ASSUME NEW before, NEW after,
           \/ before = "scheduled" /\ after = "prepared"
           \/ before \in {"scheduled", "prepared"} /\ after = "running"
           \/ /\ before \in {"prepared", "running"}
              /\ after \in {"orphaned", "succeeded", "blocked", "cancelled", "failed"}
    PROVE  Rank(after) > Rank(before)
BY DEF Rank

\* Replacing a node by a sound one that moved on.
LEMMA UpdateStep ==
    ASSUME NEW r \in Run, NEW e, e.node \in Node, NEW node \in NodeState,
           NodeSound(node), Forward(NodeOf(r, e), node)
    PROVE  NodeEventStep(r, Updated(r, e, node))
BY DEF NodeEventStep, NodesStep, Updated, NodeOf, Run

\* Changing only the status of the node.
LEMMA NodeBecomesStep ==
    ASSUME NEW r \in Run, NEW e, e.node \in Node, NEW status \in NodeStatus,
           NodeSound([NodeOf(r, e) EXCEPT !.status = status])
    PROVE  NodeEventStep(r, NodeBecomes(r, e, status))
<1> DEFINE node == [NodeOf(r, e) EXCEPT !.status = status]
<1>1. NodeOf(r, e) \in NodeState
  BY DEF NodeOf, Run
<1>2. node \in NodeState /\ Forward(NodeOf(r, e), node)
  BY <1>1 DEF NodeState, Forward
<1> HIDE DEF node
<1>3. NodeEventStep(r, Updated(r, e, node))
  BY <1>2, UpdateStep DEF node
<1> QED
  BY <1>3 DEF NodeBecomes, node

\* Changing only the current attempt, forward or within its status.
LEMMA AttemptBecomesStep ==
    ASSUME NEW r \in Run, NEW e, e.node \in Node, NEW attempt \in Attempt,
           NodeSound([NodeOf(r, e) EXCEPT !.last = attempt]),
           \/ attempt.status = NodeOf(r, e).last.status
           \/ Rank(attempt.status) > Rank(NodeOf(r, e).last.status)
    PROVE  NodeEventStep(r, AttemptBecomes(r, e, attempt))
<1> DEFINE node == [NodeOf(r, e) EXCEPT !.last = attempt]
<1>1. NodeOf(r, e) \in NodeState
  BY DEF NodeOf, Run
<1>2. node \in NodeState /\ Forward(NodeOf(r, e), node)
  BY <1>1 DEF NodeState, Forward
<1> HIDE DEF node
<1>3. NodeEventStep(r, Updated(r, e, node))
  BY <1>2, UpdateStep DEF node
<1> QED
  BY <1>3 DEF AttemptBecomes, node

-----------------------------------------------------------------------------
\* Attempt evidence: timeouts, cleanups, usage and late answers.
LEMMA EvidenceEvents ==
    ASSUME NEW r \in Run, NEW e, e.node \in Node, NodeSound(NodeOf(r, e)), NEW s,
           \/ s \in ArtifactProduced(r, e)
           \/ s \in ResultEvidence(r, e)
           \/ e.cause \in Cause /\ e.outcome \in CleanupOutcome
              /\ s \in ExecutionCleanupObserved(r, e)
           \/ s \in AttemptTimeoutRequested(r, e)
           \/ e.outcome \in CancellationOutcome /\ s \in AttemptCancellationCompleted(r, e)
           \/ s \in LateResultObserved(r, e)
           \/ e.usage \in BOOLEAN /\ s \in RuntimeEventObserved(r, e)
    PROVE  NodeEventStep(r, s)
<1> DEFINE node == NodeOf(r, e)
           last == node.last
<1> USE DEF When
<1>1. node \in NodeState /\ last \in Attempt
  BY DEF NodeOf, Run, NodeState
<1>2. ASSUME NEW a \in Attempt, a.status = last.status, s = AttemptBecomes(r, e, a),
             a.timeout # "none" => a.status \in {"running", "failed", "orphaned"},
             a.status = "failed" => a.timeout # "requested",
             a.late => a.timeout \in CancellationOutcome
      PROVE  NodeEventStep(r, s)
  <2>1. NodeSound([node EXCEPT !.last = a])
    BY <1>1, <1>2 DEF NodeSound, NodeState
  <2> QED
    BY <1>2, <2>1, AttemptBecomesStep
<1>3. CASE s \in ArtifactProduced(r, e) \/ s \in ResultEvidence(r, e)
  BY <1>3 DEF ArtifactProduced, ResultEvidence, NodeEventStep, NodesStep
<1>4. CASE e.cause \in Cause /\ e.outcome \in CleanupOutcome /\ s \in ExecutionCleanupObserved(r, e)
  <2> DEFINE a == [last EXCEPT !.cleanup = @ \cup {<<e.cause, e.outcome>>}]
  <2>1. a \in Attempt /\ a.status = last.status /\ a.timeout = last.timeout /\ a.late = last.late
    BY <1>1, <1>4 DEF Attempt
  <2>2. s = AttemptBecomes(r, e, a)
    BY <1>4 DEF ExecutionCleanupObserved
  <2> QED
    BY <1>2, <2>1, <2>2 DEF NodeSound
<1>5. CASE s \in AttemptTimeoutRequested(r, e)
  <2> DEFINE a == [last EXCEPT !.timeout = "requested"]
  <2>1. a \in Attempt /\ a.status = last.status /\ a.timeout = "requested" /\ a.late = last.late
    BY <1>1 DEF Attempt
  <2>2. s = AttemptBecomes(r, e, a) /\ last.status = "running" /\ last.timeout = "none"
    BY <1>5 DEF AttemptTimeoutRequested, CurrentAttempt
  <2> QED
    BY <1>2, <2>1, <2>2 DEF NodeSound, CancellationOutcome
<1>6. CASE e.outcome \in CancellationOutcome /\ s \in AttemptCancellationCompleted(r, e)
  <2> DEFINE a == [last EXCEPT !.timeout = e.outcome]
  <2>1. a \in Attempt /\ a.status = last.status /\ a.timeout = e.outcome /\ a.late = last.late
    BY <1>1, <1>6 DEF Attempt
  <2>2. s = AttemptBecomes(r, e, a) /\ last.status = "running"
    BY <1>6 DEF AttemptCancellationCompleted, CurrentAttempt
  <2> QED
    BY <1>2, <1>6, <2>1, <2>2 DEF NodeSound
<1>7. CASE s \in LateResultObserved(r, e)
  <2> DEFINE a == [last EXCEPT !.late = TRUE]
  <2>1. a \in Attempt /\ a.status = last.status /\ a.timeout = last.timeout
    BY <1>1 DEF Attempt
  <2>2. s = AttemptBecomes(r, e, a) /\ last.timeout \in CancellationOutcome
    BY <1>7 DEF LateResultObserved
  <2> QED
    BY <1>2, <2>1, <2>2 DEF NodeSound
<1>8. CASE e.usage \in BOOLEAN /\ s \in RuntimeEventObserved(r, e)
  <2> DEFINE a == [last EXCEPT !.usage = @ \/ e.usage]
  <2>1. a \in Attempt /\ a.status = last.status /\ a.timeout = last.timeout /\ a.late = last.late
    BY <1>1, <1>8 DEF Attempt
  <2>2. s = AttemptBecomes(r, e, a)
    BY <1>8 DEF RuntimeEventObserved
  <2> QED
    BY <1>2, <2>1, <2>2 DEF NodeSound
<1> QED
  BY <1>3, <1>4, <1>5, <1>6, <1>7, <1>8

\* The life of an attempt: scheduled, prepared, started, ended, lost.
LEMMA AttemptEvents ==
    ASSUME NEW r \in Run, NEW e, e.node \in Node, NodeSound(NodeOf(r, e)), NEW s,
           \/ s \in AttemptScheduled(r, e)
           \/ s \in AttemptPrepared(r, e)
           \/ s \in AttemptStartAuthorized(r, e)
           \/ s \in AttemptStarted(r, e)
           \/ \E status \in {"succeeded", "blocked", "cancelled"} : s \in AttemptEnded(r, e, status)
           \/ s \in AttemptFailed(r, e)
           \/ e.differs \in BOOLEAN /\ s \in AttemptOrphaned(r, e)
    PROVE  NodeEventStep(r, s)
<1> DEFINE node == NodeOf(r, e)
           last == node.last
<1> USE DEF When
<1>1. node \in NodeState /\ last \in Attempt /\ node.attempts \in Nat
  BY DEF NodeOf, Run, NodeState
<1>2. CASE s \in AttemptScheduled(r, e)
  <2> DEFINE a == [NoAttempt EXCEPT !.status = "scheduled"]
             x == [node EXCEPT !.attempts = e.attempt, !.last = a]
  <2>1. a \in Attempt /\ a.status = "scheduled" /\ a.timeout = "none" /\ ~a.late
    BY DEF NoAttempt, Attempt, AttemptStatus
  <2>2. s = Updated(r, e, x) /\ e.attempt = node.attempts + 1 /\ e.attempt \in Nat
        /\ node.status = "ready"
    BY <1>1, <1>2 DEF AttemptScheduled, NodeIn
  <2>3. x \in NodeState /\ x.status = "ready" /\ x.last = a /\ x.attempts = node.attempts + 1
    BY <1>1, <2>1, <2>2 DEF NodeState
  <2>4. NodeSound(x) /\ Forward(node, x)
    BY <2>1, <2>3 DEF NodeSound, Forward
  <2> QED
    BY <2>2, <2>3, <2>4, UpdateStep
<1>3. CASE s \in AttemptPrepared(r, e)
  <2> DEFINE a == [last EXCEPT !.status = "prepared", !.plan = TRUE]
  <2>1. a \in Attempt /\ a.status = "prepared" /\ a.timeout = last.timeout /\ a.late = last.late
    BY <1>1 DEF Attempt, AttemptStatus
  <2>2. s = AttemptBecomes(r, e, a) /\ last.status = "scheduled" /\ node.status = "ready"
    BY <1>3 DEF AttemptPrepared, CurrentAttempt, NodeIn
  <2>3. NodeSound([node EXCEPT !.last = a])
    BY <1>1, <2>1, <2>2 DEF NodeSound, NodeState, CancellationOutcome
  <2>4. Rank(a.status) > Rank(last.status)
    BY <2>1, <2>2, RankGrows
  <2> QED
    BY <2>1, <2>2, <2>3, <2>4, AttemptBecomesStep
<1>4. CASE s \in AttemptStartAuthorized(r, e) \/ s \in AttemptStarted(r, e)
  <2> DEFINE a == [last EXCEPT !.status = "running"]
             x == [node EXCEPT !.status = "running", !.last = [@ EXCEPT !.status = "running"]]
  <2>1. a \in Attempt /\ a.status = "running" /\ a.timeout = last.timeout /\ a.late = last.late
    BY <1>1 DEF Attempt, AttemptStatus
  <2>2. s = Updated(r, e, x) /\ last.status \in {"prepared", "scheduled"} /\ node.status = "ready"
    BY <1>4 DEF AttemptStartAuthorized, AttemptStarted, Started, CurrentAttempt, NodeIn
  <2>3. x \in NodeState /\ x.status = "running" /\ x.last = a /\ x.attempts = node.attempts
    BY <1>1, <2>1 DEF NodeState, NodeStatus
  <2>4. NodeSound(x)
    BY <2>1, <2>2, <2>3 DEF NodeSound
  <2>5. Rank(a.status) > Rank(last.status)
    BY <2>1, <2>2, RankGrows
  <2>6. Forward(node, x)
    BY <2>3, <2>5 DEF Forward
  <2> QED
    BY <2>2, <2>3, <2>4, <2>6, UpdateStep
<1>5. CASE \/ \E status \in {"succeeded", "blocked", "cancelled"} : s \in AttemptEnded(r, e, status)
           \/ s \in AttemptFailed(r, e)
  <2>1. PICK status \in {"succeeded", "blocked", "cancelled", "failed"} :
          /\ s = AttemptBecomes(r, e, [last EXCEPT !.status = status])
          /\ last.status = "running" /\ node.status = "running"
          /\ last.timeout # "none" => status = "failed" /\ last.timeout \in CancellationOutcome
    BY <1>5 DEF AttemptEnded, AttemptFailed, CurrentAttempt, NodeIn
  <2> DEFINE a == [last EXCEPT !.status = status]
  <2>2. a \in Attempt /\ a.status = status /\ a.timeout = last.timeout /\ a.late = last.late
    BY <1>1 DEF Attempt, AttemptStatus
  <2>3. NodeSound([node EXCEPT !.last = a])
    BY <1>1, <2>1, <2>2 DEF NodeSound, NodeState, CancellationOutcome
  <2>4. Rank(a.status) > Rank(last.status)
    BY <2>1, <2>2, RankGrows
  <2> QED
    BY <2>1, <2>2, <2>3, <2>4, AttemptBecomesStep
<1>6. CASE e.differs \in BOOLEAN /\ s \in AttemptOrphaned(r, e)
  <2> DEFINE a == [last EXCEPT !.status = "orphaned", !.differs = e.differs]
             x == [node EXCEPT !.status = "running",
                               !.last = [@ EXCEPT !.status = "orphaned", !.differs = e.differs]]
  <2>1. a \in Attempt /\ a.status = "orphaned" /\ a.timeout = last.timeout /\ a.late = last.late
    BY <1>1, <1>6 DEF Attempt, AttemptStatus
  <2>2. s = Updated(r, e, x) /\ last.status \in {"prepared", "running"}
    BY <1>6 DEF AttemptOrphaned, CurrentAttempt
  <2>3. x \in NodeState /\ x.status = "running" /\ x.last = a /\ x.attempts = node.attempts
    BY <1>1, <2>1 DEF NodeState, NodeStatus
  <2>4. NodeSound(x)
    BY <2>1, <2>2, <2>3 DEF NodeSound
  <2>5. Rank(a.status) > Rank(last.status)
    BY <2>1, <2>2, RankGrows
  <2>6. Forward(node, x)
    BY <2>3, <2>5 DEF Forward
  <2> QED
    BY <2>2, <2>3, <2>4, <2>6, UpdateStep
<1> QED
  BY <1>2, <1>3, <1>4, <1>5, <1>6

\* The life of a node.
LEMMA NodeEvents ==
    ASSUME NEW r \in Run, NEW e, e.node \in Node, NodeSound(NodeOf(r, e)), NEW s,
           \/ s \in NodeReady(r, e)
           \/ \E status \in {"succeeded", "failed"} : s \in NodeEnded(r, e, status)
           \/ s \in NodeBlocked(r, e)
           \/ e.reason \in PauseKind \cup {"none"} /\ s \in NodePaused(r, e)
           \/ s \in NodeCancelled(r, e)
    PROVE  NodeEventStep(r, s)
<1> DEFINE node == NodeOf(r, e)
<1> USE DEF When
<1>1. node \in NodeState
  BY DEF NodeOf, Run
<1>2. CASE s \in NodeReady(r, e)
  <2> DEFINE x == [node EXCEPT !.status = "ready", !.pause = "none"]
  <2>1. x \in NodeState /\ x.status = "ready" /\ x.last = node.last /\ x.attempts = node.attempts
    BY <1>1 DEF NodeState, NodeStatus
  <2>2. s = Updated(r, e, x)
    BY <1>2 DEF NodeReady
  <2>3. NodeSound(x)
    BY <1>2, <2>1 DEF NodeReady, NodeSound, NodeIn
  <2>4. Forward(node, x)
    BY <2>1 DEF Forward
  <2> QED
    BY <2>1, <2>2, <2>3, <2>4, UpdateStep
<1>3. CASE \E status \in {"succeeded", "failed"} : s \in NodeEnded(r, e, status)
  <2>1. PICK status \in {"succeeded", "failed"} :
          s = NodeBecomes(r, e, status) /\ node.last.status = status
    BY <1>3 DEF NodeEnded
  <2>2. NodeSound([node EXCEPT !.status = status])
    BY <1>1, <2>1 DEF NodeSound, NodeState
  <2> QED
    BY <2>1, <2>2, NodeBecomesStep DEF NodeStatus
<1>4. CASE s \in NodeBlocked(r, e) \/ s \in NodeCancelled(r, e)
  <2>1. PICK status \in {"blocked", "cancelled"} :
          /\ s = NodeBecomes(r, e, status)
          /\ node.status = "running" => node.last.status # "running"
    BY <1>4 DEF NodeBlocked, NodeCancelled, ActiveAttemptStopped, NodeIn
  <2>2. NodeSound([node EXCEPT !.status = status])
    BY <1>1, <2>1 DEF NodeSound, NodeState
  <2> QED
    BY <2>1, <2>2, NodeBecomesStep DEF NodeStatus
<1>5. CASE e.reason \in PauseKind \cup {"none"} /\ s \in NodePaused(r, e)
  <2>1. CASE s = NodeBecomes(r, e, "paused") /\ node.status \in {"pending", "ready"}
    <3>1. NodeSound([node EXCEPT !.status = "paused"])
      BY <1>1, <2>1 DEF NodeSound, NodeState
    <3> QED
      BY <2>1, <3>1, NodeBecomesStep DEF NodeStatus
  <2>2. CASE s = Updated(r, e, [node EXCEPT !.status = "paused", !.pause = e.reason])
             /\ (node.status = "running" => node.last.status # "running")
    <3> DEFINE x == [node EXCEPT !.status = "paused", !.pause = e.reason]
    <3>1. x \in NodeState /\ x.status = "paused" /\ x.last = node.last
          /\ x.attempts = node.attempts
      BY <1>1, <1>5 DEF NodeState, NodeStatus
    <3>2. NodeSound(x)
      BY <2>2, <3>1 DEF NodeSound
    <3>3. Forward(node, x)
      BY <3>1 DEF Forward
    <3> QED
      BY <2>2, <3>1, <3>2, <3>3, UpdateStep
  <2> QED
    BY <1>5, <2>1, <2>2 DEF NodePaused, ActiveAttemptStopped, NodeIn
<1> QED
  BY <1>2, <1>3, <1>4, <1>5

\* The events about the run itself: no node changes, and a run completes as its nodes did.
LEMMA RunLevelEvents ==
    ASSUME NEW r \in Run, NEW e, NEW s,
           \/ s \in RuntimeConfigured(r, e)
           \/ s \in RuntimeNegotiated(r, e)
           \/ s \in WorkspaceAssigned(r, e)
           \/ s \in ControlRequestObserved(r, e)
           \/ s \in RunPaused(r, e)
           \/ s \in RunResumed(r, e)
           \/ s \in RunBlocked(r, e)
           \/ s \in RunCancelled(r, e)
           \/ e.outcome \in {"succeeded", "failed"} /\ s \in RunCompleted(r, e)
           \/ s \in RunRecoveryBlocked(r, e)
    PROVE  /\ s \in Run
           /\ s.nodes = r.nodes
           /\ \/ s.status = r.status
              \/ s.status \notin {"succeeded", "failed"}
              \/ s.status = "succeeded" /\ \A n \in Node : r.nodes[n].status = "succeeded"
              \/ s.status = "failed" /\ \E n \in Node : r.nodes[n].status = "failed"
<1> USE DEF When
<1>1. CASE \/ s \in RuntimeConfigured(r, e)
           \/ s \in RuntimeNegotiated(r, e)
           \/ s \in WorkspaceAssigned(r, e)
           \/ s \in ControlRequestObserved(r, e)
  BY <1>1 DEF RuntimeConfigured, RuntimeNegotiated, WorkspaceAssigned, ControlRequestObserved, Run
<1>2. ASSUME NEW status \in RunStatus, s = [r EXCEPT !.status = status]
      PROVE  s \in Run /\ s.nodes = r.nodes /\ s.status = status
  BY <1>2 DEF Run
<1>3. CASE s \in RunPaused(r, e) \/ s \in RunResumed(r, e) \/ s \in RunBlocked(r, e)
           \/ s \in RunCancelled(r, e) \/ s \in RunRecoveryBlocked(r, e)
  <2>1. PICK status \in {"paused", "running", "blocked", "cancelled", "recovery-blocked"} :
          s = [r EXCEPT !.status = status]
    BY <1>3 DEF RunPaused, RunResumed, RunBlocked, RunCancelled, RunRecoveryBlocked
  <2> QED
    BY <1>2, <2>1 DEF RunStatus
<1>4. CASE e.outcome \in {"succeeded", "failed"} /\ s \in RunCompleted(r, e)
  <2>1. /\ s = [r EXCEPT !.status = e.outcome]
        /\ e.outcome = "succeeded" => \A n \in Node : r.nodes[n].status = "succeeded"
        /\ e.outcome = "failed" => \E n \in Node : r.nodes[n].status = "failed"
    BY <1>4 DEF RunCompleted
  <2>2. s \in Run /\ s.nodes = r.nodes /\ s.status = e.outcome
    BY <1>2, <1>4, <2>1 DEF RunStatus
  <2> QED
    BY <1>4, <2>1, <2>2
<1> QED
  BY <1>1, <1>3, <1>4

-----------------------------------------------------------------------------
\* Every accepted event changes the run or one node, and never a terminal run.
LEMMA AppliedStep ==
    ASSUME NEW r \in Run, \A n \in Node : NodeSound(r.nodes[n]),
           NEW e \in Payload, NEW s \in Applied(r, e)
    PROVE  /\ r.status \notin TerminalRun
           /\ s \in Run
           /\ NodesStep(r.nodes, s.nodes)
           /\ \/ s.status = r.status
              \/ s.status \notin {"succeeded", "failed"}
              \/ /\ s.nodes = r.nodes
                 /\ \/ s.status = "succeeded" /\ \A n \in Node : r.nodes[n].status = "succeeded"
                    \/ s.status = "failed" /\ \E n \in Node : r.nodes[n].status = "failed"
<1>1. r.status \notin TerminalRun
  BY DEF Applied
<1>2. ASSUME NodeEventStep(r, s)
      PROVE  s \in Run /\ NodesStep(r.nodes, s.nodes) /\ s.status = r.status
  BY <1>2 DEF NodeEventStep
<1>3. ASSUME e.node \in Node
      PROVE  NodeSound(NodeOf(r, e))
  BY <1>3 DEF NodeOf
<1>4. CASE e.type \in {"ArtifactProduced", "WorkspaceObserved", "CommandCompleted",
                       "ExecutionCleanupObserved", "AttemptTimeoutRequested",
                       "AttemptCancellationCompleted", "LateResultObserved",
                       "RuntimeEventObserved"}
  <2>1. e.node \in Node
    BY <1>4, PayloadFields
  <2>2. \/ s \in ArtifactProduced(r, e)
        \/ s \in ResultEvidence(r, e)
        \/ e.cause \in Cause /\ e.outcome \in CleanupOutcome
           /\ s \in ExecutionCleanupObserved(r, e)
        \/ s \in AttemptTimeoutRequested(r, e)
        \/ e.outcome \in CancellationOutcome /\ s \in AttemptCancellationCompleted(r, e)
        \/ s \in LateResultObserved(r, e)
        \/ e.usage \in BOOLEAN /\ s \in RuntimeEventObserved(r, e)
    BY <1>1, <1>4, PayloadFields DEF Applied
  <2> QED
    BY <1>1, <1>2, <1>3, <2>1, <2>2, EvidenceEvents
<1>5. CASE e.type \in {"AttemptScheduled", "AttemptPrepared", "AttemptStartAuthorized",
                       "AttemptStarted", "AttemptSucceeded", "AttemptBlocked",
                       "AttemptCancelled", "AttemptFailed", "AttemptOrphaned"}
  <2>1. e.node \in Node
    BY <1>5, PayloadFields
  <2>2. \/ s \in AttemptScheduled(r, e)
        \/ s \in AttemptPrepared(r, e)
        \/ s \in AttemptStartAuthorized(r, e)
        \/ s \in AttemptStarted(r, e)
        \/ \E status \in {"succeeded", "blocked", "cancelled"} : s \in AttemptEnded(r, e, status)
        \/ s \in AttemptFailed(r, e)
        \/ e.differs \in BOOLEAN /\ s \in AttemptOrphaned(r, e)
    BY <1>1, <1>5, PayloadFields DEF Applied
  <2> QED
    BY <1>1, <1>2, <1>3, <2>1, <2>2, AttemptEvents
<1>6. CASE e.type \in {"NodeReady", "NodeSucceeded", "NodeFailed", "NodeBlocked", "NodePaused",
                       "NodeCancelled"}
  <2>1. e.node \in Node
    BY <1>6, PayloadFields
  <2>2. \/ s \in NodeReady(r, e)
        \/ \E status \in {"succeeded", "failed"} : s \in NodeEnded(r, e, status)
        \/ s \in NodeBlocked(r, e)
        \/ e.reason \in PauseKind \cup {"none"} /\ s \in NodePaused(r, e)
        \/ s \in NodeCancelled(r, e)
    BY <1>1, <1>6, PayloadFields DEF Applied
  <2> QED
    BY <1>1, <1>2, <1>3, <2>1, <2>2, NodeEvents
<1>7. CASE e.type \in {"RuntimeConfigured", "RuntimeNegotiated", "WorkspaceAssigned",
                       "ControlRequestObserved", "RunPaused", "RunResumed", "RunBlocked",
                       "RunCancelled", "RunCompleted", "RunRecoveryBlocked"}
  <2>1. \/ s \in RuntimeConfigured(r, e)
        \/ s \in RuntimeNegotiated(r, e)
        \/ s \in WorkspaceAssigned(r, e)
        \/ s \in ControlRequestObserved(r, e)
        \/ s \in RunPaused(r, e)
        \/ s \in RunResumed(r, e)
        \/ s \in RunBlocked(r, e)
        \/ s \in RunCancelled(r, e)
        \/ e.outcome \in {"succeeded", "failed"} /\ s \in RunCompleted(r, e)
        \/ s \in RunRecoveryBlocked(r, e)
    BY <1>1, <1>7, PayloadFields DEF Applied
  <2> QED
    BY <1>1, <2>1, RunLevelEvents DEF NodesStep
<1> QED
  BY <1>4, <1>5, <1>6, <1>7 DEF Payload, AttemptEvent

-----------------------------------------------------------------------------
\* The inductive invariant: the properties of one node, for every node, and the agreement
\* of a completed run with its nodes.
IInv ==
    /\ TypeOK
    /\ \A n \in Node : NodeSound(run.nodes[n])
    /\ CompletionAgrees

LEMMA InvInit == Init => IInv
<1> SUFFICES ASSUME Init PROVE IInv
  OBVIOUS
<1>1. NoAttempt \in Attempt /\ NoAttempt.status = "none" /\ NoAttempt.timeout = "none"
      /\ ~NoAttempt.late
  BY DEF NoAttempt, Attempt
<1>2. TypeOK
  BY <1>1 DEF Init, CreatedRun, TypeOK, Run, RunStatus, NodeState, NodeStatus
<1>3. ASSUME NEW n \in Node
      PROVE  /\ run.nodes[n].status = "pending" /\ run.nodes[n].attempts = 0
             /\ run.nodes[n].last = NoAttempt
  BY DEF Init, CreatedRun
<1>4. \A n \in Node : NodeSound(run.nodes[n])
  BY <1>1, <1>3 DEF NodeSound
<1>5. CompletionAgrees
  BY DEF Init, CreatedRun, CompletionAgrees
<1> QED
  BY <1>2, <1>4, <1>5 DEF IInv

LEMMA InvStep == IInv /\ [Next]_run => IInv'
<1> SUFFICES ASSUME IInv, [Next]_run PROVE IInv'
  OBVIOUS
<1>1. CASE UNCHANGED run
  BY <1>1 DEF IInv, TypeOK, CompletionAgrees
<1>2. CASE Next
  <2>1. PICK e \in Payload : run' \in Applied(run, e)
    BY <1>2 DEF Next, Apply
  <2>2. /\ run.status \notin TerminalRun
        /\ run' \in Run
        /\ NodesStep(run.nodes, run'.nodes)
        /\ \/ run'.status = run.status
           \/ run'.status \notin {"succeeded", "failed"}
           \/ /\ run'.nodes = run.nodes
              /\ \/ run'.status = "succeeded" /\ \A n \in Node : run.nodes[n].status = "succeeded"
                 \/ run'.status = "failed" /\ \E n \in Node : run.nodes[n].status = "failed"
    BY <2>1, AppliedStep DEF IInv, TypeOK
  <2>3. \A n \in Node : NodeSound(run'.nodes[n])
    BY <2>2 DEF IInv, NodesStep, TypeOK, Run
  <2>4. CompletionAgrees'
    BY <2>2, <2>3 DEF CompletionAgrees, TerminalRun, NodeSound
  <2> QED
    BY <2>2, <2>3, <2>4 DEF IInv, TypeOK
<1> QED
  BY <1>1, <1>2 DEF Next

LEMMA Inductive == Spec => []IInv
  BY InvInit, InvStep, PTL DEF Spec

\* The reducer keeps a run well-typed.
THEOREM TypeCorrect == Spec => []TypeOK
<1>1. IInv => TypeOK
  BY DEF IInv
<1> QED
  BY <1>1, Inductive, PTL

\* applyNodeEvent and applyAttemptEvent agree in every history the reducer accepts.
THEOREM NodesFollowAttempts == Spec => []NodeFollowsAttempt
<1>1. IInv => NodeFollowsAttempt
  BY DEF IInv, NodeFollowsAttempt, NodeSound
<1> QED
  BY <1>1, Inductive, PTL

\* No late answer turns a timed-out attempt into another result.
THEOREM TimeoutsAreFinal == Spec => []TimeoutIsFinal
<1>1. IInv => TimeoutIsFinal
  BY DEF IInv, TimeoutIsFinal, NodeSound
<1> QED
  BY <1>1, Inductive, PTL

\* A completed run agrees with its nodes, and nothing reopens them.
THEOREM CompletedRunsAgree == Spec => []CompletionAgrees
<1>1. IInv => CompletionAgrees
  BY DEF IInv
<1> QED
  BY <1>1, Inductive, PTL

\* Work continues only under a later attempt number.
THEOREM AttemptsOnlyMoveForward == Spec => AttemptsMoveForward
<1>1. IInv /\ [Next]_run => [\A n \in Node : Forward(run.nodes[n], run'.nodes[n])]_run
  <2> SUFFICES ASSUME IInv, Next, NEW n \in Node
               PROVE  Forward(run.nodes[n], run'.nodes[n])
    OBVIOUS
  <2>1. PICK e \in Payload : run' \in Applied(run, e)
    BY DEF Next, Apply
  <2>2. NodesStep(run.nodes, run'.nodes)
    BY <2>1, AppliedStep DEF IInv, TypeOK
  <2> QED
    BY <2>2 DEF NodesStep, Forward, IInv, TypeOK, Run
<1> QED
  BY <1>1, Inductive, PTL DEF Spec, AttemptsMoveForward

-----------------------------------------------------------------------------
(* The queue of an adapter *)

\* What a queue may hold, and what is pushed while an execution runs.
Entry == [type : {"started", "metadata", "log", "usage", "summary", "completed"},
          dropped : Nat, status : {"none", "succeeded", "failed", "cancelled"}]
Quiet == {Event(t) : t \in {"started", "metadata", "log", "usage"}}
Box == [queue : Seq(Entry), dropped : Nat, emitted : Nat, delivered : Nat, admitted : Nat,
        seen : {"none", "succeeded", "failed", "cancelled"}]

\* The places of its logs.
Logs(q) == {i \in 1..Len(q) : IsLog(q[i])}
LogCount(q) == Cardinality(Logs(q))

\* Every queue has finitely many logs.
LEMMA LogsAreCounted ==
    ASSUME NEW q \in Seq(Entry)
    PROVE  IsFiniteSet(Logs(q)) /\ LogCount(q) \in Nat /\ (Logs(q) = {} => LogCount(q) = 0)
<1>1. Len(q) \in Int /\ Logs(q) \in SUBSET (1..Len(q))
  BY LenProperties DEF Logs
<1>2. IsFiniteSet(1..Len(q))
  BY <1>1, FS_Interval
<1>3. IsFiniteSet(Logs(q))
  BY <1>1, <1>2, FS_Subset
<1>4. LogCount(q) \in Nat
  BY <1>3, FS_CardinalityType DEF LogCount
<1> QED  BY <1>3, <1>4, FS_EmptySet DEF LogCount

\* An event put at the end counts if it is a log.
LEMMA AppendCounts ==
    ASSUME NEW q \in Seq(Entry), NEW e \in Entry
    PROVE  LogCount(Append(q, e)) = LogCount(q) + (IF IsLog(e) THEN 1 ELSE 0)
<1> DEFINE a == Append(q, e)
           n == Len(q)
<1>1. /\ n \in Nat /\ Len(a) = n + 1 /\ a[n + 1] = e
      /\ \A i \in 1..n : a[i] = q[i]
  BY AppendProperties, LenProperties
<1>2. Logs(a) = IF IsLog(e) THEN Logs(q) \cup {n + 1} ELSE Logs(q)
  BY <1>1 DEF Logs
<1>3. n + 1 \notin Logs(q)
  BY <1>1 DEF Logs
<1>4. IsFiniteSet(Logs(q)) /\ LogCount(q) \in Nat
  BY LogsAreCounted
<1>5. CASE IsLog(e)
  <2>1. Cardinality(Logs(q) \cup {n + 1}) = Cardinality(Logs(q)) + 1
    BY <1>3, <1>4, FS_AddElement
  <2> QED  BY <1>2, <1>5, <2>1 DEF LogCount
<1> QED  BY <1>2, <1>4, <1>5 DEF LogCount

\* What is left of a queue when the event at place i is taken out.
LEMMA RemoveProperties ==
    ASSUME NEW q \in Seq(Entry), NEW i \in 1..Len(q)
    PROVE  LET r == RemoveAt(q, i)
           IN /\ r \in Seq(Entry) /\ Len(r) = Len(q) - 1
              /\ \A j \in 1..Len(r) : r[j] = IF j < i THEN q[j] ELSE q[j + 1]
<1> DEFINE n == Len(q)
           front == SubSeq(q, 1, i - 1)
           back == SubSeq(q, i + 1, n)
<1>1. n \in Nat /\ i \in 1..n /\ \A j \in 1..n : q[j] \in Entry
  BY LenProperties, ElementOfSeq
<1>2. /\ front \in Seq(Entry) /\ Len(front) = i - 1
      /\ \A j \in 1..(i - 1) : front[j] = q[j]
  <2>1. 1 \in Int /\ i - 1 \in Int /\ \A j \in 1..(i - 1) : q[j] \in Entry
    BY <1>1
  <2>2. /\ front \in Seq(Entry) /\ Len(front) = IF 1 <= i - 1 THEN i - 1 - 1 + 1 ELSE 0
        /\ \A j \in 1..(i - 1 - 1 + 1) : front[j] = q[1 + j - 1]
    BY <2>1, SubSeqProperties
  <2> QED  BY <1>1, <2>2
<1>3. /\ back \in Seq(Entry) /\ Len(back) = n - i
      /\ \A j \in 1..(n - i) : back[j] = q[i + j]
  <2>1. i + 1 \in Int /\ n \in Int /\ \A j \in (i + 1)..n : q[j] \in Entry
    BY <1>1
  <2>2. /\ back \in Seq(Entry) /\ Len(back) = IF i + 1 <= n THEN n - (i + 1) + 1 ELSE 0
        /\ \A j \in 1..(n - (i + 1) + 1) : back[j] = q[i + 1 + j - 1]
    BY <2>1, SubSeqProperties
  <2> QED  BY <1>1, <2>2
<1> HIDE DEF front, back
<1>4. /\ front \o back \in Seq(Entry) /\ Len(front \o back) = Len(front) + Len(back)
      /\ \A j \in 1..(Len(front) + Len(back)) :
            (front \o back)[j] = IF j <= Len(front) THEN front[j] ELSE back[j - Len(front)]
  BY <1>2, <1>3, ConcatProperties
<1>5. RemoveAt(q, i) = front \o back
  BY DEF RemoveAt, front, back
<1>6. Len(front \o back) = n - 1
  BY <1>1, <1>2, <1>3, <1>4
<1>7. ASSUME NEW j \in 1..(n - 1)
      PROVE  (front \o back)[j] = IF j < i THEN q[j] ELSE q[j + 1]
  <2>1. (front \o back)[j] = IF j <= i - 1 THEN front[j] ELSE back[j - (i - 1)]
    BY <1>1, <1>2, <1>3, <1>4
  <2>2. CASE j <= i - 1
    BY <1>1, <1>2, <2>1, <2>2
  <2>3. CASE ~(j <= i - 1)
    <3>1. j - (i - 1) \in 1..(n - i) /\ i + (j - (i - 1)) = j + 1
      BY <1>1, <2>3
    <3> QED  BY <1>1, <1>3, <2>1, <2>3, <3>1
  <2> QED  BY <2>2, <2>3
<1> QED  BY <1>4, <1>5, <1>6, <1>7

\* A log taken out counts no more; whatever else is, counted nothing.
LEMMA RemoveCounts ==
    ASSUME NEW q \in Seq(Entry), NEW i \in 1..Len(q)
    PROVE  LogCount(RemoveAt(q, i)) = LogCount(q) - (IF IsLog(q[i]) THEN 1 ELSE 0)
<1> DEFINE r == RemoveAt(q, i)
           n == Len(q)
           f == [j \in Logs(r) |-> IF j < i THEN j ELSE j + 1]
           rest == Logs(q) \ {i}
<1>1. /\ n \in Nat /\ r \in Seq(Entry) /\ Len(r) = n - 1
      /\ \A j \in 1..(n - 1) : r[j] = IF j < i THEN q[j] ELSE q[j + 1]
  BY RemoveProperties, LenProperties
<1> HIDE DEF r
<1>2. f \in [Logs(r) -> rest]
  BY <1>1 DEF Logs
<1>3. \A j, k \in Logs(r) : f[j] = f[k] => j = k
  BY <1>1 DEF Logs
<1>4. ASSUME NEW k \in rest
      PROVE  \E j \in Logs(r) : f[j] = k
  <2>1. CASE k < i
    <3>1. k \in Logs(r)
      BY <1>1, <2>1 DEF Logs
    <3> QED  BY <3>1, <2>1
  <2>2. CASE k > i
    <3>1. k - 1 \in Logs(r) /\ ~(k - 1 < i) /\ (k - 1) + 1 = k
      BY <1>1, <2>2 DEF Logs
    <3> QED  BY <3>1
  <2> QED  BY <1>1, <2>1, <2>2 DEF Logs
<1>5. ExistsBijection(Logs(r), rest)
  BY <1>2, <1>3, <1>4, Fun_IsBij DEF ExistsBijection
<1>6. IsFiniteSet(Logs(r)) /\ IsFiniteSet(Logs(q))
  BY <1>1, LogsAreCounted
<1>7. Cardinality(rest) = Cardinality(Logs(r))
  BY <1>5, <1>6, FS_Bijection
<1>8. Cardinality(rest) = IF i \in Logs(q) THEN Cardinality(Logs(q)) - 1 ELSE Cardinality(Logs(q))
  BY <1>6, FS_RemoveElement
<1>9. Cardinality(Logs(q)) \in Nat
  BY LogsAreCounted DEF LogCount
<1> QED  BY <1>7, <1>8, <1>9 DEF LogCount, Logs, r

\* The same of the first event.
LEMMA TailCounts ==
    ASSUME NEW q \in Seq(Entry), q # <<>>
    PROVE  /\ Tail(q) \in Seq(Entry) /\ Len(Tail(q)) = Len(q) - 1 /\ Len(q) \in Nat \ {0}
           /\ \A j \in 1..(Len(q) - 1) : Tail(q)[j] = q[j + 1]
           /\ Head(q) = q[1] /\ q[1] \in Entry
           /\ LogCount(Tail(q)) = LogCount(q) - (IF IsLog(q[1]) THEN 1 ELSE 0)
<1>1. Len(q) \in Nat \ {0}
  BY EmptySeq
<1>2. /\ Tail(q) \in Seq(Entry) /\ Len(Tail(q)) = Len(q) - 1
      /\ \A j \in 1..(Len(q) - 1) : Tail(q)[j] = q[j + 1]
  BY HeadTailProperties
<1>3. Head(q) = q[1] /\ q[1] \in Entry
  BY <1>1, ElementOfSeq
<1>4. 1 \in 1..Len(q)
  BY <1>1
<1> DEFINE r == RemoveAt(q, 1)
<1>5. r \in Seq(Entry) /\ Len(r) = Len(q) - 1 /\ \A j \in 1..Len(r) : r[j] = q[j + 1]
  BY <1>1, <1>4, RemoveProperties
<1>6. LogCount(r) = LogCount(q) - (IF IsLog(q[1]) THEN 1 ELSE 0)
  BY <1>4, RemoveCounts
<1> HIDE DEF r
<1>7. Tail(q) = r
  BY <1>1, <1>2, <1>5, SeqEqual
<1> QED  BY <1>1, <1>2, <1>3, <1>6, <1>7

Oldest(q) == SelectInSeq(q, IsLog)

\* The log that is displaced is the first one, and without a log there is none to count.
LEMMA OldestLog ==
    ASSUME NEW q \in Seq(Entry)
    PROVE  /\ Oldest(q) \in 0..Len(q)
           /\ Oldest(q) > 0 => IsLog(q[Oldest(q)])
           /\ Oldest(q) = 0 => Logs(q) = {} /\ LogCount(q) = 0
<1>1. Len(q) \in Nat /\ Logs(q) \subseteq 1..Len(q) /\ \A i \in Logs(q) : IsLog(q[i])
  BY LenProperties DEF Logs
<1>2. Oldest(q) = IF Logs(q) # {} THEN Min(Logs(q)) ELSE 0
  BY DEF Oldest, SelectInSeq, Logs
<1>3. CASE Logs(q) = {}
  BY <1>1, <1>2, <1>3, LogsAreCounted
<1>4. CASE Logs(q) # {}
  <2>1. Logs(q) \in SUBSET Nat
    BY <1>1
  <2>2. PICK m \in Logs(q) : \A k \in Logs(q) : <<k, m>> \notin OpToRel(<, Nat)
    BY <1>4, <2>1, WFMin, NatLessThanWellFounded, Zenon
  <2>3. \A k \in Logs(q) : ~(k < m)
    BY <2>1, <2>2, Zenon DEF OpToRel
  <2>4. \E l \in Logs(q) : \A k \in Logs(q) : l =< k
    BY <2>1, <2>3
  <2>5. Min(Logs(q)) \in Logs(q)
    BY <2>4, Zenon DEF Min
  <2> QED  BY <1>1, <1>2, <1>4, <2>5
<1> QED  BY <1>3, <1>4

\* What a running execution has pushed is queued, delivered or dropped.
Counted(b) ==
    /\ b \in Box /\ b.admitted = 0 /\ b.seen = "none"
    /\ \A i \in 1..Len(b.queue) : b.queue[i] \in Quiet
    /\ b.emitted = b.delivered + b.dropped + LogCount(b.queue)

\* At most k events are no logs.
Room(b, k) == Len(b.queue) <= LogCount(b.queue) + k

\* What a finished one pushed is queued or accounted for; the summary counts what was dropped.
Ended(b, r) ==
    LET n == Len(b.queue)
    IN /\ b \in Box /\ n <= Capacity + 2
       /\ IF b.seen = "none"
          THEN /\ n > 0 /\ b.queue[n] = [Event("completed") EXCEPT !.status = Status(r)]
               /\ \A i \in 1..(n - 1) : b.queue[i].type # "completed"
               /\ \A i \in 1..(n - 2) : b.queue[i].dropped = 0
               /\ b.emitted = b.delivered + b.admitted + LogCount(b.queue)
                                + (IF n > 1 THEN b.queue[n - 1].dropped ELSE 0)
          ELSE n = 0 /\ b.seen = Status(r) /\ b.emitted = b.delivered + b.admitted

\* What an execution pushes while it runs.
LEMMA QuietEvents ==
    /\ \A t \in {"started", "metadata", "log", "usage"} :
          Event(t) \in Quiet /\ (IsLog(Event(t)) <=> t = "log")
    /\ \A e \in Quiet : e \in Entry /\ e.dropped = 0 /\ e.type # "completed"
BY DEF Quiet, Entry, Event, IsLog

\* Where not everything can be a required event, one that is pushed finds its place.
LEMMA RoomIsEnough ==
    ASSUME NEW b, Counted(b), NEW k \in Nat, Room(b, k), k < Capacity, NEW e \in Quiet
    PROVE  ~Overflows(b, e)
<1>1. b.queue \in Seq(Entry)
  BY DEF Counted, Box
<1>2. Len(b.queue) \in Nat /\ LogCount(b.queue) \in Nat /\ DOMAIN b.queue = 1..Len(b.queue)
  BY <1>1, LogsAreCounted, LenProperties
<1>3. SUFFICES ASSUME Full(b) PROVE Logs(b.queue) # {}
  BY <1>2 DEF Overflows, Logs
<1>4. LogCount(b.queue) # 0
  BY <1>2, <1>3, AdapterConstants DEF Full, Room
<1> QED  BY <1>1, <1>4, LogsAreCounted

\* A push keeps the account, whichever log it drops, and takes no place from what is required.
LEMMA PushCounts ==
    ASSUME NEW b, Counted(b), Len(b.queue) <= Capacity, NEW e \in Quiet, ~Overflows(b, e)
    PROVE  /\ Counted(Push(b, e)) /\ Len(Push(b, e).queue) <= Capacity
           /\ \A k \in Nat : Room(b, k) => Room(Push(b, e), IF IsLog(e) THEN k ELSE k + 1)
<1> DEFINE q == b.queue
           n == Len(q)
           one == IF IsLog(e) THEN 1 ELSE 0
           i == Oldest(q)
           x == Push(b, e).queue
           lost == IF Full(b) THEN 1 ELSE 0
<1>1. /\ q \in Seq(Entry) /\ e \in Entry /\ n \in Nat /\ LogCount(q) \in Nat /\ DOMAIN q = 1..n
      /\ b \in Box /\ b.dropped \in Nat /\ b.emitted \in Nat /\ Capacity \in Nat
      /\ \A j \in 1..n : q[j] \in Quiet
  BY QuietEvents, LogsAreCounted, LenProperties, AdapterConstants DEF Counted, Box
<1>2. x = IF ~Full(b) THEN Append(q, e) ELSE IF i > 0 THEN Append(RemoveAt(q, i), e) ELSE q
  BY <1>1 DEF Push, Box, Oldest
<1>3. /\ x \in Seq(Entry) /\ Len(x) <= Capacity /\ \A j \in 1..Len(x) : x[j] \in Quiet
      /\ LogCount(x) \in Nat /\ LogCount(x) = LogCount(q) + one - lost
      /\ Len(x) <= n + 1 - lost
  <2>1. CASE ~Full(b)
    <3>1. x = Append(q, e)
      BY <1>2, <2>1
    <3>2. /\ x \in Seq(Entry) /\ Len(x) = n + 1 /\ x[n + 1] = e
          /\ \A j \in 1..n : x[j] = q[j]
      BY <1>1, <3>1, AppendProperties
    <3>3. LogCount(x) = LogCount(q) + one
      BY <1>1, <3>1, AppendCounts
    <3>4. n < Capacity
      BY <1>1, <2>1 DEF Full
    <3>5. LogCount(x) \in Nat
      BY <3>2, LogsAreCounted
    <3>6. \A j \in 1..Len(x) : x[j] \in Quiet
      BY <1>1, <3>2
    <3> QED  BY <1>1, <2>1, <3>2, <3>3, <3>4, <3>5, <3>6
  <2>2. CASE Full(b) /\ i > 0
    <3> DEFINE r == RemoveAt(q, i)
    <3>1. i \in 1..n /\ IsLog(q[i])
      BY <1>1, <2>2, OldestLog
    <3>2. /\ r \in Seq(Entry) /\ Len(r) = n - 1
          /\ \A j \in 1..(n - 1) : r[j] = IF j < i THEN q[j] ELSE q[j + 1]
      BY <1>1, <3>1, RemoveProperties
    <3>3. LogCount(r) = LogCount(q) - 1
      BY <1>1, <3>1, RemoveCounts
    <3>4. x = Append(r, e)
      BY <1>2, <2>2
    <3> HIDE DEF r, i, x, n, q
    <3>5. /\ x \in Seq(Entry) /\ Len(x) = Len(r) + 1 /\ x[Len(r) + 1] = e
          /\ \A j \in 1..Len(r) : x[j] = r[j]
      BY <1>1, <3>2, <3>4, AppendProperties
    <3>6. LogCount(x) = LogCount(r) + one
      BY <1>1, <3>2, <3>4, AppendCounts
    <3>7. ASSUME NEW j \in 1..(n - 1) PROVE r[j] \in Quiet
      <4>1. j \in 1..n /\ j + 1 \in 1..n
        BY <1>1, <3>7
      <4>2. r[j] = q[j] \/ r[j] = q[j + 1]
        BY <3>2, <3>7
      <4> QED  BY <1>1, <4>1, <4>2
    <3>8. \A j \in 1..Len(x) : x[j] \in Quiet
      BY <1>1, <3>1, <3>2, <3>5, <3>7
    <3>9. LogCount(x) \in Nat
      BY <3>5, LogsAreCounted
    <3>10. n <= Capacity
      BY DEF n, q
    <3>11. Len(x) = n
      BY <1>1, <3>1, <3>2, <3>5
    <3> QED  BY <1>1, <2>2, <3>3, <3>5, <3>6, <3>8, <3>9, <3>10, <3>11
  <2>3. CASE Full(b) /\ ~(i > 0)
    <3>1. i = 0
      BY <1>1, <2>3, OldestLog
    <3>2. LogCount(q) = 0 /\ Logs(q) = {}
      BY <1>1, <3>1, OldestLog
    <3>3. IsLog(e)
      BY <1>1, <2>3, <3>2 DEF Overflows, Logs
    <3> QED  BY <1>1, <1>2, <2>3, <3>2, <3>3
  <2> QED  BY <2>1, <2>2, <2>3
<1>4. /\ Push(b, e) = [b EXCEPT !.emitted = @ + one, !.dropped = @ + lost, !.queue = x]
      /\ b.emitted = b.delivered + b.dropped + LogCount(q)
      /\ b.delivered \in Nat
  BY <1>1, <1>2 DEF Push, Counted, Box, Oldest
<1>0. one \in 0..1 /\ lost \in 0..1
  OBVIOUS
<1> HIDE DEF x, i, q, one, lost
<1>5. /\ Push(b, e) \in Box /\ Push(b, e).admitted = 0 /\ Push(b, e).seen = "none" /\ Push(b, e).queue = x
      /\ Push(b, e).emitted = b.emitted + one /\ Push(b, e).dropped = b.dropped + lost
      /\ Push(b, e).delivered = b.delivered
  <2>1. b.emitted + one \in Nat /\ b.dropped + lost \in Nat /\ x \in Seq(Entry) /\ b \in Box
    BY <1>0, <1>1, <1>3
  <2> QED  BY <1>4, <2>1 DEF Counted, Box
<1>6. Counted(Push(b, e))
  <2>1. b.emitted + one = b.delivered + (b.dropped + lost) + LogCount(x)
    <3>1. /\ one \in Int /\ lost \in Int /\ b.delivered \in Int /\ b.dropped \in Int /\ LogCount(q) \in Int
          /\ LogCount(x) = LogCount(q) + one - lost /\ b.emitted = b.delivered + b.dropped + LogCount(q)
      BY <1>0, <1>1, <1>3, <1>4
    <3> QED  BY <3>1
  <2> DEFINE p == Push(b, e)
  <2>2. /\ p \in Box /\ p.admitted = 0 /\ p.seen = "none" /\ p.queue = x
        /\ \A j \in 1..Len(p.queue) : p.queue[j] \in Quiet
    BY <1>3, <1>5
  <2>3. p.emitted = p.delivered + p.dropped + LogCount(p.queue)
    BY <1>5, <2>1, Zenon
  <2> HIDE DEF p
  <2>4. Counted(p)
    BY <2>2, <2>3, Zenon DEF Counted
  <2> QED  BY <2>4 DEF p
<1>7. ASSUME NEW k \in Nat, Room(b, k)
      PROVE  Room(Push(b, e), IF IsLog(e) THEN k ELSE k + 1)
  <2>1. n <= LogCount(q) + k
    BY <1>7 DEF Room, q
  <2>2. Len(x) \in Nat
    BY <1>3, LenProperties
  <2> QED  BY <1>0, <1>1, <1>3, <1>5, <2>1, <2>2 DEF Room, one
<1> QED  BY <1>3, <1>5, <1>6, <1>7

\* The end of run accounts for what was dropped.
LEMMA PublishEnds ==
    ASSUME NEW b, Counted(b), Len(b.queue) <= Capacity, NEW r \in Results, r # "none", Publish(b, r)
    PROVE  Ended(box', r)
<1> DEFINE q == b.queue
           n == Len(q)
           s == [Event("summary") EXCEPT !.dropped = b.dropped]
           c == [Event("completed") EXCEPT !.status = Status(r)]
           x == q \o (IF b.dropped > 0 THEN <<s>> ELSE <<>>) \o <<c>>
           d == IF Len(x) > 1 THEN x[Len(x) - 1].dropped ELSE 0
<1>1. /\ q \in Seq(Entry) /\ n \in Nat /\ LogCount(q) \in Nat /\ b \in Box /\ b.dropped \in Nat
      /\ b.delivered \in Nat /\ n <= Capacity /\ Capacity \in Nat
      /\ \A j \in 1..n : q[j] \in Entry /\ q[j].dropped = 0 /\ q[j].type # "completed"
  BY QuietEvents, LogsAreCounted, LenProperties, AdapterConstants DEF Counted, Box
<1>2. Status(r) \in {"succeeded", "failed", "cancelled"}
  BY DEF Status, Results, Failures
<1>3. /\ s \in Entry /\ s.type = "summary" /\ s.dropped = b.dropped /\ ~IsLog(s)
      /\ c \in Entry /\ c.type = "completed" /\ c.dropped = 0 /\ ~IsLog(c)
  BY <1>1, <1>2 DEF Event, Entry, IsLog
<1>4. box' = [b EXCEPT !.queue = x]
  BY DEF Publish
<1> HIDE DEF q, s, c
<1>5. /\ x \in Seq(Entry) /\ Len(x) \in 1..(Capacity + 2) /\ x[Len(x)] = c
      /\ \A j \in 1..(Len(x) - 1) : x[j].type # "completed"
      /\ \A j \in 1..(Len(x) - 2) : x[j].dropped = 0
      /\ LogCount(x) = LogCount(q) /\ d = b.dropped
  <2>1. CASE b.dropped > 0
    <3> DEFINE y == Append(q, s)
    <3>1. q \o <<s>> = y
      BY <1>1, <1>3, AppendIsConcat
    <3>2. /\ y \in Seq(Entry) /\ Len(y) = n + 1 /\ y[n + 1] = s
          /\ \A j \in 1..n : y[j] = q[j]
      BY <1>1, <1>3, AppendProperties
    <3>3. LogCount(y) = LogCount(q)
      BY <1>1, <1>3, AppendCounts
    <3> HIDE DEF y
    <3>4. x = Append(y, c)
      <4>1. x = y \o <<c>>
        BY <2>1, <3>1
      <4>2. y \o <<c>> = Append(y, c)
        BY <1>3, <3>2, AppendIsConcat
      <4> QED  BY <4>1, <4>2
    <3> HIDE DEF x
    <3>5. /\ x \in Seq(Entry) /\ Len(x) = n + 2 /\ x[n + 2] = c
          /\ \A j \in 1..(n + 1) : x[j] = y[j]
      BY <1>1, <1>3, <3>2, <3>4, AppendProperties
    <3>6. LogCount(x) = LogCount(y)
      BY <1>1, <1>3, <3>2, <3>3, <3>4, AppendCounts
    <3>7. x[n + 1] = s /\ \A j \in 1..n : x[j] = q[j]
      BY <1>1, <3>2, <3>5
    <3>8. d = b.dropped
      BY <1>1, <1>3, <3>5, <3>7
    <3>9. \A j \in 1..(n + 1) : x[j].type # "completed"
      BY <1>1, <1>3, <3>7
    <3>10. \A j \in 1..n : x[j].dropped = 0
      BY <1>1, <3>7
    <3> QED  BY <1>1, <3>3, <3>5, <3>6, <3>8, <3>9, <3>10
  <2>2. CASE ~(b.dropped > 0)
    <3>1. x = Append(q, c)
      <4>1. x = q \o <<>> \o <<c>>
        BY <2>2
      <4>2. q \o <<>> = q
        BY <1>1, ConcatEmptySeq
      <4>3. q \o <<c>> = Append(q, c)
        BY <1>1, <1>3, AppendIsConcat
      <4> HIDE DEF x
      <4> QED  BY <4>1, <4>2, <4>3
    <3> HIDE DEF x
    <3>2. /\ x \in Seq(Entry) /\ Len(x) = n + 1 /\ x[n + 1] = c
          /\ \A j \in 1..n : x[j] = q[j]
      BY <1>1, <1>3, <3>1, AppendProperties
    <3>3. LogCount(x) = LogCount(q)
      BY <1>1, <1>3, <3>1, AppendCounts
    <3>4. d = 0 /\ b.dropped = 0
      BY <1>1, <2>2, <3>2
    <3>5. \A j \in 1..n : x[j].type # "completed" /\ x[j].dropped = 0
      BY <1>1, <3>2
    <3> QED  BY <1>1, <3>2, <3>3, <3>4, <3>5
  <2> QED  BY <2>1, <2>2
<1>6. b.emitted = b.delivered + b.admitted + LogCount(x) + d
  <2>1. b.emitted = b.delivered + b.dropped + LogCount(q) /\ b.admitted = 0
    BY DEF Counted, q
  <2> HIDE DEF x, d
  <2> QED  BY <1>1, <1>5, <2>1
<1> HIDE DEF x
<1>7. /\ box' \in Box /\ box'.queue = x /\ box'.seen = "none" /\ box'.emitted = b.emitted
      /\ box'.delivered = b.delivered /\ box'.admitted = b.admitted
  BY <1>1, <1>4, <1>5 DEF Box, Counted
<1>8. Len(x) > 0 /\ Len(x) <= Capacity + 2
  BY <1>1, <1>5
<1> QED  BY <1>5, <1>6, <1>7, <1>8 DEF Ended, c

\* What the consumer leaves when it takes the first event.
Taken(b) ==
    LET e == Head(b.queue)
    IN [b EXCEPT !.queue = Tail(@),
                 !.delivered = @ + (IF IsLog(e) THEN 1 ELSE 0),
                 !.admitted = @ + e.dropped,
                 !.seen = IF e.type = "completed" THEN e.status ELSE @]

\* The event a consumer takes, and the queue it leaves.
LEMMA TakenFields ==
    ASSUME NEW b \in Box, b.queue # <<>>
    PROVE  LET e == b.queue[1]
               t == Taken(b)
           IN /\ t \in Box /\ e \in Entry /\ t.queue = Tail(b.queue) /\ t.dropped = b.dropped
              /\ t.emitted = b.emitted /\ t.admitted = b.admitted + e.dropped
              /\ t.delivered = b.delivered + (IF IsLog(e) THEN 1 ELSE 0)
              /\ t.seen = IF e.type = "completed" THEN e.status ELSE b.seen
<1> DEFINE e == b.queue[1]
           one == IF IsLog(e) THEN 1 ELSE 0
<1>1. Head(b.queue) = e /\ Tail(b.queue) \in Seq(Entry) /\ e \in Entry
  BY TailCounts DEF Box
<1> HIDE DEF e
<1>2. b.delivered + one \in Nat /\ b.admitted + e.dropped \in Nat
  BY <1>1 DEF Box, Entry
<1>3. (IF e.type = "completed" THEN e.status ELSE b.seen) \in {"none", "succeeded", "failed", "cancelled"}
  BY <1>1 DEF Box, Entry
<1>4. Taken(b) = [b EXCEPT !.queue = Tail(b.queue), !.delivered = b.delivered + one,
                           !.admitted = b.admitted + e.dropped,
                           !.seen = IF e.type = "completed" THEN e.status ELSE b.seen]
  BY <1>1 DEF Taken
<1> HIDE DEF one
<1>5. /\ Taken(b) \in Box /\ Taken(b).queue = Tail(b.queue) /\ Taken(b).dropped = b.dropped
      /\ Taken(b).emitted = b.emitted /\ Taken(b).admitted = b.admitted + e.dropped
      /\ Taken(b).delivered = b.delivered + one
      /\ Taken(b).seen = IF e.type = "completed" THEN e.status ELSE b.seen
  BY <1>1, <1>2, <1>3, <1>4 DEF Box
<1> QED  BY <1>1, <1>5 DEF e, one

\* Taking an event of a running execution.
LEMMA TakenCounts ==
    ASSUME NEW b, Counted(b), b.queue # <<>>
    PROVE  /\ Counted(Taken(b)) /\ Len(Taken(b).queue) <= Len(b.queue)
           /\ \A k \in Nat : Room(b, k) => Room(Taken(b), k)
<1> DEFINE q == b.queue
           t == Taken(b)
           one == IF IsLog(q[1]) THEN 1 ELSE 0
<1>1. /\ b \in Box /\ q \in Seq(Entry) /\ LogCount(q) \in Nat /\ b.delivered \in Nat /\ b.dropped \in Nat
      /\ b.admitted = 0 /\ b.seen = "none" /\ b.emitted = b.delivered + b.dropped + LogCount(q)
      /\ \A j \in 1..Len(q) : q[j] \in Quiet
  BY LogsAreCounted DEF Counted, Box
<1>2. /\ Len(q) \in Nat \ {0} /\ Len(Tail(q)) = Len(q) - 1 /\ Tail(q) \in Seq(Entry)
      /\ \A j \in 1..(Len(q) - 1) : Tail(q)[j] = q[j + 1]
      /\ LogCount(Tail(q)) = LogCount(q) - one
  BY <1>1, TailCounts
<1>3. q[1].dropped = 0 /\ q[1].type # "completed"
  BY <1>1, <1>2, QuietEvents
<1>4. /\ t \in Box /\ t.queue = Tail(q) /\ t.dropped = b.dropped /\ t.emitted = b.emitted
      /\ t.admitted = 0 /\ t.delivered = b.delivered + one /\ t.seen = "none"
  BY <1>1, <1>3, TakenFields
<1>5. one \in 0..1
  OBVIOUS
<1> HIDE DEF t, one, q
<1>6. t.emitted = t.delivered + t.dropped + LogCount(t.queue)
  <2>1. /\ b.delivered \in Int /\ b.dropped \in Int /\ LogCount(q) \in Int /\ one \in Int
        /\ t.emitted = b.delivered + b.dropped + LogCount(q) /\ t.delivered = b.delivered + one
        /\ t.dropped = b.dropped /\ LogCount(t.queue) = LogCount(q) - one
    BY <1>1, <1>2, <1>4, <1>5
  <2> QED  BY <2>1
<1>7. \A j \in 1..Len(t.queue) : t.queue[j] \in Quiet
  BY <1>1, <1>2, <1>4
<1>8. Counted(t)
  BY <1>4, <1>6, <1>7, Zenon DEF Counted
<1>9. Len(t.queue) <= Len(q)
  BY <1>2, <1>4
<1>10. ASSUME NEW k \in Nat, Room(b, k) PROVE Room(t, k)
  <2>1. Len(q) <= LogCount(q) + k
    BY <1>10 DEF Room, q
  <2> QED  BY <1>1, <1>2, <1>4, <1>5, <2>1 DEF Room
<1> QED  BY <1>8, <1>9, <1>10 DEF t, q

\* Taking an event of a finished one: the last of the queue is the end of the stream.
LEMMA TakenEnds ==
    ASSUME NEW b, NEW r \in Results, r # "none", Ended(b, r), b.queue # <<>>
    PROVE  Ended(Taken(b), r)
<1> DEFINE q == b.queue
           n == Len(q)
           t == Taken(b)
           one == IF IsLog(q[1]) THEN 1 ELSE 0
           c == [Event("completed") EXCEPT !.status = Status(r)]
           d == IF n > 1 THEN q[n - 1].dropped ELSE 0
<1>1. /\ b \in Box /\ q \in Seq(Entry) /\ LogCount(q) \in Nat /\ b.delivered \in Nat /\ b.admitted \in Nat
      /\ n \in Nat /\ n # 0 /\ n <= Capacity + 2 /\ Capacity \in Nat
      /\ \A j \in 1..n : q[j] \in Entry
  BY LogsAreCounted, EmptySeq, ElementOfSeq, AdapterConstants DEF Ended, Box
<1>2. /\ b.seen = "none" /\ q[n] = c
      /\ \A i \in 1..(n - 1) : q[i].type # "completed"
      /\ \A i \in 1..(n - 2) : q[i].dropped = 0
      /\ b.emitted = b.delivered + b.admitted + LogCount(q) + d
  BY <1>1 DEF Ended
<1>3. /\ Len(Tail(q)) = n - 1 /\ Tail(q) \in Seq(Entry)
      /\ \A j \in 1..(n - 1) : Tail(q)[j] = q[j + 1]
      /\ LogCount(Tail(q)) = LogCount(q) - one
  BY <1>1, TailCounts
<1>4. /\ t \in Box /\ t.queue = Tail(q) /\ t.emitted = b.emitted
      /\ t.admitted = b.admitted + q[1].dropped /\ t.delivered = b.delivered + one
      /\ t.seen = IF q[1].type = "completed" THEN q[1].status ELSE b.seen
  BY <1>1, TakenFields
<1>5. Status(r) \in {"succeeded", "failed", "cancelled"}
  BY DEF Status, Results, Failures
<1>6. c.type = "completed" /\ c.dropped = 0 /\ c.status = Status(r) /\ ~IsLog(c)
  BY DEF Event, IsLog
<1>7. one \in 0..1 /\ q[1].dropped \in Nat
  BY <1>1 DEF Entry
<1>8. CASE n = 1
  <2>1. q[1] = c /\ one = 0 /\ d = 0
    BY <1>1, <1>2, <1>6, <1>8
  <2> HIDE DEF q, t, c, d, one
  <2>2. /\ Len(t.queue) = 0 /\ t.seen = Status(r) /\ LogCount(t.queue) = LogCount(q)
        /\ t.delivered = b.delivered /\ t.admitted = b.admitted
    BY <1>1, <1>3, <1>4, <1>6, <1>8, <2>1
  <2>3. LogCount(q) = 0
    <3>1. LogCount(t.queue) = 0
      <4>1. t.queue \in Seq(Entry) /\ Logs(t.queue) = {}
        BY <1>3, <1>4, <2>2 DEF Logs
      <4> QED  BY <4>1, LogsAreCounted
    <3> QED  BY <2>2, <3>1
  <2>4. t.emitted = t.delivered + t.admitted
    BY <1>1, <1>2, <1>4, <2>1, <2>2, <2>3
  <2>5. Len(t.queue) <= Capacity + 2 /\ t.seen # "none"
    BY <1>1, <1>5, <2>2
  <2>6. Ended(t, r)
    BY <1>4, <2>2, <2>4, <2>5 DEF Ended
  <2> QED  BY <2>6 DEF t
<1>9. CASE n > 1
  <2> DEFINE m == Len(t.queue)
             f == IF m > 1 THEN t.queue[m - 1].dropped ELSE 0
  <2> HIDE DEF q, c, t, one
  <2>1. m = n - 1 /\ m \in Nat /\ m > 0 /\ m <= Capacity + 2 /\ t.seen = "none"
    BY <1>1, <1>2, <1>3, <1>4, <1>9
  <2>2. \A j \in 1..m : t.queue[j] = q[j + 1]
    BY <1>3, <1>4, <2>1
  <2>3. t.queue[m] = c
    BY <1>1, <1>2, <2>1, <2>2
  <2>4. \A i \in 1..(m - 1) : t.queue[i].type # "completed"
    <3>1. \A i \in 1..(m - 1) : i \in 1..m /\ i + 1 \in 1..(n - 1)
      BY <1>1, <2>1
    <3> QED  BY <1>2, <2>2, <3>1
  <2>5. \A i \in 1..(m - 2) : t.queue[i].dropped = 0
    <3>1. \A i \in 1..(m - 2) : i \in 1..m /\ i + 1 \in 1..(n - 2)
      BY <1>1, <2>1
    <3> QED  BY <1>2, <2>2, <3>1
  <2>6. d = q[1].dropped + f
    <3>1. CASE n = 2
      BY <1>1, <2>1, <3>1, <1>7
    <3>2. CASE n # 2
      <4>0. n > 2
        <5>1. n \in Nat /\ n > 1 /\ n # 2
          BY <1>1, <1>9, <3>2
        <5> HIDE DEF n
        <5> QED  BY <5>1
      <4>1. q[1].dropped = 0
        <5>1. 1 \in 1..(n - 2)
          BY <1>1, <4>0
        <5> QED  BY <1>2, <5>1
      <4>2. f = q[n - 1].dropped
        <5>1. m > 1 /\ m - 1 \in 1..m /\ (m - 1) + 1 = n - 1
          BY <1>1, <2>1, <4>0
        <5>2. t.queue[m - 1] = q[n - 1]
          BY <2>2, <5>1
        <5> QED  BY <5>1, <5>2
      <4>3. q[n - 1].dropped \in Nat
        BY <1>1, <1>9 DEF Entry
      <4> QED  BY <1>1, <1>9, <4>1, <4>2, <4>3
    <3> QED  BY <3>1, <3>2
  <2>7. f \in Nat
    <3>1. m > 1 => n - 1 \in 1..n /\ t.queue[m - 1] = q[n - 1]
      BY <1>1, <2>1, <2>2
    <3> QED  BY <1>1, <3>1 DEF Entry
  <2> HIDE DEF m, f, d
  <2>8. t.emitted = t.delivered + t.admitted + LogCount(t.queue) + f
    <3>1. /\ b.delivered \in Int /\ b.admitted \in Int /\ LogCount(q) \in Int /\ one \in Int /\ f \in Int
          /\ q[1].dropped \in Int /\ d \in Int /\ d = q[1].dropped + f
          /\ t.emitted = b.delivered + b.admitted + LogCount(q) + d /\ t.delivered = b.delivered + one
          /\ t.admitted = b.admitted + q[1].dropped /\ LogCount(t.queue) = LogCount(q) - one
      BY <1>1, <1>2, <1>3, <1>4, <1>7, <2>6, <2>7
    <3>2. t.delivered + t.admitted + LogCount(t.queue) + f
            = (b.delivered + one) + (b.admitted + q[1].dropped) + (LogCount(q) - one) + f
      BY <3>1, Zenon
    <3>3. (b.delivered + one) + (b.admitted + q[1].dropped) + (LogCount(q) - one) + f
            = b.delivered + b.admitted + LogCount(q) + (q[1].dropped + f)
      <4> DEFINE u == b.delivered
                 v == b.admitted
                 w == LogCount(q)
                 y == q[1].dropped
      <4>1. u \in Int /\ v \in Int /\ w \in Int /\ one \in Int /\ y \in Int /\ f \in Int
        BY <3>1
      <4> HIDE DEF u, v, w, y
      <4>2. (u + one) + (v + y) + (w - one) + f = u + v + w + (y + f)
        BY <4>1
      <4> QED  BY <4>2 DEF u, v, w, y
    <3> QED  BY <3>1, <3>2, <3>3, Zenon
  <2>9. Ended(t, r)
    BY <1>4, <2>1, <2>3, <2>4, <2>5, <2>8 DEF Ended, m, f, c
  <2> QED  BY <2>9 DEF t
<1>10. n = 1 \/ n > 1
  <2>1. n \in Nat /\ n # 0
    BY <1>1
  <2> HIDE DEF n
  <2> QED  BY <2>1
<1> QED  BY <1>8, <1>9, <1>10

-----------------------------------------------------------------------------
(* The work and its result *)

\* Nothing runs yet, or ever.
BeforeRunning == Preflight \cup {"refused"}

WorkTyped ==
    /\ kind \in Kinds /\ at \in Places
    /\ members \subseteq {"leader", "helper"} /\ exit \in {"none", "zero", "nonzero"}
    /\ native \in [started : BOOLEAN, turn : BOOLEAN, completed : BOOLEAN, failed : BOOLEAN,
                   report : {"none", "good", "bad"}]
    /\ told \subseteq {"failure", "completion"} /\ printed \in 0..MaxFrames
    /\ memo \in {"none", "terminating", "awaiting", "resolved", "rejected"}
    /\ answer \in {"nothing", "resolved", "rejected"}
    /\ session \in {"none", "open", "closed", "leaked", "abandoned"}
    /\ aborted \in {"none", "pending", "resolved", "rejected"}
    /\ files \in {"none", "made", "removed"} /\ reader \in {"none", "live", "gone"}
    /\ result \in Results /\ collected \in Results

\* What each adapter owns, and that nothing of it is there before it runs.
OwnedBy ==
    /\ kind \notin Owned => members = {}
    /\ kind # "pi" => session = "none"
    /\ kind # "codex" => files = "none"
    /\ at \in BeforeRunning =>
          /\ members = {} /\ exit = "none" /\ told = {} /\ result = "none" /\ collected = "none"
          /\ ~native.started /\ ~native.completed /\ ~native.failed /\ native.report = "none"

\* While frames are read, a failure the leader told of is in the turn; a completed turn was told.
TurnSound ==
    /\ at \in {"streaming", "exiting", "terminating"} /\ "failure" \in told => native.failed
    /\ kind = "codex" /\ native.completed => "completion" \in told
    /\ kind = "claude" /\ native.report = "good" => "completion" \in told

\* What the result says once it is chosen.
ResultSound ==
    /\ at = "clearing" => result \in {"schema", "unavailable"}
    /\ at \in {"disposing", "ready", "done"} => result # "none"
    /\ at \in {"disposing", "done"} => members = {} \/ result = "unsafe"
    /\ at = "done" => files # "made" \/ result = "unsafe"
    /\ session = "leaked" => at = "done" /\ result \in {"unsafe", "unavailable"}
    /\ session = "abandoned" => at = "done" /\ result \in {"cancelled", "model"}
    /\ at \in {"disposing", "done"} /\ kind \in Owned /\ result = "succeeded" =>
          told = {"completion"} /\ exit = "zero"
    /\ collected # "none" => at = "done" /\ collected = result

WorkInv == WorkTyped /\ OwnedBy /\ TurnSound /\ ResultSound

\* Nothing runs before start is called.
LEMMA WorkInit == AdapterInit => WorkInv
BY AdapterConstants DEF AdapterInit, WorkInv, WorkTyped, OwnedBy, TurnSound, ResultSound, Places, Preflight,
    BeforeRunning, Results, Owned

\* A leader that is spawned has told nothing yet.
LEMMA SpawnSound ==
    ASSUME WorkInv, Spawn, at \in Preflight, kind \in Owned, reader' \in {"none", "live", "gone"},
           UNCHANGED <<cancelling, pi, files, kind, result, collected>>
    PROVE  WorkInv'
<1>1. /\ at' = "streaming" /\ members' \subseteq {"leader", "helper"}
      /\ UNCHANGED <<exit, native, told, printed, memo, answer, session, aborted, files, kind, result, collected>>
  BY DEF Spawn, cancelling, pi
<1>2. told = {} /\ result = "none" /\ collected = "none" /\ ~native.completed /\ native.report = "none"
  BY DEF WorkInv, OwnedBy, BeforeRunning
<1>3. WorkTyped'
  BY <1>1 DEF WorkInv, WorkTyped, Places, Running
<1>4. OwnedBy'
  BY <1>1, <1>2 DEF WorkInv, OwnedBy, BeforeRunning, Preflight
<1>5. TurnSound'
  BY <1>1, <1>2 DEF TurnSound
<1>6. ResultSound'
  BY <1>1, <1>2 DEF WorkInv, ResultSound, Preflight
<1> QED  BY <1>3, <1>4, <1>5, <1>6 DEF WorkInv

\* The steps of start leave nothing but private files.
LEMMA WorkStarts == WorkInv /\ Starts => WorkInv'
<1> SUFFICES ASSUME WorkInv, Starts PROVE WorkInv'
  OBVIOUS
<1> USE DEF WorkInv, WorkTyped, OwnedBy, TurnSound, ResultSound, Places, Preflight, Running, BeforeRunning, Owned,
    BeforeRun, Refuse, worker, cancelling, pi, private
<1>1. CASE CodexExecutable BY <1>1 DEF CodexExecutable
<1>2. CASE CodexAuth BY <1>2 DEF CodexAuth
<1>3. CASE CodexProfile BY <1>3 DEF CodexProfile
<1>4. CASE CodexSkills BY <1>4 DEF CodexSkills, Dispose
<1>5. CASE CodexPolicy
  <2>1. CASE at' = "refused"
    <3>1. /\ UNCHANGED <<members, exit, native, told, printed, memo, answer, session, aborted, kind, result, collected>>
          /\ reader' \in {"gone", "live"} /\ files' \in {"removed", files} /\ kind = "codex" /\ at = "policy"
      BY <1>5, <2>1 DEF CodexPolicy, Spawn, Dispose
    <3> QED  BY <2>1, <3>1
  <2>2. CASE at' # "refused"
    <3>1. /\ Spawn /\ UNCHANGED <<cancelling, pi, files, kind, result, collected>>
          /\ reader' = "gone" /\ kind = "codex" /\ at = "policy"
      BY <1>5, <2>2 DEF CodexPolicy
    <3> QED  BY <3>1, SpawnSound
  <2> QED  BY <2>1, <2>2
<1>6. CASE ClaudeProfile BY <1>6 DEF ClaudeProfile
<1>7. CASE ClaudeExecutable BY <1>7 DEF ClaudeExecutable
<1>8. CASE ClaudeEnvironment BY <1>8 DEF ClaudeEnvironment
<1>9. CASE ClaudeManagedPolicy BY <1>9 DEF ClaudeManagedPolicy
<1>10. CASE ClaudeAuthentication
  <2>1. CASE at' = "refused"
    BY <1>10, <2>1 DEF ClaudeAuthentication, Spawn
  <2>2. CASE at' # "refused"
    <3>1. /\ Spawn /\ UNCHANGED <<cancelling, pi, files, kind, result, collected>>
          /\ reader' = reader /\ kind = "claude" /\ at = "auth"
      BY <1>10, <2>2 DEF ClaudeAuthentication
    <3> QED  BY <3>1, SpawnSound
  <2> QED  BY <2>1, <2>2
<1>11. CASE PiStart BY <1>11 DEF PiStart
<1>12. CASE FakeScenario BY <1>12 DEF FakeScenario
<1>13. CASE FakeFiles BY <1>13 DEF FakeFiles
<1>14. CASE FakeStart BY <1>14 DEF FakeStart, Results, Failures
<1> QED  BY <1>1, <1>2, <1>3, <1>4, <1>5, <1>6, <1>7, <1>8, <1>9, <1>10, <1>11, <1>12, <1>13, <1>14 DEF Starts

\* What is read is told, and a frame the adapter rejects ends the reading.
LEMMA WorkFrames ==
    ASSUME WorkInv, \/ \E f \in CodexFrames : CodexFrame(f)
                    \/ \E f \in ClaudeFrames : ClaudeFrame(f)
    PROVE  WorkInv'
<1>1. ASSUME NEW f, NEW takes \in BOOLEAN, NEW turn, NEW observation, NEW failure \in {"schema", "unavailable"},
             Observe(f, takes, turn, observation, failure),
             turn \in [started : BOOLEAN, turn : BOOLEAN, completed : BOOLEAN, failed : BOOLEAN,
                       report : {"none", "good", "bad"}],
             takes => /\ f \in {"failed", "error", "malformed", "foreign"} => turn.failed
                      /\ native.failed => turn.failed
                      /\ kind = "codex" /\ turn.completed => native.completed \/ f = "completed"
                      /\ kind = "claude" /\ turn.report = "good" => native.report = "good" \/ f = "result"
      PROVE  WorkInv'
  <2>1. /\ UNCHANGED <<kind, members, exit, memo, answer, session, aborted, files, reader, collected>>
        /\ at = "streaming" /\ printed' \in 0..MaxFrames
        /\ told \subseteq told' /\ told' \subseteq {"failure", "completion"}
        /\ "failure" \in told' => "failure" \in told \/ f \in {"failed", "error", "malformed", "foreign"}
        /\ f \in {"completed", "result"} => "completion" \in told'
    BY <1>1, AdapterConstants DEF Observe, Emit, cancelling, pi, private, WorkInv, WorkTyped
  <2>2. \/ at' = "clearing" /\ result' \in {"schema", "unavailable"} /\ native' \in {native, turn}
           /\ (native' = turn => takes \/ turn = native)
        \/ takes /\ native' = turn /\ UNCHANGED <<at, result>>
    BY <1>1 DEF Observe, Throw
  <2>3. native' \in [started : BOOLEAN, turn : BOOLEAN, completed : BOOLEAN, failed : BOOLEAN,
                     report : {"none", "good", "bad"}]
    BY <1>1, <2>2 DEF WorkInv, WorkTyped
  <2>4. WorkTyped'
    BY <2>1, <2>2, <2>3 DEF WorkInv, WorkTyped, Places, Running, Results, Failures
  <2>5. OwnedBy' /\ ResultSound'
    BY <2>1, <2>2 DEF WorkInv, OwnedBy, ResultSound, BeforeRunning, Preflight
  <2>6. TurnSound'
    BY <1>1, <2>1, <2>2 DEF WorkInv, TurnSound
  <2> QED  BY <2>4, <2>5, <2>6 DEF WorkInv
<1>2. ASSUME NEW f \in CodexFrames, CodexFrame(f) PROVE WorkInv'
  <2>1. CodexTakes(native, f) \in BOOLEAN
    BY DEF CodexTakes, WorkInv, WorkTyped
  <2>2. CodexTurn(native, f) \in [started : BOOLEAN, turn : BOOLEAN, completed : BOOLEAN, failed : BOOLEAN,
                                  report : {"none", "good", "bad"}]
    BY DEF CodexTurn, WorkInv, WorkTyped
  <2>3. kind = "codex" /\ f \notin {"foreign"}
    BY <1>2 DEF CodexFrame, CodexFrames
  <2>4. CodexTakes(native, f) =>
           /\ f \in {"failed", "error", "malformed", "foreign"} => CodexTurn(native, f).failed
           /\ native.failed => CodexTurn(native, f).failed
           /\ CodexTurn(native, f).completed => native.completed \/ f = "completed"
    BY <2>3 DEF CodexTakes, CodexTurn
  <2>5. Observe(f, CodexTakes(native, f), CodexTurn(native, f),
                IF f = "tool" THEN {Event("log")} ELSE {}, "unavailable")
    BY <1>2 DEF CodexFrame
  <2> QED  BY <1>1, <2>1, <2>2, <2>3, <2>4, <2>5
<1>3. ASSUME NEW f \in ClaudeFrames, ClaudeFrame(f) PROVE WorkInv'
  <2>1. ClaudeTakes(native, f) \in BOOLEAN
    BY DEF ClaudeTakes, WorkInv, WorkTyped
  <2>2. ClaudeTurn(native, f) \in [started : BOOLEAN, turn : BOOLEAN, completed : BOOLEAN, failed : BOOLEAN,
                                   report : {"none", "good", "bad"}]
    <3>1. native \in [started : BOOLEAN, turn : BOOLEAN, completed : BOOLEAN, failed : BOOLEAN,
                      report : {"none", "good", "bad"}]
      BY DEF WorkInv, WorkTyped
    <3>2. /\ (native.started \/ f = "init") \in BOOLEAN /\ (native.failed \/ f = "failed") \in BOOLEAN
          /\ (f \in {"result", "badresult", "failed"}) \in BOOLEAN
          /\ (CASE f = "result" -> "good" [] f = "badresult" -> "bad" [] OTHER -> native.report)
                \in {"none", "good", "bad"}
      BY <3>1
    <3> QED  BY <3>1, <3>2 DEF ClaudeTurn
  <2>3. kind = "claude" /\ f # "error"
    BY <1>3 DEF ClaudeFrame, ClaudeFrames
  <2>4. ClaudeTakes(native, f) =>
           /\ f \in {"failed", "error", "malformed", "foreign"} => ClaudeTurn(native, f).failed
           /\ native.failed => ClaudeTurn(native, f).failed
           /\ ClaudeTurn(native, f).report = "good" => native.report = "good" \/ f = "result"
    BY <2>3 DEF ClaudeTakes, ClaudeTurn, WorkInv, WorkTyped
  <2>5. Observe(f, ClaudeTakes(native, f), ClaudeTurn(native, f),
                CASE f = "tool" -> {Event("log")} [] f = "init" -> {Event("metadata")} [] OTHER -> {}, "schema")
    BY <1>3 DEF ClaudeFrame
  <2> QED  BY <1>1, <2>1, <2>2, <2>3, <2>4, <2>5
<1> QED  BY <1>2, <1>3

\* A process of the group that ends, or starts another.
LEMMA WorkGroup ==
    ASSUME WorkInv, (\E m \in {"leader", "helper"} : MemberEnds(m)) \/ HelperStarts
    PROVE  WorkInv'
<1>1. UNCHANGED <<kind, at, native, told, printed, memo, answer, session, aborted, files, reader, result, collected>>
  BY DEF MemberEnds, HelperStarts, cancelling, pi, private
<1>2. /\ members # {} /\ members' \subseteq {"leader", "helper"} /\ exit' \in {"none", "zero", "nonzero"}
      /\ members = {} => members' = {} /\ exit' = exit
  BY DEF MemberEnds, HelperStarts, WorkInv, WorkTyped
<1>3. WorkTyped'
  BY <1>1, <1>2 DEF WorkInv, WorkTyped
<1>4. OwnedBy' /\ TurnSound'
  BY <1>1, <1>2 DEF WorkInv, OwnedBy, TurnSound
<1>5. ResultSound'
  BY <1>1, <1>2 DEF WorkInv, ResultSound
<1> QED  BY <1>3, <1>4, <1>5 DEF WorkInv

\* What a finished turn, or an error, is worth once the group is gone.
LEMMA EndResults ==
    ASSUME WorkInv
    PROVE  /\ CodexResult(native) \in Failures \cup {"succeeded"} /\ ClaudeResult(native) \in Failures \cup {"succeeded"}
           /\ CodexResult(native) = "succeeded" => ~native.failed /\ native.completed /\ exit = "zero"
           /\ ClaudeResult(native) = "succeeded" => ~native.failed /\ native.report = "good" /\ exit = "zero"
           /\ at = "clearing" => \A confirmed \in BOOLEAN :
                 /\ Cleared(confirmed) \in {"unsafe", "cancelled", "schema", "unavailable"}
                 /\ ~confirmed => Cleared(confirmed) = "unsafe"
BY DEF WorkInv, ResultSound, CodexResult, ClaudeResult, Cleared, Cancelled, Failures

\* What run does once it is resumed.
LEMMA WorkEnds == WorkInv /\ Ends => WorkInv'
<1> SUFFICES ASSUME WorkInv, Ends PROVE WorkInv'
  OBVIOUS
<1> USE DEF WorkInv, WorkTyped, OwnedBy, TurnSound, ResultSound, Places, Preflight, Running, BeforeRunning, Owned,
    worker, cancelling, pi, private
<1>1. CASE LeaderExits BY <1>1 DEF LeaderExits, Throw, Results, Failures
<1>2. CASE CodexEnds
  <2>1. /\ kind = "codex" /\ at = "terminating" /\ members = {} /\ at' = "disposing"
        /\ UNCHANGED <<kind, members, exit, native, told, printed, memo, answer, session, aborted, files,
                       reader, collected>>
        /\ result' \in {"cancelled", CodexResult(native)}
    BY <1>2 DEF CodexEnds, Ending, Disposing, Confirmed
  <2>2. result' \in Results /\ result' # "none"
    BY <2>1, EndResults DEF Results, Failures
  <2>3. ASSUME result' = "succeeded" PROVE told = {"completion"} /\ exit = "zero"
    <3>1. exit = "zero" /\ "failure" \notin told /\ "completion" \in told
      BY <2>1, <2>3, EndResults
    <3> QED  BY <3>1
  <2> QED  BY <2>1, <2>2, <2>3
<1>3. CASE ClaudeEnds
  <2>1. /\ kind = "claude" /\ at = "terminating" /\ members = {} /\ at' = "done"
        /\ UNCHANGED <<kind, members, exit, native, told, printed, memo, answer, session, aborted, files,
                       reader, collected>>
        /\ result' \in {"cancelled", ClaudeResult(native)}
    BY <1>3 DEF ClaudeEnds, Ending, Publish, Confirmed
  <2>2. result' \in Results /\ result' # "none"
    BY <2>1, EndResults DEF Results, Failures
  <2>3. ASSUME result' = "succeeded" PROVE told = {"completion"} /\ exit = "zero"
    <3>1. exit = "zero" /\ "failure" \notin told /\ "completion" \in told
      BY <2>1, <2>3, EndResults
    <3> QED  BY <3>1
  <2> QED  BY <2>1, <2>2, <2>3
<1>4. CASE EndUnconfirmed BY <1>4 DEF EndUnconfirmed, Throw, Results, Failures
<1>5. CASE CodexClears
  <2>1. /\ kind = "codex" /\ at = "clearing" /\ at' = "disposing"
        /\ UNCHANGED <<kind, members, exit, native, told, printed, memo, answer, session, aborted, files,
                       reader, collected>>
        /\ (members = {} /\ result' = Cleared(TRUE)) \/ result' = Cleared(FALSE)
    BY <1>5 DEF CodexClears, Disposing, Confirmed
  <2>2. /\ result' \in {"unsafe", "cancelled", "schema", "unavailable"}
        /\ members = {} \/ result' = "unsafe"
    BY <2>1, EndResults
  <2> QED  BY <2>1, <2>2 DEF Results, Failures
<1>6. CASE ClaudeClears
  <2>1. /\ kind = "claude" /\ at = "clearing" /\ at' = "done"
        /\ UNCHANGED <<kind, members, exit, native, told, printed, memo, answer, session, aborted, files,
                       reader, collected>>
        /\ (members = {} /\ result' = Cleared(TRUE)) \/ result' = Cleared(FALSE)
    BY <1>6 DEF ClaudeClears, Publish, Confirmed
  <2>2. /\ result' \in {"unsafe", "cancelled", "schema", "unavailable"}
        /\ members = {} \/ result' = "unsafe"
    BY <2>1, EndResults
  <2> QED  BY <2>1, <2>2 DEF Results, Failures
<1>7. CASE CodexDisposes
  <2>1. /\ kind = "codex" /\ at = "disposing" /\ at' = "done" /\ files' \in {"removed", files}
        /\ UNCHANGED <<kind, members, exit, native, told, printed, memo, answer, session, aborted, reader, collected>>
        /\ result' = IF files' = "removed" THEN result ELSE "unsafe"
    BY <1>7 DEF CodexDisposes, Dispose, Publish
  <2> QED  BY <2>1 DEF Results, Failures
<1> QED  BY <1>1, <1>2, <1>3, <1>4, <1>5, <1>6, <1>7 DEF Ends

\* The end of a Pi execution: a session that was not disposed is in the result.
LEMMA PiConcluded ==
    ASSUME WorkInv, NEW r \in {"succeeded", "model", "cancelled", "schema"}, PiConcludes(r),
           kind = "pi", at \in {"aborting", "prompting"},
           UNCHANGED <<kind, worker, cancelling, aborted, private, collected>>
    PROVE  WorkInv'
<1>1. /\ UNCHANGED <<kind, members, exit, native, told, printed, memo, answer, aborted, files, reader, collected>>
      /\ at' = "done" /\ session' \in {session, "closed", "leaked"}
      /\ result' \in {r, "unsafe", "unavailable"}
      /\ session' = "leaked" => session = "leaked" \/ result' \in {"unsafe", "unavailable"}
  BY DEF PiConcludes, Publish, worker, cancelling, private
<1>2. session \notin {"leaked", "abandoned"} /\ members = {} /\ files # "made" /\ collected = "none"
  BY DEF WorkInv, OwnedBy, ResultSound, Owned
<1>3. WorkTyped'
  BY <1>1 DEF WorkInv, WorkTyped, Places, Results, Failures
<1>4. OwnedBy'
  BY <1>1 DEF WorkInv, OwnedBy, BeforeRunning, Preflight
<1>5. TurnSound'
  BY <1>1 DEF WorkInv, TurnSound
<1>6. ResultSound'
  BY <1>1, <1>2 DEF ResultSound, Owned
<1> QED  BY <1>3, <1>4, <1>5, <1>6 DEF WorkInv

\* The steps of a Pi execution.
LEMMA WorkPi ==
    WorkInv /\ (SessionMade \/ SessionFails \/ SessionLog \/ AbortSettles \/ PiGivesUp \/ PromptEnds) => WorkInv'
<1> SUFFICES ASSUME WorkInv, SessionMade \/ SessionFails \/ SessionLog \/ AbortSettles \/ PiGivesUp \/ PromptEnds
             PROVE  WorkInv'
  OBVIOUS
<1>1. CASE PiGivesUp
  BY <1>1, PiConcluded DEF PiGivesUp
<1>2. CASE PromptEnds
  <2>1. PICK r \in {"succeeded", "model", "cancelled", "schema"} : PiConcludes(PiSettled(r))
    BY <1>2 DEF PromptEnds
  <2>2. PiSettled(r) \in {"succeeded", "model", "cancelled", "schema"}
    BY DEF PiSettled
  <2> QED  BY <1>2, <2>1, <2>2, PiConcluded DEF PromptEnds
<1> USE DEF WorkInv, WorkTyped, OwnedBy, TurnSound, ResultSound, Places, Preflight, Running, BeforeRunning, Owned,
    worker, cancelling, pi, private
<1>3. CASE SessionMade BY <1>3 DEF SessionMade
<1>4. CASE SessionFails BY <1>4 DEF SessionFails, Publish, PiSettled, Results, Failures
<1>5. CASE SessionLog BY <1>5, AdapterConstants DEF SessionLog
<1>6. CASE AbortSettles BY <1>6 DEF AbortSettles
<1> QED  BY <1>1, <1>2, <1>3, <1>4, <1>5, <1>6

\* The other steps: reading, cancelling and the fake adapter.
LEMMA WorkOthers ==
    ASSUME WorkInv,
           \/ Cancels \/ Consume \/ Collect \/ Cancel \/ CancelFinished \/ ClaudeLimit \/ OutputEnds
           \/ FakeEvents \/ FakeCollect \/ FakeCancel
    PROVE  WorkInv'
<1> USE DEF WorkInv, WorkTyped, OwnedBy, TurnSound, ResultSound, Places, Preflight, Running, BeforeRunning, Owned,
    worker, cancelling, pi, private
<1>1. CASE CancelStops BY <1>1 DEF CancelStops
<1>2. CASE CancelRejects BY <1>2 DEF CancelRejects
<1>3. CASE CancelResolves BY <1>3 DEF CancelResolves
<1>4. CASE Consume BY <1>4 DEF Consume
<1>5. CASE Collect BY <1>5 DEF Collect
<1>6. CASE Cancel BY <1>6 DEF Cancel
<1>7. CASE CancelFinished BY <1>7 DEF CancelFinished
<1>8. CASE ClaudeLimit BY <1>8 DEF ClaudeLimit, Throw, Results, Failures
<1>9. CASE OutputEnds BY <1>9 DEF OutputEnds, Throw, Results, Failures
<1>10. CASE FakeEvents BY <1>10 DEF FakeEvents
<1>11. CASE FakeCollect BY <1>11 DEF FakeCollect
<1>12. CASE FakeCancel BY <1>12 DEF FakeCancel, Results, Failures
<1> QED  BY <1>1, <1>2, <1>3, <1>4, <1>5, <1>6, <1>7, <1>8, <1>9, <1>10, <1>11, <1>12 DEF Cancels

\* Every step keeps what is known of the work and of the result.
LEMMA WorkStep == WorkInv /\ [AdapterNext]_adapterVars => WorkInv'
<1>1. WorkInv /\ UNCHANGED adapterVars => WorkInv'
  BY DEF adapterVars, worker, cancelling, pi, private, WorkInv, WorkTyped, OwnedBy, TurnSound, ResultSound
<1> QED  BY <1>1, WorkStarts, WorkFrames, WorkGroup, WorkEnds, WorkPi, WorkOthers DEF AdapterNext

-----------------------------------------------------------------------------
(* The stream *)

\* The fake adapter has a queue without bound and drops nothing.
FakeBox ==
    /\ box.dropped = 0
    /\ IF box.seen = "none" THEN Counted(box)
       ELSE /\ box \in Box /\ at = "done" /\ box.seen = Status(result) /\ box.queue = <<>>
            /\ box.emitted = box.delivered + box.admitted

\* Where required events may still come, and how many of them the queue may hold.
Filling == {"streaming", "exiting", "terminating", "prompting"}
Required == IF native.started THEN 3 ELSE 2

StreamInv ==
    /\ kind = "fake" => at \in BeforeRunning \cup {"ready", "done"}
    /\ kind # "fake" => at # "ready"
    /\ at \in BeforeRunning \cup {"creating", "aborting"} => box = EmptyBox
    /\ kind # "fake" /\ at \in Running => Counted(box) /\ Len(box.queue) <= Capacity
    /\ at \in Filling => Room(box, Required)
    /\ kind # "fake" /\ at = "done" => Ended(box, result)
    /\ kind = "fake" /\ at \in {"ready", "done"} => FakeBox

\* Nothing is in an empty queue.
LEMMA EmptyCounts ==
    /\ Counted(EmptyBox) /\ Room(EmptyBox, 0) /\ Len(EmptyBox.queue) = 0 /\ EmptyBox \in Box
    /\ LogCount(<<>>) = 0
<1>1. /\ EmptyBox.queue = <<>> /\ <<>> \in Seq(Entry) /\ Len(<<>>) = 0
      /\ EmptyBox.emitted = 0 /\ EmptyBox.delivered = 0 /\ EmptyBox.dropped = 0 /\ EmptyBox.admitted = 0
      /\ EmptyBox.seen = "none"
  BY DEF EmptyBox
<1>2. EmptyBox \in Box
  BY DEF EmptyBox, Box
<1>3. LogCount(<<>>) = 0
  <2>1. Logs(<<>>) = {}
    BY <1>1 DEF Logs
  <2> QED  BY <1>1, <2>1, LogsAreCounted
<1> QED  BY <1>1, <1>2, <1>3 DEF Counted, Room

\* The two events an execution begins with.
LEMMA FirstPushes ==
    LET b == Push(Push(EmptyBox, Event("started")), Event("metadata"))
    IN Counted(b) /\ Len(b.queue) <= Capacity /\ Room(b, 2)
<1> DEFINE a == Push(EmptyBox, Event("started"))
           b == Push(a, Event("metadata"))
<1>1. /\ Event("started") \in Quiet /\ ~IsLog(Event("started"))
      /\ Event("metadata") \in Quiet /\ ~IsLog(Event("metadata"))
  BY QuietEvents
<1>2. Capacity \in Nat /\ Capacity >= 4
  BY AdapterConstants
<1>3. ~Overflows(EmptyBox, Event("started"))
  BY <1>1, <1>2, EmptyCounts, RoomIsEnough
<1>4. Counted(a) /\ Len(a.queue) <= Capacity /\ Room(a, 0 + 1)
  BY <1>1, <1>2, <1>3, EmptyCounts, PushCounts
<1>5. Room(a, 1)
  BY <1>4
<1> HIDE DEF a
<1>6. ~Overflows(a, Event("metadata"))
  BY <1>1, <1>2, <1>4, <1>5, RoomIsEnough
<1>7. Counted(b) /\ Len(b.queue) <= Capacity /\ Room(b, 1 + 1)
  BY <1>1, <1>4, <1>5, <1>6, PushCounts
<1>8. Room(b, 2)
  BY <1>7
<1> QED  BY <1>7, <1>8 DEF a

\* The usage, and what the group printed last, at the end of an execution.
LEMMA LastPushes ==
    ASSUME WorkInv, StreamInv, at \in Filling
    PROVE  /\ Counted(box) /\ Len(box.queue) <= Capacity
           /\ LET u == Push(box, Event("usage")) IN Counted(u) /\ Len(u.queue) <= Capacity
           /\ \A b \in {box, Push(box, Event("usage"))} :
                 Counted(Push(b, Event("log"))) /\ Len(Push(b, Event("log")).queue) <= Capacity
<1>1. /\ Event("usage") \in Quiet /\ ~IsLog(Event("usage"))
      /\ Event("log") \in Quiet /\ IsLog(Event("log"))
  BY QuietEvents
<1>2. /\ Counted(box) /\ Len(box.queue) <= Capacity /\ Room(box, Required)
  BY DEF StreamInv, Filling, Running, BeforeRunning, Preflight
<1>3. Required \in Nat /\ Required < Capacity
  BY AdapterConstants DEF Required
<1>4. ~Overflows(box, Event("usage"))
  BY <1>1, <1>2, <1>3, RoomIsEnough
<1>5. Counted(Push(box, Event("usage"))) /\ Len(Push(box, Event("usage")).queue) <= Capacity
  BY <1>1, <1>2, <1>4, PushCounts
<1>6. ASSUME NEW b, Counted(b), Len(b.queue) <= Capacity
      PROVE  Counted(Push(b, Event("log"))) /\ Len(Push(b, Event("log")).queue) <= Capacity
  <2>1. ~Overflows(b, Event("log"))
    BY <1>1 DEF Overflows
  <2> QED  BY <1>1, <1>6, <2>1, PushCounts
<1> QED  BY <1>2, <1>5, <1>6

\* Nothing is queued before start.
LEMMA StreamInit == AdapterInit => StreamInv
BY EmptyCounts DEF AdapterInit, StreamInv, BeforeRunning, Preflight, Running, Filling

\* The script of the fake adapter is queued at once.
LEMMA FakeQueue ==
    ASSUME NEW n \in Nat
    PROVE  LET q == <<Event("started")>> \o [i \in 1..n |-> Event("log")]
           IN /\ q \in Seq(Entry) /\ LogCount(q) = n
              /\ \A i \in 1..Len(q) : q[i] \in Quiet
<1> DEFINE s == <<Event("started")>>
           l == [i \in 1..n |-> Event("log")]
           q == s \o l
<1>1. /\ Event("started") \in Entry /\ Event("log") \in Entry
      /\ Event("started") \in Quiet /\ Event("log") \in Quiet
      /\ ~IsLog(Event("started")) /\ IsLog(Event("log"))
  BY QuietEvents
<1>2. /\ s \in Seq(Entry) /\ Len(s) = 1 /\ s[1] = Event("started")
      /\ l \in Seq(Entry) /\ Len(l) = n /\ \A i \in 1..n : l[i] = Event("log")
  <2>1. s \in Seq(Entry) /\ Len(s) = 1 /\ s[1] = Event("started")
    BY <1>1
  <2>2. l \in [1..n -> Entry]
    BY <1>1
  <2>3. l \in Seq(Entry)
    BY <2>2, SeqDef
  <2>4. Len(l) = n
    <3>1. Len(l) \in Nat /\ DOMAIN l = 1..Len(l) /\ DOMAIN l = 1..n
      BY <2>3, LenProperties
    <3> DEFINE m == Len(l)
    <3>2. m \in Nat /\ 1..m = 1..n
      BY <3>1
    <3> HIDE DEF m
    <3>3. m <= n /\ n <= m
      <4>1. m > 0 => m \in 1..n
        BY <3>2
      <4>2. n > 0 => n \in 1..m
        BY <3>2
      <4> QED  BY <3>2, <4>1, <4>2
    <3>4. m = n
      BY <3>2, <3>3
    <3> QED  BY <3>4 DEF m
  <2> QED  BY <2>1, <2>3, <2>4
<1> HIDE DEF s, l
<1>3. /\ q \in Seq(Entry) /\ Len(q) = n + 1
      /\ \A i \in 1..(n + 1) : q[i] = IF i <= 1 THEN s[i] ELSE l[i - 1]
  <2>1. /\ q \in Seq(Entry) /\ Len(q) = Len(s) + Len(l)
        /\ \A i \in 1..(Len(s) + Len(l)) : q[i] = IF i <= Len(s) THEN s[i] ELSE l[i - Len(s)]
    BY <1>2, ConcatProperties
  <2> QED  BY <1>2, <2>1
<1> HIDE DEF q
<1>4. q[1] = Event("started") /\ \A i \in 2..(n + 1) : q[i] = Event("log")
  BY <1>2, <1>3
<1>5. Logs(q) = 2..(n + 1)
  <2>1. \A i \in 1..(n + 1) : IsLog(q[i]) <=> i \in 2..(n + 1)
    BY <1>1, <1>4
  <2> QED  BY <1>3, <2>1 DEF Logs
<1>6. LogCount(q) = n
  <2>1. Cardinality(2..(n + 1)) = IF 2 > n + 1 THEN 0 ELSE (n + 1) - 2 + 1
    BY FS_Interval
  <2> QED  BY <1>5, <2>1 DEF LogCount
<1>7. \A i \in 1..Len(q) : q[i] \in Quiet
  <2>1. \A i \in 1..(n + 1) : i = 1 \/ i \in 2..(n + 1)
    OBVIOUS
  <2> QED  BY <1>1, <1>3, <1>4, <2>1
<1> QED  BY <1>3, <1>6, <1>7 DEF q, s, l

\* A queue with room for k others has room for more.
LEMMA RoomGrows ==
    ASSUME NEW b, Counted(b), NEW k \in Nat, NEW l \in Nat, k <= l, Room(b, k)
    PROVE  Room(b, l)
<1>1. b.queue \in Seq(Entry)
  BY DEF Counted, Box
<1>2. LogCount(b.queue) \in Nat /\ Len(b.queue) \in Nat
  BY <1>1, LogsAreCounted, LenProperties
<1> QED  BY <1>2 DEF Room

\* The moves of run that push nothing.
LEMMA StreamKept ==
    ASSUME StreamInv, UNCHANGED <<kind, box>>,
           \/ at' = at /\ UNCHANGED <<native, result>>
           \/ at \in BeforeRunning /\ at' \in BeforeRunning
           \/ at \in BeforeRunning /\ kind = "pi" /\ at' = "creating"
           \/ at = "creating" /\ at' = "aborting"
           \/ at \in Filling /\ at' \in Filling /\ native' = native
           \/ at \in Running \ {"ready"} /\ at' \in {"clearing", "disposing"}
    PROVE  StreamInv'
<1>1. CASE at' = at /\ UNCHANGED <<native, result>>
  BY <1>1 DEF StreamInv, Required, FakeBox
<1>2. CASE at \in BeforeRunning /\ at' \in BeforeRunning
  BY <1>2 DEF StreamInv, BeforeRunning, Preflight, Running, Filling
<1>3. CASE at \in BeforeRunning /\ kind = "pi" /\ at' = "creating"
  <2>1. box' = EmptyBox /\ Counted(box') /\ Len(box'.queue) <= Capacity
    BY <1>3, EmptyCounts, AdapterConstants DEF StreamInv
  <2> QED  BY <1>3, <2>1 DEF StreamInv, BeforeRunning, Preflight, Filling
<1>4. CASE at = "creating" /\ at' = "aborting"
  <2>1. box' = EmptyBox /\ kind' # "fake" /\ Counted(box') /\ Len(box'.queue) <= Capacity
    BY <1>4, EmptyCounts, AdapterConstants DEF StreamInv, BeforeRunning, Preflight
  <2> QED  BY <1>4, <2>1 DEF StreamInv, BeforeRunning, Preflight, Filling
<1>5. CASE at \in Filling /\ at' \in Filling /\ native' = native
  <2>1. kind' # "fake" /\ Counted(box') /\ Len(box'.queue) <= Capacity /\ Room(box', Required')
    BY <1>5 DEF StreamInv, Filling, Running, BeforeRunning, Preflight, Required
  <2> QED  BY <1>5, <2>1 DEF StreamInv, BeforeRunning, Preflight, Filling
<1>6. CASE at \in Running \ {"ready"} /\ at' \in {"clearing", "disposing"}
  <2>1. kind' # "fake" /\ Counted(box') /\ Len(box'.queue) <= Capacity
    BY <1>6 DEF StreamInv, Running, BeforeRunning, Preflight
  <2> QED  BY <1>6, <2>1 DEF StreamInv, BeforeRunning, Preflight, Filling
<1> QED  BY <1>1, <1>2, <1>3, <1>4, <1>5, <1>6

\* The end of run.
LEMMA StreamPublished ==
    ASSUME NEW b, Counted(b), Len(b.queue) <= Capacity, NEW r \in Results, r # "none", Publish(b, r),
           kind' = kind, kind # "fake"
    PROVE  StreamInv'
<1>1. Ended(box', r) /\ at' = "done" /\ result' = r
  BY PublishEnds DEF Publish
<1> QED  BY <1>1 DEF StreamInv, BeforeRunning, Preflight, Running, Filling

\* The first two events of an execution.
LEMMA StreamBegins ==
    ASSUME StreamInv, kind' = kind, kind # "fake", at \in BeforeRunning \cup {"creating"},
           at' \in {"streaming", "prompting"}, box' = Push(Push(box, Event("started")), Event("metadata"))
    PROVE  StreamInv'
<1>1. box = EmptyBox
  BY DEF StreamInv
<1>2. Counted(box') /\ Len(box'.queue) <= Capacity /\ Room(box', 2)
  BY <1>1, FirstPushes
<1>3. Required' \in Nat /\ 2 <= Required'
  BY DEF Required
<1>4. Room(box', Required')
  BY <1>2, <1>3, RoomGrows
<1> QED  BY <1>2, <1>4 DEF StreamInv, BeforeRunning, Preflight, Running, Filling

\* The steps of start.
LEMMA StreamStarts == WorkInv /\ StreamInv /\ Starts => StreamInv'
<1> SUFFICES ASSUME WorkInv, StreamInv, Starts PROVE StreamInv'
  OBVIOUS
<1> USE DEF BeforeRunning, Preflight, Refuse, BeforeRun
<1>1. CASE \/ CodexExecutable \/ CodexAuth \/ CodexProfile \/ CodexSkills
           \/ ClaudeProfile \/ ClaudeExecutable \/ ClaudeEnvironment \/ ClaudeManagedPolicy
           \/ FakeScenario \/ FakeFiles
  <2>1. UNCHANGED <<kind, box>> /\ at \in BeforeRunning /\ at' \in BeforeRunning
    BY <1>1 DEF CodexExecutable, CodexAuth, CodexProfile, CodexSkills, ClaudeProfile, ClaudeExecutable,
       ClaudeEnvironment, ClaudeManagedPolicy, FakeScenario, FakeFiles
  <2> QED  BY <2>1, StreamKept
<1>2. CASE PiStart
  BY <1>2, StreamKept DEF PiStart
<1>3. CASE CodexPolicy \/ ClaudeAuthentication
  <2>1. kind' = kind /\ kind # "fake" /\ at \in BeforeRunning
    BY <1>3 DEF CodexPolicy, ClaudeAuthentication
  <2>2. \/ at' = "streaming" /\ box' = Push(Push(box, Event("started")), Event("metadata"))
        \/ at' \in BeforeRunning /\ box' = box
    BY <1>3 DEF CodexPolicy, ClaudeAuthentication, Spawn
  <2> QED  BY <2>1, <2>2, StreamBegins, StreamKept
<1>4. CASE FakeStart
  <2>1. PICK n \in 0..MaxFrames :
           box' = [box EXCEPT !.queue = <<Event("started")>> \o [i \in 1..n |-> Event("log")], !.emitted = n]
    BY <1>4 DEF FakeStart
  <2> DEFINE q == <<Event("started")>> \o [i \in 1..n |-> Event("log")]
  <2>2. n \in Nat
    BY AdapterConstants
  <2>3. q \in Seq(Entry) /\ LogCount(q) = n /\ \A i \in 1..Len(q) : q[i] \in Quiet
    BY <2>2, FakeQueue
  <2>4. kind' = kind /\ kind = "fake" /\ at' = "ready" /\ box = EmptyBox
    BY <1>4 DEF FakeStart, StreamInv
  <2>5. box' = [EmptyBox EXCEPT !.queue = q, !.emitted = n]
    BY <2>1, <2>4
  <2> HIDE DEF q
  <2>6. /\ box' \in Box /\ box'.queue = q /\ box'.emitted = n /\ box'.delivered = 0 /\ box'.dropped = 0
        /\ box'.admitted = 0 /\ box'.seen = "none"
    BY <2>2, <2>3, <2>5 DEF EmptyBox, Box
  <2>7. n = 0 + 0 + n
    BY <2>2
  <2>8. Counted(box')
    BY <2>3, <2>6, <2>7 DEF Counted
  <2> QED  BY <2>4, <2>6, <2>8 DEF StreamInv, FakeBox, Filling
<1> QED  BY <1>1, <1>2, <1>3, <1>4 DEF Starts

\* One frame: a log, metadata with the identity of Claude, or nothing.
LEMMA StreamFrames ==
    ASSUME WorkInv, StreamInv, \/ \E f \in CodexFrames : CodexFrame(f)
                               \/ \E f \in ClaudeFrames : ClaudeFrame(f)
    PROVE  StreamInv'
<1>1. ASSUME NEW f, NEW takes \in BOOLEAN, NEW turn, NEW observation, NEW failure,
             Observe(f, takes, turn, observation, failure),
             observation \subseteq {Event("log"), Event("metadata")},
             takes /\ native.started => turn.started,
             takes /\ Event("metadata") \in observation => ~native.started /\ turn.started
      PROVE  StreamInv'
  <2>1. /\ kind' = kind /\ at = "streaming" /\ kind # "fake"
        /\ Counted(box) /\ Len(box.queue) <= Capacity /\ Room(box, Required)
    BY <1>1 DEF Observe, StreamInv, Running, Filling, BeforeRunning, Preflight
  <2>2. CASE at' = "clearing"
    <3>1. box' = box
      BY <1>1, <2>1, <2>2 DEF Observe, Throw
    <3> QED  BY <2>1, <2>2, <3>1, StreamKept DEF Running
  <2>3. CASE at' # "clearing"
    <3>1. takes /\ native' = turn /\ at' = at
      BY <1>1, <2>3 DEF Observe, Throw
    <3>2. \/ box' = box
          \/ \E e \in observation : ~Overflows(box, e) /\ box' = Push(box, e)
      BY <1>1, <2>3 DEF Observe, Throw
    <3>3. Required \in Nat /\ Required' \in Nat /\ Required <= Required'
      BY <1>1, <3>1 DEF Required
    <3>4. CASE box' = box
      <4>1. Room(box', Required')
        BY <2>1, <3>3, <3>4, RoomGrows
      <4> QED  BY <2>1, <3>1, <3>4, <4>1 DEF StreamInv, BeforeRunning, Preflight
    <3>5. ASSUME NEW e \in observation, ~Overflows(box, e), box' = Push(box, e)
          PROVE  StreamInv'
      <4>1. e \in Quiet /\ (IsLog(e) <=> e = Event("log"))
        BY <1>1, QuietEvents
      <4>2. /\ Counted(box') /\ Len(box'.queue) <= Capacity
            /\ Room(box', IF IsLog(e) THEN Required ELSE Required + 1)
        BY <2>1, <3>3, <3>5, <4>1, PushCounts
      <4>3. Room(box', Required')
        <5>1. CASE IsLog(e)
          BY <3>3, <4>2, <5>1, RoomGrows
        <5>2. CASE ~IsLog(e)
          <6>1. Event("metadata") \in observation
            BY <1>1, <4>1, <5>2
          <6>2. Required + 1 = Required'
            BY <1>1, <3>1, <6>1 DEF Required
          <6> QED  BY <4>2, <5>2, <6>2
        <5> QED  BY <5>1, <5>2
      <4> QED  BY <2>1, <3>1, <4>2, <4>3 DEF StreamInv, BeforeRunning, Preflight
    <3> QED  BY <3>2, <3>4, <3>5
  <2> QED  BY <2>2, <2>3
<1>2. ASSUME NEW f \in CodexFrames, CodexFrame(f) PROVE StreamInv'
  <2>1. CodexTakes(native, f) \in BOOLEAN
    BY DEF CodexTakes, WorkInv, WorkTyped
  <2>2. native.started => CodexTurn(native, f).started
    BY DEF CodexTurn
  <2>3. Event("log") # Event("metadata")
    BY DEF Event
  <2>4. Observe(f, CodexTakes(native, f), CodexTurn(native, f),
                IF f = "tool" THEN {Event("log")} ELSE {}, "unavailable")
    BY <1>2 DEF CodexFrame
  <2> QED  BY <1>1, <2>1, <2>2, <2>3, <2>4
<1>3. ASSUME NEW f \in ClaudeFrames, ClaudeFrame(f) PROVE StreamInv'
  <2> DEFINE o == CASE f = "tool" -> {Event("log")} [] f = "init" -> {Event("metadata")} [] OTHER -> {}
  <2>1. ClaudeTakes(native, f) \in BOOLEAN
    BY DEF ClaudeTakes, WorkInv, WorkTyped
  <2>2. /\ native.started => ClaudeTurn(native, f).started
        /\ f = "init" => ClaudeTurn(native, f).started
        /\ ClaudeTakes(native, f) /\ f = "init" => ~native.started
    BY DEF ClaudeTurn, ClaudeTakes, WorkInv, WorkTyped
  <2>3. Event("log") # Event("metadata")
    BY DEF Event
  <2>4. o \subseteq {Event("log"), Event("metadata")} /\ (Event("metadata") \in o => f = "init")
    BY <2>3
  <2>5. Observe(f, ClaudeTakes(native, f), ClaudeTurn(native, f), o, "schema")
    BY <1>3 DEF ClaudeFrame
  <2> HIDE DEF o
  <2> QED  BY <1>1, <2>1, <2>2, <2>4, <2>5
<1> QED  BY <1>2, <1>3

\* What run does once it is resumed.
LEMMA StreamEnds == WorkInv /\ StreamInv /\ Ends => StreamInv'
<1> SUFFICES ASSUME WorkInv, StreamInv, Ends PROVE StreamInv'
  OBVIOUS
<1> USE DEF worker
<1>1. CASE LeaderExits \/ EndUnconfirmed
  <2>1. /\ UNCHANGED <<kind, box, native>> /\ at \in {"exiting", "terminating"}
        /\ at' \in {"terminating", "clearing"}
    BY <1>1 DEF LeaderExits, EndUnconfirmed, Throw
  <2> QED  BY <2>1, StreamKept DEF Filling, Running
<1>2. ASSUME NEW turnResult \in Results, turnResult # "none", NEW usage \in BOOLEAN, at \in Filling,
             kind' = kind, kind # "fake",
             Ending(turnResult, usage, Disposing) \/ Ending(turnResult, usage, Publish)
      PROVE  StreamInv'
  <2> DEFINE used == IF usage THEN Push(box, Event("usage")) ELSE box
             r == IF Cancelled THEN "cancelled" ELSE turnResult
  <2>1. \E noisy \in BOOLEAN :
           LET b == IF noisy THEN Push(used, Event("log")) ELSE used IN Disposing(b, r) \/ Publish(b, r)
    BY <1>2 DEF Ending
  <2>2. PICK noisy \in BOOLEAN :
           LET b == IF noisy THEN Push(used, Event("log")) ELSE used IN Disposing(b, r) \/ Publish(b, r)
    BY <2>1
  <2> DEFINE b == IF noisy THEN Push(used, Event("log")) ELSE used
  <2>3. Counted(b) /\ Len(b.queue) <= Capacity
    BY <1>2, LastPushes
  <2>4. r \in Results /\ r # "none"
    BY <1>2 DEF Results
  <2>5. Disposing(b, r) \/ Publish(b, r)
    BY <2>2
  <2> HIDE DEF b, r
  <2>6. CASE Disposing(b, r)
    <3>1. kind' # "fake" /\ Counted(box') /\ Len(box'.queue) <= Capacity /\ at' = "disposing"
      BY <1>2, <2>3, <2>6 DEF Disposing
    <3> QED  BY <3>1 DEF StreamInv, BeforeRunning, Preflight, Filling
  <2> QED  BY <1>2, <2>3, <2>4, <2>5, <2>6, StreamPublished
<1>3. CodexResult(native) \in Results \ {"none"} /\ ClaudeResult(native) \in Results \ {"none"}
  BY EndResults DEF Results, Failures
<1>4. CASE CodexEnds
  <2>1. (~Cancelled /\ native.completed) \in BOOLEAN
    OBVIOUS
  <2> QED  BY <1>2, <1>3, <1>4, <2>1 DEF CodexEnds, Filling
<1>5. CASE ClaudeEnds
  <2>1. (~Cancelled /\ native.completed /\ ~native.failed) \in BOOLEAN
    OBVIOUS
  <2> QED  BY <1>2, <1>3, <1>5, <2>1 DEF ClaudeEnds, Filling
<1>6. CASE CodexClears
  <2>1. UNCHANGED <<kind, box>> /\ at = "clearing" /\ at' = "disposing"
    BY <1>6 DEF CodexClears, Disposing
  <2> QED  BY <2>1, StreamKept DEF Running
<1>7. at \in {"clearing", "disposing"} => kind # "fake" /\ Counted(box) /\ Len(box.queue) <= Capacity
  BY DEF StreamInv, Running, BeforeRunning, Preflight
<1>8. CASE ClaudeClears
  <2>1. /\ at = "clearing" /\ kind' = kind
        /\ \E confirmed \in BOOLEAN : Publish(box, Cleared(confirmed))
    BY <1>8 DEF ClaudeClears
  <2>2. \A confirmed \in BOOLEAN : Cleared(confirmed) \in Results /\ Cleared(confirmed) # "none"
    BY <2>1, EndResults DEF Results, Failures
  <2> QED  BY <1>7, <2>1, <2>2, StreamPublished
<1>9. CASE CodexDisposes
  <2> DEFINE r == IF files' = "removed" THEN result ELSE "unsafe"
  <2>1. at = "disposing" /\ kind' = kind /\ Publish(box, r)
    BY <1>9 DEF CodexDisposes
  <2>2. r \in Results /\ r # "none"
    BY <2>1 DEF Results, Failures, WorkInv, WorkTyped, ResultSound
  <2> HIDE DEF r
  <2> QED  BY <1>7, <2>1, <2>2, StreamPublished
<1> QED  BY <1>1, <1>4, <1>5, <1>6, <1>8, <1>9 DEF Ends

\* The end of a Pi execution, with its usage or without.
LEMMA StreamPiConcludes ==
    ASSUME WorkInv, StreamInv, NEW r \in {"succeeded", "model", "cancelled", "schema"}, PiConcludes(r),
           kind' = kind, kind = "pi", at \in {"aborting", "prompting"}
    PROVE  StreamInv'
<1>1. r \in Results \ {"none"} /\ "unsafe" \in Results \ {"none"} /\ "unavailable" \in Results \ {"none"}
  BY DEF Results, Failures
<1>2. Counted(box) /\ Len(box.queue) <= Capacity
  BY DEF StreamInv, Running
<1>3. /\ Counted(Push(box, Event("usage"))) /\ Len(Push(box, Event("usage")).queue) <= Capacity
  <2>1. CASE at = "prompting"
    BY <2>1, LastPushes DEF Filling
  <2>2. CASE at = "aborting"
    <3>1. box = EmptyBox
      BY <2>2 DEF StreamInv
    <3>2. Event("usage") \in Quiet
      BY QuietEvents
    <3>3. ~Overflows(box, Event("usage"))
      BY <1>2, <3>1, <3>2, EmptyCounts, RoomIsEnough, AdapterConstants
    <3> QED  BY <1>2, <3>2, <3>3, PushCounts
  <2> QED  BY <2>1, <2>2
<1>4. \E b \in {box, Push(box, Event("usage"))}, s \in {r, "unsafe", "unavailable"} : Publish(b, s)
  BY DEF PiConcludes
<1>5. PICK b \in {box, Push(box, Event("usage"))}, s \in {r, "unsafe", "unavailable"} : Publish(b, s)
  BY <1>4
<1>6. Counted(b) /\ Len(b.queue) <= Capacity /\ s \in Results /\ s # "none"
  BY <1>1, <1>2, <1>3
<1> QED  BY <1>5, <1>6, StreamPublished

\* The steps of a Pi execution.
LEMMA StreamPi ==
    WorkInv /\ StreamInv /\ (SessionMade \/ SessionFails \/ SessionLog \/ AbortSettles \/ PiGivesUp \/ PromptEnds)
        => StreamInv'
<1> SUFFICES ASSUME WorkInv, StreamInv,
                    SessionMade \/ SessionFails \/ SessionLog \/ AbortSettles \/ PiGivesUp \/ PromptEnds
             PROVE  StreamInv'
  OBVIOUS
<1>1. CASE PiGivesUp
  BY <1>1, StreamPiConcludes DEF PiGivesUp
<1>2. CASE PromptEnds
  <2>1. PICK r \in {"succeeded", "model", "cancelled", "schema"} : PiConcludes(PiSettled(r))
    BY <1>2 DEF PromptEnds
  <2>2. PiSettled(r) \in {"succeeded", "model", "cancelled", "schema"}
    BY DEF PiSettled
  <2> QED  BY <1>2, <2>1, <2>2, StreamPiConcludes DEF PromptEnds
<1>3. CASE SessionMade
  <2>1. kind' = kind /\ kind = "pi" /\ at = "creating"
    BY <1>3 DEF SessionMade
  <2>2. \/ at' = "aborting" /\ box' = box
        \/ at' = "prompting" /\ box' = Push(Push(box, Event("started")), Event("metadata"))
    BY <1>3 DEF SessionMade
  <2> QED  BY <2>1, <2>2, StreamKept, StreamBegins
<1>4. CASE SessionFails
  <2>1. kind' = kind /\ kind = "pi" /\ at = "creating" /\ Publish(box, PiSettled("model"))
    BY <1>4 DEF SessionFails
  <2>2. PiSettled("model") \in Results /\ PiSettled("model") # "none"
    BY DEF PiSettled, Results, Failures
  <2>3. Counted(box) /\ Len(box.queue) <= Capacity
    BY <2>1 DEF StreamInv, Running
  <2> QED  BY <2>1, <2>2, <2>3, StreamPublished
<1>5. CASE SessionLog
  <2>1. UNCHANGED <<kind, at, native>> /\ kind = "pi" /\ at = "prompting" /\ box' = Push(box, Event("log"))
    BY <1>5 DEF SessionLog
  <2>2. Counted(box) /\ Len(box.queue) <= Capacity /\ Room(box, Required)
    BY <2>1 DEF StreamInv, Running, Filling
  <2>3. Event("log") \in Quiet /\ IsLog(Event("log")) /\ ~Overflows(box, Event("log"))
    BY QuietEvents DEF Overflows
  <2>4. Required \in Nat /\ Required' = Required
    BY <2>1 DEF Required
  <2>5. Counted(box') /\ Len(box'.queue) <= Capacity /\ Room(box', Required')
    BY <2>1, <2>2, <2>3, <2>4, PushCounts
  <2> QED  BY <2>1, <2>5 DEF StreamInv, BeforeRunning, Preflight
<1>6. CASE AbortSettles
  BY <1>6, StreamKept DEF AbortSettles, worker
<1> QED  BY <1>1, <1>2, <1>3, <1>4, <1>5, <1>6

\* Its consumer empties the queue.
LEMMA StreamConsume == WorkInv /\ StreamInv /\ Consume => StreamInv'
<1> SUFFICES ASSUME WorkInv, StreamInv, Consume PROVE StreamInv'
  OBVIOUS
<1>1. /\ UNCHANGED <<kind, at, native, result>> /\ kind # "fake" /\ at \notin Preflight /\ box.queue # <<>>
      /\ box' = Taken(box)
  BY DEF Consume, Taken, worker
<1>2. at \notin BeforeRunning \cup {"creating", "aborting"}
  BY <1>1 DEF StreamInv, EmptyBox
<1>3. CASE at \in Running
  <2>1. Counted(box) /\ Len(box.queue) <= Capacity
    BY <1>1, <1>3 DEF StreamInv
  <2>2. /\ Counted(box') /\ Len(box'.queue) <= Len(box.queue)
        /\ \A k \in Nat : Room(box, k) => Room(box', k)
    BY <1>1, <2>1, TakenCounts
  <2>3. Len(box'.queue) <= Capacity
    <3>1. Len(box'.queue) \in Nat /\ Len(box.queue) \in Nat /\ Capacity \in Nat
      BY <2>1, <2>2, LenProperties, AdapterConstants DEF Counted, Box
    <3> QED  BY <2>1, <2>2, <3>1
  <2>4. Required \in Nat /\ Required' = Required
    BY <1>1 DEF Required
  <2>5. at \in Filling => Room(box', Required')
    BY <2>2, <2>4 DEF StreamInv
  <2> QED  BY <1>1, <1>2, <1>3, <2>2, <2>3, <2>5 DEF StreamInv, Running
<1>4. CASE at = "done"
  <2>1. Ended(box, result) /\ result \in Results /\ result # "none"
    BY <1>1, <1>4 DEF StreamInv, WorkInv, WorkTyped, ResultSound
  <2>2. Ended(box', result')
    BY <1>1, <2>1, TakenEnds
  <2> QED  BY <1>1, <1>4, <2>2 DEF StreamInv, BeforeRunning, Preflight, Running, Filling
<1> QED  BY <1>2, <1>3, <1>4 DEF WorkInv, WorkTyped, Places, BeforeRunning

\* The fake adapter: the script is replayed, and its result does not change once it was read.
LEMMA StreamFake == WorkInv /\ StreamInv /\ (FakeEvents \/ FakeCollect \/ FakeCancel) => StreamInv'
<1> SUFFICES ASSUME WorkInv, StreamInv, FakeEvents \/ FakeCollect \/ FakeCancel PROVE StreamInv'
  OBVIOUS
<1>1. kind' = kind /\ kind = "fake" /\ at \in {"ready", "done"} /\ at' \in {"ready", "done"} /\ FakeBox
  BY DEF FakeEvents, FakeCollect, FakeCancel, StreamInv
<1>2. SUFFICES FakeBox'
  BY <1>1 DEF StreamInv, BeforeRunning, Preflight, Filling
<1>3. CASE FakeEvents
  <2>1. box.seen = "none" /\ result' = result /\ Counted(box) /\ box.dropped = 0
    BY <1>1, <1>3 DEF FakeEvents, FakeBox
  <2>2. CASE box.queue # <<>>
    <3>1. box' = [box EXCEPT !.queue = Tail(@), !.delivered = @ + (IF IsLog(Head(box.queue)) THEN 1 ELSE 0)]
      BY <1>3, <2>2 DEF FakeEvents
    <3>2. Head(box.queue) = box.queue[1] /\ box.queue[1].dropped = 0 /\ box.queue[1].type # "completed"
      <4>1. box.queue \in Seq(Entry) /\ \A i \in 1..Len(box.queue) : box.queue[i] \in Quiet
        BY <2>1 DEF Counted, Box
      <4>2. 1 \in 1..Len(box.queue) /\ Head(box.queue) = box.queue[1]
        BY <2>2, <4>1, TailCounts
      <4> QED  BY <4>1, <4>2, QuietEvents
    <3> DEFINE one == IF IsLog(Head(box.queue)) THEN 1 ELSE 0
    <3>3. box \in Box /\ box.delivered \in Nat /\ box.admitted = 0
      BY <2>1 DEF Counted, Box
    <3>4. /\ Counted(Taken(box)) /\ Taken(box).queue = Tail(box.queue) /\ Taken(box).dropped = box.dropped
          /\ Taken(box).emitted = box.emitted /\ Taken(box).delivered = box.delivered + one
      BY <2>1, <2>2, <3>2, <3>3, TakenCounts, TakenFields
    <3>5. one \in Nat
      OBVIOUS
    <3> HIDE DEF one
    <3>6. Tail(box.queue) \in Seq(Entry) /\ box.delivered + one \in Nat
      BY <3>3, <3>4, <3>5 DEF Counted, Box
    <3>7. /\ box' \in Box /\ box'.queue = Tail(box.queue) /\ box'.delivered = box.delivered + one
          /\ box'.emitted = box.emitted /\ box'.dropped = box.dropped
          /\ box'.admitted = box.admitted /\ box'.seen = box.seen
      BY <3>1, <3>3, <3>6 DEF Box, one
    <3>8. Counted(box')
      BY <2>1, <3>3, <3>4, <3>7 DEF Counted
    <3> QED  BY <2>1, <3>7, <3>8 DEF FakeBox
  <2>3. CASE box.queue = <<>>
    <3>1. at' = "done" /\ box' = [box EXCEPT !.seen = Status(result)]
      BY <1>3, <2>3 DEF FakeEvents
    <3>2. result \in Results /\ result # "none"
      BY <1>1 DEF WorkInv, WorkTyped, ResultSound
    <3>3. Status(result) \in {"succeeded", "failed", "cancelled"}
      BY <3>2 DEF Status, Results, Failures
    <3>4. LogCount(box.queue) = 0
      BY <2>3, EmptyCounts
    <3>5. /\ box \in Box /\ box.emitted \in Nat /\ box.delivered \in Nat /\ box.admitted = 0
          /\ box.emitted = box.delivered + box.dropped + LogCount(box.queue)
      BY <2>1 DEF Counted, Box
    <3>6. box.emitted = box.delivered + box.admitted
      BY <2>1, <3>4, <3>5
    <3>7. /\ box' \in Box /\ box'.seen = Status(result) /\ box'.queue = <<>> /\ box'.dropped = 0
          /\ box'.emitted = box.emitted /\ box'.delivered = box.delivered /\ box'.admitted = box.admitted
      BY <2>1, <2>3, <3>1, <3>3, <3>5 DEF Box
    <3> QED  BY <2>1, <3>1, <3>3, <3>6, <3>7 DEF FakeBox
  <2> QED  BY <2>2, <2>3
<1>4. CASE FakeCollect
  BY <1>1, <1>4 DEF FakeCollect, FakeBox
<1>5. CASE FakeCancel
  BY <1>1, <1>5 DEF FakeCancel, FakeBox
<1> QED  BY <1>3, <1>4, <1>5

\* Every step keeps what is known of the stream.
LEMMA StreamStep == WorkInv /\ StreamInv /\ [AdapterNext]_adapterVars => StreamInv'
<1> SUFFICES ASSUME WorkInv, StreamInv, [AdapterNext]_adapterVars PROVE StreamInv'
  OBVIOUS
<1>1. CASE \/ Cancels \/ Collect \/ Cancel \/ CancelFinished \/ HelperStarts
           \/ \E m \in {"leader", "helper"} : MemberEnds(m)
           \/ UNCHANGED adapterVars
  <2>1. UNCHANGED <<kind, at, box, native, result>>
    BY <1>1 DEF Cancels, CancelStops, CancelRejects, CancelResolves, Collect, Cancel, CancelFinished, HelperStarts,
       MemberEnds, adapterVars, worker
  <2> QED  BY <2>1, StreamKept
<1>2. CASE ClaudeLimit \/ OutputEnds
  <2>1. UNCHANGED <<kind, box, native>> /\ at = "streaming" /\ at' \in {"exiting", "clearing"}
    BY <1>2 DEF ClaudeLimit, OutputEnds, Throw, worker
  <2> QED  BY <2>1, StreamKept DEF Filling, Running
<1> QED  BY <1>1, <1>2, StreamStarts, StreamFrames, StreamEnds, StreamPi, StreamConsume, StreamFake DEF AdapterNext

-----------------------------------------------------------------------------
\* Both hold in every state.
LEMMA AdapterInvariance == AdapterSpec => [](WorkInv /\ StreamInv)
<1>1. AdapterInit => WorkInv /\ StreamInv
  BY WorkInit, StreamInit
<1>2. (WorkInv /\ StreamInv) /\ [AdapterNext]_adapterVars => (WorkInv /\ StreamInv)'
  BY WorkStep, StreamStep
<1> QED  BY <1>1, <1>2, PTL DEF AdapterSpec

(* Every variable keeps its type, and the queue of an adapter that runs something is bounded by its capacity and the
   two last events, whatever the process prints (push of runtime-codex, runtime-claude-code and runtime-pi). *)
THEOREM AdapterTypeCorrect == AdapterSpec => []AdapterTypeOK
<1>1. WorkInv /\ StreamInv => AdapterTypeOK
  <2> SUFFICES ASSUME WorkInv, StreamInv, kind # "fake" PROVE Len(box.queue) <= Capacity + 2
    BY DEF AdapterTypeOK, WorkInv, WorkTyped
  <2>1. CASE at \in BeforeRunning
    BY <2>1, EmptyCounts, AdapterConstants DEF StreamInv
  <2>2. CASE at \in Running
    <3>1. Counted(box) /\ Len(box.queue) <= Capacity
      BY <2>2 DEF StreamInv
    <3>2. Len(box.queue) \in Nat /\ Capacity \in Nat
      BY <3>1, LenProperties, AdapterConstants DEF Counted, Box
    <3> QED  BY <3>1, <3>2
  <2>3. CASE at = "done"
    BY <2>3 DEF StreamInv, Ended
  <2> QED  BY <2>1, <2>2, <2>3 DEF WorkInv, WorkTyped, Places, BeforeRunning
<1> QED  BY <1>1, AdapterInvariance, PTL

(* A finished execution that may have left a worker, a session or private files behind says so, but for a Pi session
   that createSession made and could not abort or dispose: of that one nothing is said but a failure or a cancellation.
   Success is only said of a worker that told of its completion, of no failure, and exited with zero. *)
THEOREM ResultsAreHonest == AdapterSpec => []ResultIsHonest
<1>1. WorkInv => ResultIsHonest
  BY DEF WorkInv, WorkTyped, OwnedBy, ResultSound, ResultIsHonest, MayRun, Owned
<1> QED  BY <1>1, AdapterInvariance, PTL

(* Stream and collect agree on how an execution ended, and every log that was pushed was delivered or is in the count
   the summary gave, for any capacity of the queue and any number of frames. *)
THEOREM StreamsAgree == AdapterSpec => []StreamAgreesWithResult
<1>1. WorkInv /\ StreamInv => StreamAgreesWithResult
  <2> SUFFICES ASSUME WorkInv, StreamInv, box.seen # "none"
               PROVE  /\ collected # "none" => box.seen = Status(collected)
                      /\ box.emitted = box.delivered + box.admitted /\ box.queue = <<>>
    BY DEF StreamAgreesWithResult
  <2>1. at \notin BeforeRunning
    BY DEF StreamInv, EmptyBox
  <2>2. collected # "none" => collected = result
    BY DEF WorkInv, ResultSound
  <2>3. CASE kind = "fake"
    <3>1. FakeBox
      BY <2>1, <2>3 DEF StreamInv
    <3> QED  BY <2>2, <3>1 DEF FakeBox
  <2>4. CASE kind # "fake"
    <3>1. at = "done"
      BY <2>1, <2>4 DEF StreamInv, Counted, WorkInv, WorkTyped, Places, BeforeRunning
    <3>2. Ended(box, result)
      BY <2>4, <3>1 DEF StreamInv
    <3>3. box.queue \in Seq(Entry) /\ Len(box.queue) = 0
      BY <3>2 DEF Ended, Box
    <3>4. box.queue = <<>>
      BY <3>3, EmptySeq
    <3> QED  BY <2>2, <3>2, <3>4 DEF Ended
  <2> QED  BY <2>3, <2>4
<1> QED  BY <1>1, AdapterInvariance, PTL

=============================================================================
