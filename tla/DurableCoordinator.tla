-------------------------- MODULE DurableCoordinator ---------------------------
(***************************************************************************)
(* DurableRunCoordinator, its sessions, the run they coordinate and the    *)
(* executions they own: sessions of several coordinator processes on one   *)
(* run, their crashes and failures, pause and cancel requests, workers,    *)
(* and the supervisors that keep the workers.                              *)
(*                                                                         *)
(* Each session.commit is one step: the store takes the whole batch or     *)
(* nothing (RunStore), and the reducer accepts the whole batch or the      *)
(* session ends (RunReducer). Between two commits another process, a       *)
(* worker, a supervisor or an operator may take any number of steps, the   *)
(* session may fail and its process may die.                               *)
(*                                                                         *)
(* RunStore proves that at most one live session owns a run, so a lease is *)
(* here its holder and whether that process died without releasing it. A   *)
(* process slot is used again by a later process.                          *)
(***************************************************************************)
EXTENDS RunReducer, FiniteSets

CONSTANTS Order,       \* the authored order of the nodes
          Needs,       \* the dependencies of each node
          Budget,      \* attemptBudget.maxAttempts of each node
          Timed,       \* the nodes with a duration limit
          ReadOnly,    \* whether the workspace is readonly
          Content,     \* what a capture may find in the workspace
          Coord,       \* coordinator processes
          Control,     \* control operation identifiers
          ActionOf,    \* pause or cancel
          None

ASSUME CoordinatorConstants ==
    /\ Order \in Seq(Node) /\ \A n \in Node : \E i \in DOMAIN Order : Order[i] = n
    /\ Needs \in [Node -> SUBSET Node]
    /\ Budget \in [Node -> Nat \ {0}]
    /\ Timed \subseteq Node
    /\ ReadOnly \in BOOLEAN /\ Content # {}
    /\ ActionOf \in [Control -> {"pause", "cancel"}]
    /\ None \notin Coord \cup Control

\* The authored order lists each node once: it is that of the nodes' names in the workflow.
ASSUME OrderOnce == \A i, j \in DOMAIN Order : Order[i] = Order[j] => i = j

\* A workflow with a dependency cycle is refused when it is parsed: among any nodes is one that needs
\* none of the others.
ASSUME NeedsAcyclic == \A S \in (SUBSET Node) \ {{}} : \E n \in S : Needs[n] \cap S = {}

Execution == {e \in Node \X UNION {1..Budget[n] : n \in Node} : e[2] <= Budget[e[1]]}

VARIABLES
    \* the store
    run,        \* the run its history folds to
    pending,    \* controls submitted and not acknowledged
    observed,   \* controls of the ControlRequestObserved events, in order
    completed,  \* controls named by a RunPaused or RunCancelled event
    holder,     \* the process whose lease is unreleased, or None
    dead,       \* that process died without releasing it
    \* the execution host and the workspace
    host,       \* what became of each execution
    by,         \* the process that prepared it, while that process lives
    inflight,   \* prepare and authorize calls under way
    content,    \* what the workspace holds
    checkpoint, \* what it held when the latest attempt of each node was prepared
    \* the processes
    pc,         \* where the call of the process is
    view,       \* the state its session folded
    fresh,      \* no other session committed since the process loaded the run
    ctl,        \* the control its session acts on
    orphan      \* the node whose lost attempt it just orphaned

store == <<run, pending, observed, completed>>
lease == <<holder, dead>>
world == <<host, by, inflight, content, checkpoint>>
session == <<view, fresh>>
task == <<ctl, orphan>>
vars == <<store, lease, world, session, pc, task>>

\* A supervisor is live while waiting for its start, while the worker is active, when it
\* finished with its cleanup confirmed, or is uncertain about the cleanup. Without one, an
\* execution is absent, or lost: no record says what became of the worker.
Live == {"waiting", "active", "finished", "uncertain"}
HostStatus == Live \cup {"none", "absent", "lost"}

\* A worker may be running.
MaybeRunning == {"active", "uncertain", "lost"}

Executing == {"preparing", "starting", "driving", "finishing", "timeout", "timedOut", "control",
              "controlled", "succeeded", "complete"}
InSession == Executing \cup {"recover", "inspect", "terminate", "capture", "orphaned", "continue",
                             "resuming", "schedule", "preflight", "prepare"}
Ending == {"abandon", "rejected", "failing", "returning"}

-----------------------------------------------------------------------------
\* Events.

\* The nodes of S in authored order, and the first of them.
InOrder(S) ==
    LET among[i \in 0..Len(Order)] ==
            IF i = 0 THEN <<>>
            ELSE IF Order[i] \in S THEN Append(among[i - 1], Order[i]) ELSE among[i - 1]
    IN among[Len(Order)]

First(S) ==
    Order[CHOOSE i \in DOMAIN Order : Order[i] \in S /\ \A j \in 1..(i - 1) : Order[j] \notin S]

\* An event for each of the nodes, in authored order.
ForNodes(S, Event(_)) == [i \in DOMAIN InOrder(S) |-> Event(InOrder(S)[i])]

RunEvent(type) == [type |-> type]
NodeEvent(type, n) == [type |-> type, node |-> n]
Because(type, n, reason) == [type |-> type, node |-> n, reason |-> reason]
AttemptEvent(v, type, n) == [type |-> type, node |-> n, attempt |-> v.nodes[n].attempts]
Cleanup(v, n, cause, outcome) ==
    [type |-> "ExecutionCleanupObserved", node |-> n, attempt |-> v.nodes[n].attempts,
     cause |-> cause, outcome |-> outcome]
RecoveryBlocked(v, n, kind) ==
    [type |-> "RunRecoveryBlocked", node |-> n, attempt |-> v.nodes[n].attempts, kind |-> kind]
Observed(k) == [type |-> "ControlRequestObserved", control |-> k]
Paused(k) == [type |-> "RunPaused", durable |-> TRUE, control |-> k]
Cancelled(k) == [type |-> "RunCancelled", durable |-> TRUE, control |-> k]
Resumed == [type |-> "RunResumed", durable |-> TRUE]

ReadyBatch(S, reason) == ForNodes(S, LAMBDA n : Because("NodeReady", n, reason))

\* Mutant of CancelNodes: only nodes that wait are cancelled.
CancelWaiting(v) ==
    ForNodes({n \in Node : v.nodes[n].status \in {"pending", "ready"}},
             LAMBDA n : NodeEvent("NodeCancelled", n))

\* cancelNodePayloads
CancelNodes(v) ==
    ForNodes({n \in Node : v.nodes[n].status \notin SettledNode},
             LAMBDA n : NodeEvent("NodeCancelled", n))

\* Mutant of BlockOthers: ready nodes are forgotten.
BlockPending(v, except) ==
    ForNodes({n \in Node \ {except} : v.nodes[n].status = "pending"},
             LAMBDA n : NodeEvent("NodeBlocked", n))

\* blockedNodePayloads
BlockOthers(v, except) ==
    ForNodes({n \in Node \ {except} : v.nodes[n].status \in {"pending", "ready"}},
             LAMBDA n : NodeEvent("NodeBlocked", n))

\* A node and its run pause for the same reason.
PauseBoth(n, reason, k) == <<Because("NodePaused", n, reason), Paused(k)>>

-----------------------------------------------------------------------------
\* What a session reads.

\* findReadyNodes, findExecutableNodes
Ready(v) == {n \in Node : v.nodes[n].status = "ready"}
Executable(v) ==
    {n \in Node : v.nodes[n].status = "pending"
                  /\ \A m \in Needs[n] : v.nodes[m].status = "succeeded"}

\* currentOwnedAttempt, currentOrphanedAttempt
Active(v) == {n \in Node : v.nodes[n].last.status \in {"prepared", "running"}}
Orphaned(v) == {n \in Node : v.nodes[n].last.status = "orphaned" /\ v.nodes[n].status = "running"}

ExecutionOf(v, n) == <<n, v.nodes[n].attempts>>

\* attemptBudget: the node has an attempt left.
BudgetLeft(v, n) == v.nodes[n].attempts < Budget[n]

\* Mutant of Outstanding: a control observed by an earlier session is forgotten.
NoneOutstanding == None

\* outstandingObservedControl
Outstanding ==
    LET open == {i \in DOMAIN observed : observed[i] \notin completed}
    IN IF open = {} THEN None ELSE observed[CHOOSE i \in open : \A j \in open : i <= j]

\* The next control of the store: pendingControls orders them by wall clock and identifier,
\* so any of them may be first.
NextControl == IF pending = {} THEN {None} ELSE pending

\* compare: the workspace differs from the checkpoint of the node's latest attempt.
Changed(n) == content # checkpoint[n]

CauseOf(k) == IF k = None THEN "recovery" ELSE ActionOf[k]

\* Mutant of CleanupRecorded: cleanup evidence is recorded again.
CleanupNeverRecorded(v, n, cause) == FALSE

CleanupRecorded(v, n, cause) == \E c \in v.nodes[n].last.cleanup : c[1] = cause

NeedsNegotiation(v) == ~v.negotiated /\ NoAttemptsYet(v)

-----------------------------------------------------------------------------
\* OwnedRunSession.commit.

\* The controls that events of these types name.
Named(batch, types) ==
    {batch[i].control : i \in {j \in DOMAIN batch : batch[j].type \in types}} \ {None}

\* The store takes the batch if the session folded the whole history, and the session goes
\* on at next. An observed control, of which a batch has one at most, is acknowledged by the same
\* mutation. A batch the reducer rejects never reaches the store. An empty batch changes nothing.
Commit(c, batch, next) ==
    LET after == Materialized(view[c], batch)
        seen == Named(batch, {"ControlRequestObserved"})
    IN /\ UNCHANGED lease
       /\ \/ /\ batch = <<>>
             /\ pc' = [pc EXCEPT ![c] = next]
             /\ UNCHANGED <<store, session>>
          \/ /\ batch # <<>> /\ after # {} /\ fresh[c]
             /\ run' \in after
             /\ view' = [view EXCEPT ![c] = run']
             /\ fresh' = [d \in Coord |-> d = c]
             /\ observed' = IF seen = {} THEN observed
                             ELSE Append(observed, CHOOSE k \in seen : TRUE)
             /\ pending' = pending \ seen
             /\ completed' = completed \cup Named(batch, {"RunPaused", "RunCancelled"})
             /\ pc' = [pc EXCEPT ![c] = next]
          \/ /\ after = {}
             /\ pc' = [pc EXCEPT ![c] = "rejected"]
             /\ UNCHANGED <<store, session>>
          \/ /\ batch # <<>> /\ after # {} /\ ~fresh[c]
             /\ pc' = [pc EXCEPT ![c] = "failing"]
             /\ UNCHANGED <<store, session>>

\* A step of a session that stores nothing.
Moves(c, next) ==
    /\ pc' = [pc EXCEPT ![c] = next]
    /\ UNCHANGED <<store, lease, session>>

ActsOn(c, k) == ctl' = [ctl EXCEPT ![c] = k] /\ UNCHANGED orphan
At(c, places) == pc[c] \in places

-----------------------------------------------------------------------------
\* resume, up to the owned session.

Settled(status) == status \in TerminalRun \cup {"blocked"}

\* The run is loaded before its lease is acquired.
Load(c) ==
    /\ At(c, {"idle"})
    /\ ~Settled(run.status)
    /\ view' = [view EXCEPT ![c] = run]
    /\ fresh' = [fresh EXCEPT ![c] = TRUE]
    /\ ActsOn(c, Outstanding)
    /\ pc' = [pc EXCEPT ![c] = "loaded"]
    /\ UNCHANGED <<store, lease, world>>

\* Mutant of Acquire: a live owner is replaced.
AcquireByForce(c) ==
    /\ At(c, {"loaded"})
    /\ holder' = c /\ dead' = FALSE
    /\ pc' = [pc EXCEPT ![c] = "recover"]
    /\ UNCHANGED <<store, world, session, task>>

\* acquireForRecovery: the lease is released, or its owner is dead and it expired.
Acquire(c) ==
    /\ At(c, {"loaded"})
    /\ holder = None \/ dead
    /\ holder' = c /\ dead' = FALSE
    /\ pc' = [pc EXCEPT ![c] = "recover"]
    /\ UNCHANGED <<store, world, session, task>>

Gone(c) ==
    /\ view' = [view EXCEPT ![c] = CreatedRun]
    /\ fresh' = [fresh EXCEPT ![c] = FALSE]
    /\ ctl' = [ctl EXCEPT ![c] = None]
    /\ orphan' = [orphan EXCEPT ![c] = None]
    /\ pc' = [pc EXCEPT ![c] = "idle"]

\* RunOwnershipBlockedError, or the lease changed hands.
Refused(c) ==
    /\ At(c, {"loaded"})
    /\ Gone(c)
    /\ UNCHANGED <<store, lease, world>>

-----------------------------------------------------------------------------
\* coordinateRecovered.

\* An outstanding control was observed by an earlier session; otherwise the oldest pending
\* control, if any, is taken and observed.
BeginReconciling(c) ==
    /\ At(c, {"recover"})
    /\ Active(view[c]) # {}
    /\ \/ ctl[c] # None /\ Moves(c, "inspect") /\ UNCHANGED task
       \/ /\ ctl[c] = None
          /\ \E k \in NextControl :
                /\ ActsOn(c, k)
                /\ IF k = None THEN Moves(c, "inspect") ELSE Commit(c, <<Observed(k)>>, "inspect")
    /\ UNCHANGED world

\* Mutant of BoundaryBatch: a control of a paused run is only observed.
BoundaryOfRunning(v, k, observe) ==
    (IF observe THEN <<Observed(k)>> ELSE <<>>)
    \o IF v.status = "paused" THEN <<>>
       ELSE IF ActionOf[k] = "cancel" THEN CancelNodes(v) \o <<Cancelled(k)>> ELSE <<Paused(k)>>

\* What applyBoundaryControl commits.
BoundaryBatch(v, k, observe) ==
    (IF observe THEN <<Observed(k)>> ELSE <<>>)
    \o IF ActionOf[k] = "cancel" THEN CancelNodes(v) \o <<Cancelled(k)>>
       ELSE IF v.status # "paused" THEN <<Paused(k)>> ELSE <<>>

\* applyBoundaryControl of a recovered run with no execution to reconcile.
RecoverBoundary(c) ==
    /\ At(c, {"recover"})
    /\ Active(view[c]) = {}
    /\ \E k \in IF ctl[c] = None THEN NextControl ELSE {ctl[c]} :
          /\ ActsOn(c, k)
          /\ IF k = None THEN Moves(c, "continue")
             ELSE Commit(c, BoundaryBatch(view[c], k, ctl[c] = None), "returning")
    /\ UNCHANGED world

\* Where a session goes when it cannot establish absence.
Blocked(c) == IF ctl[c] = None THEN "continue" ELSE "returning"

\* Mutant of Inspect: an execution nobody knows of is taken to be absent.
InspectTrusting(c) ==
    LET status == host[ExecutionOf(view[c], First(Active(view[c])))]
    IN /\ At(c, {"inspect"})
       /\ Moves(c, IF status \in Live THEN "terminate" ELSE "capture")
       /\ UNCHANGED <<world, task>>

\* establishRecoveredAbsence: inspect. A live supervisor may fail to answer.
Inspect(c) ==
    LET v == view[c]
        n == First(Active(v))
        status == host[ExecutionOf(v, n)]
    IN /\ At(c, {"inspect"})
       /\ \/ status \in {"none", "absent"} /\ Moves(c, "capture")
          \/ status \in Live /\ Moves(c, "terminate")
          \/ status \in Live \cup {"lost"}
             /\ Commit(c, <<RecoveryBlocked(v, n, "execution-unknown")>>, Blocked(c))
       /\ UNCHANGED <<world, task>>

\* terminate of the execution host: the observation and what becomes of the execution.
\* A request that times out may or may not have been carried out.
TerminateOutcomes(status) ==
    CASE status \in {"none", "absent"} -> {<<"absent", status>>}
      [] status = "lost" -> {<<"unknown", "lost">>}
      [] status = "waiting" -> {<<"absent", "absent">>, <<"unknown", "absent">>, <<"unknown", status>>}
      [] status = "finished" -> {<<"absent", "absent">>, <<"unknown", "absent">>, <<"unknown", status>>}
      [] status = "active" -> {<<"absent", "absent">>, <<"unknown", "absent">>,
                               <<"unknown", "uncertain">>, <<"unknown", "lost">>, <<"unknown", status>>}
      [] status = "uncertain" -> {<<"unknown", "lost">>, <<"unknown", status>>}

\* Terminates the current execution and continues with what was observed.
Terminated(c, observation) ==
    LET e == ExecutionOf(view[c], First(Active(view[c])))
    IN \E outcome \in TerminateOutcomes(host[e]) :
          /\ outcome[1] = observation
          /\ host' = [host EXCEPT ![e] = outcome[2]]
          /\ UNCHANGED <<by, inflight, content, checkpoint>>

\* RunRecoveryBlocked, with the failed cleanup unless that cause already has one.
CleanupUnknown(v, n, cause) ==
    (IF CleanupRecorded(v, n, cause) THEN <<>> ELSE <<Cleanup(v, n, cause, "unknown")>>)
    \o <<RecoveryBlocked(v, n, "cleanup-unknown")>>

TerminateRecovered(c) ==
    LET v == view[c]
        n == First(Active(v))
    IN /\ At(c, {"terminate"})
       /\ \/ Terminated(c, "absent") /\ Moves(c, "capture")
          \/ /\ Terminated(c, "unknown")
             /\ Commit(c, CleanupUnknown(v, n, CauseOf(ctl[c])), Blocked(c))
       /\ UNCHANGED task

\* reconcileOwnedAttempt: the execution is absent, its workspace is captured and compared.
Orphan(c) ==
    LET v == view[c]
        n == First(Active(v))
        cause == CauseOf(ctl[c])
    IN /\ At(c, {"capture"})
       /\ Commit(c, <<AttemptEvent(v, "ArtifactProduced", n)>>
                    \o (IF CleanupRecorded(v, n, cause) THEN <<>>
                        ELSE <<Cleanup(v, n, cause, "confirmed")>>)
                    \o <<[type |-> "AttemptOrphaned", node |-> n, attempt |-> v.nodes[n].attempts,
                         differs |-> Changed(n)]>>,
                 "orphaned")
       /\ orphan' = [orphan EXCEPT ![c] = n]
       /\ UNCHANGED <<world, ctl>>

\* finishRecoveredControl
FinishRecoveredControl(c) ==
    LET v == view[c]
        k == ctl[c]
    IN /\ At(c, {"orphaned"})
       /\ k # None
       /\ Commit(c, IF ActionOf[k] = "pause" THEN PauseBoth(orphan[c], "operator", k)
                    ELSE CancelNodes(v) \o <<Cancelled(k)>>,
                 "returning")
       /\ UNCHANGED <<world, task>>

\* The outcome of a runtime preflight that fails.
PreflightFailure == "runtime-unavailable"

\* Mutant of OrphanToContinue: an observed control does not keep the attempt from continuing.
OrphanAlwaysContinues(c) ==
    \/ At(c, {"orphaned"})
    \/ At(c, {"continue"}) /\ view[c].status = "recovery-blocked" /\ Orphaned(view[c]) # {}

\* The callers of continueOrphaned: reconcileOwnedAttempt without a control, and
\* coordinateRecovered for a recovery-blocked run whose attempt is orphaned.
OrphanToContinue(c) ==
    \/ At(c, {"orphaned"}) /\ ctl[c] = None
    \/ At(c, {"continue"}) /\ view[c].status = "recovery-blocked" /\ Orphaned(view[c]) # {}

\* The node that continues, and the end of its reconciliation.
NodeToContinue(c) == IF At(c, {"orphaned"}) THEN orphan[c] ELSE First(Orphaned(view[c]))
Reconciled(c) == orphan' = [orphan EXCEPT ![c] = None] /\ UNCHANGED ctl

\* Mutant of ResumeBlocked: the run stays blocked.
StayBlocked(v) == <<>>

\* A recovery-blocked run resumes with its attempt.
ResumeBlocked(v) == IF v.status = "recovery-blocked" THEN <<Resumed>> ELSE <<>>

\* continueOrphaned
ContinueOrphaned(c) ==
    LET v == view[c]
        n == NodeToContinue(c)
    IN /\ OrphanToContinue(c)
       /\ Commit(c,
                 IF v.nodes[n].last.differs THEN PauseBoth(n, "workspace-conflict", None)
                 ELSE IF ~BudgetLeft(v, n) THEN PauseBoth(n, "attempt-budget-exhausted", None)
                 ELSE <<Because("NodeReady", n, "recovered")>> \o ResumeBlocked(v),
                 "continue")
       /\ Reconciled(c) /\ UNCHANGED world

PreflightFailsOrphaned(c) ==
    LET v == view[c]
        n == NodeToContinue(c)
    IN /\ OrphanToContinue(c)
       /\ ~v.nodes[n].last.differs /\ BudgetLeft(v, n)
       /\ Commit(c, PauseBoth(n, PreflightFailure, None), "continue")
       /\ Reconciled(c) /\ UNCHANGED world

\* Mutant of StaysPaused: the workspace is not captured again.
StaysPausedByBudget(v, n) ==
    v.nodes[n].pause = "attempt-budget-exhausted" \/ ~BudgetLeft(v, n)

\* resumePaused: whether a paused node keeps the run paused. The workspace is captured again
\* only for a conflict.
StaysPaused(v, n) ==
    LET node == v.nodes[n]
    IN \/ node.pause = "attempt-budget-exhausted"
       \/ ~BudgetLeft(v, n)
       \/ node.pause = "workspace-conflict" /\ Changed(n)

PausedNodes(v) == {n \in Node : v.nodes[n].status = "paused"}

\* Resumable, and the preflight may succeed.
MayResume(v) == v.status = "paused" /\ \A n \in PausedNodes(v) : ~StaysPaused(v, n)

ResumePaused(c) ==
    LET v == view[c]
    IN /\ \/ At(c, {"continue"}) /\ MayResume(v) /\ ~NeedsNegotiation(v)
          \/ At(c, {"resuming"})
       /\ Commit(c, ReadyBatch(PausedNodes(v), "resumed") \o <<Resumed>>, "schedule")
       /\ UNCHANGED <<world, task>>

\* The run stays as it is: still paused (a conflict, an exhausted budget or a failed
\* preflight) or blocked with nothing to continue.
StayStopped(c) ==
    LET v == view[c]
    IN /\ At(c, {"continue"})
       /\ v.status # "running"
       /\ v.status = "recovery-blocked" => Orphaned(v) = {}
       /\ Moves(c, "returning")
       /\ UNCHANGED <<world, task>>

ContinueRunning(c) ==
    /\ At(c, {"continue"})
    /\ view[c].status = "running"
    /\ Moves(c, "schedule")
    /\ UNCHANGED <<world, task>>

\* preflight: the first one, before any attempt, records the negotiation.
Negotiate(c) ==
    LET v == view[c]
    IN /\ NeedsNegotiation(v)
       /\ \/ At(c, {"preflight"}) /\ Commit(c, <<RunEvent("RuntimeNegotiated")>>, "prepare")
          \/ /\ At(c, {"continue"}) /\ MayResume(v)
             /\ Commit(c, <<RunEvent("RuntimeNegotiated")>>, "resuming")
       /\ UNCHANGED <<world, task>>

-----------------------------------------------------------------------------
\* coordinateRunning.

\* A control at a scheduling boundary.
Boundary(c) ==
    /\ At(c, {"schedule"})
    /\ view[c].status = "running"
    /\ \E k \in pending :
          /\ Commit(c, BoundaryBatch(view[c], k, TRUE), "schedule")
          /\ ActsOn(c, IF pc'[c] = "rejected" THEN k ELSE None)
    /\ UNCHANGED world

\* Mutant of Schedule: the nodes a success makes ready are left to the session that saw it.
ScheduleReadyOnly(c) ==
    /\ At(c, {"schedule"})
    /\ view[c].status = "running" /\ pending = {}
    /\ Moves(c, IF Ready(view[c]) # {} THEN "preflight" ELSE "returning")
    /\ UNCHANGED <<world, task>>

\* The next ready node; pending nodes become ready when none is.
Schedule(c) ==
    LET v == view[c]
    IN /\ At(c, {"schedule"})
       /\ v.status = "running" /\ pending = {}
       /\ IF Ready(v) # {} THEN Moves(c, "preflight")
          ELSE IF Executable(v) # {}
          THEN Commit(c, ReadyBatch(Executable(v), "dependencies-satisfied"), "preflight")
          ELSE Moves(c, "returning")
       /\ UNCHANGED <<world, task>>

StopCoordinating(c) ==
    /\ At(c, {"schedule"})
    /\ view[c].status # "running"
    /\ Moves(c, "returning")
    /\ UNCHANGED <<world, task>>

\* ensureAttemptBudget and preflight of the node that is next.
Preflight(c) ==
    LET v == view[c]
        n == First(Ready(v))
    IN /\ At(c, {"preflight"})
       /\ IF ~BudgetLeft(v, n)
          THEN Commit(c, PauseBoth(n, "attempt-budget-exhausted", None), "schedule")
          ELSE \/ ~NeedsNegotiation(v) /\ Moves(c, "prepare")
               \/ Commit(c, <<Paused(None)>>, "schedule")
       /\ UNCHANGED <<world, task>>

\* prepareAttempt captures the checkpoint and commits the prepared attempt; its execution is
\* then prepared.
PrepareAttempt(c) ==
    LET v == view[c]
        n == First(Ready(v))
        k == v.nodes[n].attempts + 1
        Numbered(type) == [type |-> type, node |-> n, attempt |-> k]
    IN /\ At(c, {"prepare"})
       /\ Commit(c, <<Numbered("AttemptScheduled"), Numbered("ArtifactProduced"),
                      Numbered("AttemptPrepared")>>, "preparing")
       /\ IF pc'[c] = "preparing"
          THEN /\ by' = [by EXCEPT ![<<n, k>>] = c]
               /\ inflight' = inflight \cup {<<"prepare", <<n, k>>>>}
               /\ checkpoint' = [checkpoint EXCEPT ![n] = content]
               /\ UNCHANGED <<host, content>>
          ELSE UNCHANGED world
       /\ UNCHANGED task

-----------------------------------------------------------------------------
\* executeReadyNode.

\* The execution of the attempt under way.
Current(c) == LET n == First(Active(view[c])) IN ExecutionOf(view[c], n)

\* prepare returned: its start is authorized in the store, then at the supervisor.
Authorize(c) ==
    LET v == view[c]
        n == First(Active(v))
    IN /\ At(c, {"preparing"})
       /\ host[Current(c)] = "waiting" /\ <<"prepare", Current(c)>> \notin inflight
       /\ Commit(c, <<AttemptEvent(v, "AttemptStartAuthorized", n)>>, "starting")
       /\ inflight' = IF pc'[c] = "starting" THEN inflight \cup {<<"authorize", Current(c)>>}
                      ELSE inflight
       /\ UNCHANGED <<host, by, content, checkpoint, task>>

\* authorize returned.
Drive(c) ==
    /\ At(c, {"starting"})
    /\ host[Current(c)] \in {"active", "finished", "uncertain"}
    /\ <<"authorize", Current(c)>> \notin inflight
    /\ Moves(c, "driving")
    /\ UNCHANGED <<world, task>>

\* collect returned a result and released the supervisor.
Collect(c) ==
    /\ At(c, {"driving"})
    /\ host[Current(c)] = "finished"
    /\ host' = [host EXCEPT ![Current(c)] = "absent"]
    /\ Moves(c, "finishing")
    /\ UNCHANGED <<by, inflight, content, checkpoint, task>>

\* The poll of the store found a control.
ObserveControl(c) ==
    /\ At(c, {"driving"})
    /\ \E k \in pending : Commit(c, <<Observed(k)>>, "control") /\ ActsOn(c, k)
    /\ UNCHANGED world

\* The deadline passed.
RequestTimeout(c) ==
    LET v == view[c]
        n == First(Active(v))
    IN /\ At(c, {"driving"})
       /\ n \in Timed
       /\ Commit(c, <<AttemptEvent(v, "AttemptTimeoutRequested", n)>>, "timeout")
       /\ UNCHANGED <<world, task>>

\* cancel of the execution, confirmed.
Cancel(c) ==
    /\ \/ At(c, {"timeout"}) /\ Moves(c, "timedOut")
       \/ At(c, {"control"}) /\ Moves(c, "controlled")
    /\ Terminated(c, "absent")
    /\ UNCHANGED task

CancellationCompleted(v, n, outcome) ==
    [type |-> "AttemptCancellationCompleted", node |-> n, attempt |-> v.nodes[n].attempts,
     outcome |-> outcome]

\* cancel of the execution, unconfirmed.
CancelUnconfirmed(c) ==
    LET v == view[c]
        n == First(Active(v))
        blocked == <<RecoveryBlocked(v, n, "cleanup-unknown")>>
    IN /\ \/ /\ At(c, {"timeout"})
             /\ Commit(c, <<CancellationCompleted(v, n, "failed"), Cleanup(v, n, "timeout", "unknown")>>
                          \o blocked, "schedule")
          \/ /\ At(c, {"control"})
             /\ Commit(c, <<Cleanup(v, n, ActionOf[ctl[c]], "unknown")>> \o blocked, "schedule")
       /\ Terminated(c, "unknown")
       /\ UNCHANGED task

\* finishActiveControl
FinishActiveControl(c) ==
    LET v == view[c]
        n == First(Active(v))
        k == ctl[c]
    IN /\ At(c, {"controlled"})
       /\ Commit(c, <<AttemptEvent(v, "ArtifactProduced", n), AttemptEvent(v, "WorkspaceObserved", n),
                      Cleanup(v, n, ActionOf[k], "confirmed"), AttemptEvent(v, "AttemptCancelled", n)>>
                    \o IF ActionOf[k] = "pause" THEN PauseBoth(n, "operator", k)
                       ELSE CancelNodes(v) \o <<Cancelled(k)>>,
                 "schedule")
       /\ UNCHANGED <<world, task>>

\* finishResult of a failure: a conflict, a retry, or the end of the run.
FailureBatch(v, n, exhausted) ==
    <<[type |-> "AttemptFailed", node |-> n, attempt |-> v.nodes[n].attempts,
       exhausted |-> exhausted]>>
    \o IF Changed(n) THEN PauseBoth(n, "workspace-conflict", None)
       ELSE IF BudgetLeft(v, n) THEN <<Because("NodeReady", n, "retry")>>
       ELSE <<NodeEvent("NodeFailed", n)>> \o BlockOthers(v, n)
            \o <<[type |-> "RunCompleted", outcome |-> "failed"]>>

\* finishExecution and finishResult, up to the first commit.
FinishExecution(c) ==
    LET v == view[c]
        n == First(Active(v))
        evidence == <<AttemptEvent(v, "ArtifactProduced", n), AttemptEvent(v, "WorkspaceObserved", n)>>
    IN /\ At(c, {"finishing"})
       /\ \/ /\ ~(ReadOnly /\ Changed(n))
             /\ Commit(c, evidence \o <<AttemptEvent(v, "AttemptSucceeded", n),
                                        NodeEvent("NodeSucceeded", n)>>, "succeeded")
          \/ Commit(c, evidence \o FailureBatch(v, n, FALSE), "schedule")
          \/ /\ ~(ReadOnly /\ Changed(n))
             /\ Commit(c, evidence \o <<AttemptEvent(v, "AttemptBlocked", n), NodeEvent("NodeBlocked", n)>>
                          \o BlockOthers(v, n) \o <<RunEvent("RunBlocked")>>, "schedule")
          \/ /\ ~(ReadOnly /\ Changed(n))
             /\ Commit(c, evidence \o <<AttemptEvent(v, "AttemptCancelled", n)>> \o CancelNodes(v)
                          \o <<[type |-> "RunCancelled", durable |-> FALSE, control |-> None]>>,
                       "schedule")
       /\ UNCHANGED <<world, task>>

\* finishTimeout, the cancellation confirmed.
FinishTimeout(c) ==
    LET v == view[c]
        n == First(Active(v))
    IN /\ At(c, {"timedOut"})
       /\ Commit(c, <<CancellationCompleted(v, n, "succeeded"), Cleanup(v, n, "timeout", "confirmed"),
                      AttemptEvent(v, "ArtifactProduced", n), AttemptEvent(v, "WorkspaceObserved", n)>>
                    \o FailureBatch(v, n, TRUE), "schedule")
       /\ UNCHANGED <<world, task>>

\* After a success: the nodes it makes executable, then the end of the run, each a commit.
ReadyDependents(c) ==
    /\ At(c, {"succeeded"})
    /\ Commit(c, ReadyBatch(Executable(view[c]), "dependencies-satisfied"), "complete")
    /\ UNCHANGED <<world, task>>

CompleteRun(c) ==
    /\ At(c, {"complete"})
    /\ IF \A n \in Node : view[c].nodes[n].status = "succeeded"
       THEN Commit(c, <<[type |-> "RunCompleted", outcome |-> "succeeded"]>>, "schedule")
       ELSE Moves(c, "schedule")
    /\ UNCHANGED <<world, task>>

-----------------------------------------------------------------------------
\* Failures and the end of a session.

\* The heartbeat, the store, the workspace, the host or the runtime fails, before or after
\* a commit took effect.
SessionFails(c) ==
    /\ At(c, InSession)
    /\ Moves(c, IF At(c, Executing) /\ Active(view[c]) # {} THEN "abandon" ELSE "failing")
    /\ UNCHANGED <<world, task>>

\* Mutant of HostFails: a failed preparation goes unnoticed.
HostFailsOnceStarted(c) ==
    /\ \/ At(c, {"starting"}) /\ <<"authorize", Current(c)>> \notin inflight
          /\ host[Current(c)] \notin {"active", "finished", "uncertain"}
       \/ At(c, {"driving"}) /\ host[Current(c)] \in {"absent", "lost", "uncertain"}
    /\ Moves(c, "abandon")
    /\ UNCHANGED <<world, task>>

\* prepare or authorize threw, or the event stream or collect did: the supervisor is gone, or
\* it could not confirm its cleanup.
HostFails(c) ==
    /\ \/ At(c, {"preparing"}) /\ <<"prepare", Current(c)>> \notin inflight
          /\ host[Current(c)] # "waiting"
       \/ At(c, {"starting"}) /\ <<"authorize", Current(c)>> \notin inflight
          /\ host[Current(c)] \notin {"active", "finished", "uncertain"}
       \/ At(c, {"driving"}) /\ host[Current(c)] \in {"absent", "lost", "uncertain"}
    /\ Moves(c, "abandon")
    /\ UNCHANGED <<world, task>>

\* executeReadyNode terminates what it prepared, whatever the outcome.
Abandon(c) ==
    /\ At(c, {"abandon"})
    /\ \E observation \in {"absent", "unknown"} : Terminated(c, observation)
    /\ Moves(c, "failing")
    /\ UNCHANGED task

\* finishOwnedSession
Release(c) ==
    /\ At(c, {"returning", "failing", "rejected"})
    /\ holder' = None
    /\ Gone(c)
    /\ UNCHANGED <<store, dead, world>>

\* The process dies; its supervisors will find out. A failed release ends the same way when
\* the process exits.
Crash(c) ==
    /\ pc[c] # "idle"
    /\ dead' = (dead \/ holder = c)
    /\ by' = [e \in Execution |-> IF by[e] = c THEN None ELSE by[e]]
    /\ Gone(c)
    /\ UNCHANGED <<store, holder, host, inflight, content, checkpoint>>

-----------------------------------------------------------------------------
\* The environment: operators, supervisors and workers.

SubmitControl(k) ==
    /\ k \notin pending /\ \A i \in DOMAIN observed : observed[i] # k
    /\ pending' = pending \cup {k}
    /\ UNCHANGED <<run, observed, completed, lease, world, session, pc, task>>

SetHost(e, status) == host' = [host EXCEPT ![e] = status]

\* The supervisor publishes its records and waits, or its preparation fails.
PrepareReturns(e) ==
    /\ <<"prepare", e>> \in inflight
    /\ inflight' = inflight \ {<<"prepare", e>>}
    /\ UNCHANGED host \/ SetHost(e, "waiting")
    /\ UNCHANGED <<store, lease, by, content, checkpoint, session, pc, task>>

\* The supervisor launches the worker if it still waits; otherwise, and when the request is
\* lost, nothing happens.
AuthorizeReturns(e) ==
    /\ <<"authorize", e>> \in inflight
    /\ inflight' = inflight \ {<<"authorize", e>>}
    /\ UNCHANGED host \/ (host[e] = "waiting" /\ SetHost(e, "active"))
    /\ UNCHANGED <<store, lease, by, content, checkpoint, session, pc, task>>

WorkerEnds(e) ==
    /\ host[e] = "active"
    /\ \E status \in {"finished", "uncertain"} : SetHost(e, status)
    /\ UNCHANGED <<store, lease, by, inflight, content, checkpoint, session, pc, task>>

\* A supervisor stops when its coordinator is gone, terminating its worker first; or it dies.
SupervisorStops(e) ==
    /\ host[e] \in Live
    /\ \/ host[e] \in {"waiting", "finished"} /\ SetHost(e, "absent")
       \/ host[e] = "active" /\ by[e] = None /\ SetHost(e, "absent")
       \/ host[e] \in {"active", "uncertain"} /\ SetHost(e, "lost")
    /\ UNCHANGED <<store, lease, by, inflight, content, checkpoint, session, pc, task>>

WorkerChangesWorkspace(e) ==
    /\ host[e] \in MaybeRunning
    /\ content' \in Content \ {content}
    /\ UNCHANGED <<store, lease, host, by, inflight, checkpoint, session, pc, task>>

\* An operator edits the workspace, or restores it, while nothing else is at work.
OperatorEdits ==
    /\ content' \in Content \ {content}
    /\ \A c \in Coord : pc[c] = "idle"
    /\ \A e \in Execution : host[e] \notin MaybeRunning
    /\ UNCHANGED <<store, lease, host, by, inflight, checkpoint, session, pc, task>>

-----------------------------------------------------------------------------
\* createOwned stores the run with its runtime, workspace and first ready nodes; createRun
\* releases it at once, start goes on to coordinate it.
InitialRun ==
    [CreatedRun EXCEPT
        !.configured = TRUE, !.workspace = TRUE,
        !.nodes = [n \in Node |-> IF n \in Executable(CreatedRun)
                                  THEN [CreatedRun.nodes[n] EXCEPT !.status = "ready"]
                                  ELSE CreatedRun.nodes[n]]]

Init ==
    \E starter \in Coord \cup {None} :
        /\ run = InitialRun /\ pending = {} /\ observed = <<>> /\ completed = {}
        /\ holder = starter /\ dead = FALSE
        /\ host = [e \in Execution |-> "none"] /\ by = [e \in Execution |-> None]
        /\ inflight = {}
        /\ content \in Content /\ checkpoint = [n \in Node |-> content]
        /\ pc = [c \in Coord |-> IF c = starter THEN "schedule" ELSE "idle"]
        /\ view = [c \in Coord |-> IF c = starter THEN run ELSE CreatedRun]
        /\ fresh = [c \in Coord |-> c = starter]
        /\ ctl = [c \in Coord |-> None] /\ orphan = [c \in Coord |-> None]

Recovery(c) ==
    \/ Load(c) \/ Acquire(c) \/ Refused(c) \/ BeginReconciling(c) \/ RecoverBoundary(c)
    \/ Inspect(c) \/ TerminateRecovered(c) \/ Orphan(c) \/ FinishRecoveredControl(c)
    \/ ContinueOrphaned(c) \/ PreflightFailsOrphaned(c) \/ ResumePaused(c) \/ StayStopped(c)
    \/ ContinueRunning(c) \/ Negotiate(c)

Coordination(c) ==
    \/ Boundary(c) \/ Schedule(c) \/ StopCoordinating(c) \/ Preflight(c) \/ PrepareAttempt(c)
    \/ Authorize(c) \/ Drive(c) \/ Collect(c) \/ ObserveControl(c) \/ RequestTimeout(c)
    \/ Cancel(c) \/ CancelUnconfirmed(c) \/ FinishActiveControl(c) \/ FinishExecution(c)
    \/ FinishTimeout(c) \/ ReadyDependents(c) \/ CompleteRun(c)

End(c) == HostFails(c) \/ Abandon(c) \/ Release(c)

Host(e) ==
    \/ PrepareReturns(e) \/ AuthorizeReturns(e) \/ WorkerEnds(e) \/ SupervisorStops(e)
    \/ WorkerChangesWorkspace(e)

Next ==
    \/ \E c \in Coord : Recovery(c) \/ Coordination(c) \/ End(c) \/ SessionFails(c) \/ Crash(c)
    \/ \E k \in Control : SubmitControl(k)
    \/ \E e \in Execution : Host(e)
    \/ OperatorEdits

Spec == Init /\ [][Next]_vars

\* A process that lives takes its next step, and a supervisor answers: prepare, authorize and
\* every request have their timeouts. Workers, supervisors and operators owe nothing.
FairSpec ==
    /\ Spec
    /\ \A c \in Coord : WF_vars(Recovery(c) \/ Coordination(c) \/ End(c))
    /\ \A e \in Execution : WF_vars(PrepareReturns(e)) /\ WF_vars(AuthorizeReturns(e))

-----------------------------------------------------------------------------
\* Correctness.

TypeOK ==
    /\ run \in Run /\ view \in [Coord -> Run]
    /\ pending \subseteq Control /\ observed \in Seq(Control) /\ completed \subseteq Control
    /\ holder \in Coord \cup {None} /\ dead \in BOOLEAN
    /\ host \in [Execution -> HostStatus] /\ by \in [Execution -> Coord \cup {None}]
    /\ inflight \subseteq {"prepare", "authorize"} \X Execution
    /\ content \in Content /\ checkpoint \in [Node -> Content]
    /\ pc \in [Coord -> InSession \cup Ending \cup {"idle", "loaded"}]
    /\ fresh \in [Coord -> BOOLEAN] /\ ctl \in [Coord -> Control \cup {None}]
    /\ orphan \in [Coord -> Node \cup {None}]

\* executeReadyNode, reconcileOwnedAttempt: a worker that may be running belongs to the one
\* attempt the store says is running. No crash, failed session, late authorization or
\* takeover leaves a second one beside it, and a paused or settled run has none.
WorkerIsOwned ==
    \A e \in Execution :
        host[e] \in MaybeRunning =>
            /\ run.nodes[e[1]].attempts = e[2]
            /\ run.nodes[e[1]].last.status = "running"
            /\ run.status \in {"running", "recovery-blocked"}
            /\ \A d \in Execution \ {e} : host[d] \notin MaybeRunning

\* finishActiveControl, finishResult, applyBoundaryControl: a run stops only when none of its
\* attempts runs, so that resumePaused need not look for any. What stays behind of a node that
\* runs is the attempt that a crash left orphaned without its continuation.
StoppedRunIsQuiet ==
    run.status \in TerminalRun \cup {"paused", "blocked"} =>
        \A n \in Node :
            /\ run.nodes[n].last.status # "running"
            /\ run.nodes[n].status = "running" =>
                  /\ run.nodes[n].last.status = "orphaned"
                  /\ run.status # "succeeded"
            /\ run.status # "succeeded" \/ run.nodes[n].status = "succeeded"

\* establishRecoveredAbsence: a recovery-blocked run names work a later resume can take up,
\* until that resume finds it absent.
BlockedRunNamesWork ==
    run.status = "recovery-blocked" => Active(run) \cup Orphaned(run) # {}

\* outstandingObservedControl: a session finishes the control it observed before it observes
\* another, across crashes and takeovers; so finding the first outstanding one is enough.
OneOutstanding ==
    \A i, j \in DOMAIN observed :
        {observed[i], observed[j]} \cap completed = {} => observed[i] = observed[j]

\* applyRunResumed: nodes left paused in a run that went on. When the coordinator cannot inspect
\* another node's prepared attempt, a paused run becomes recovery-blocked, or an older orphan is
\* taken up and paused meanwhile; what finds that attempt absent later resumes the run for its node
\* alone, and only resumePaused of a paused run would look at the others.
Stranded(v) == {n \in Node : v.nodes[n].status = "paused"}

\* finishResult, blockedNodePayloads, cancelNodePayloads: a run settles together with its nodes;
\* none is left ready, pending or paused in a run nobody will resume, but one that a crash or a
\* failed inspection left in a run that another node fails or blocks.
SettledRunLeavesNoWork ==
    Settled(run.status) =>
        \A n \in Node :
            \/ run.nodes[n].status \in SettledNode \cup {"blocked"}
            \/ run.status \in {"failed", "blocked"} /\ n \in Orphaned(run) \cup Stranded(run)

\* OwnedRunSession, resume: the run is loaded before its lease is acquired, yet a session that
\* has an execution acts on the state the store holds.
ExecutesOnCurrentState ==
    \A c \in Coord : At(c, Executing \cup {"abandon"}) => fresh[c] /\ view[c] = run

\* coordinateRecovered: an acknowledged control outranks every later resume. Until it is
\* completed no attempt is scheduled and none is authorized to start.
ControlStopsWork ==
    [][Outstanding # None =>
        \A n \in Node :
            /\ run'.nodes[n].attempts = run.nodes[n].attempts
            /\ run'.nodes[n].last.status = "running" => run.nodes[n].last.status = "running"]_vars

\* A session that returns leaves its run stopped, except after one of two crashes: between the
\* last success and RunCompleted, and between AttemptOrphaned and its continuation. The second
\* may show later, in a node that stays paused although its run goes on.
ReturnsStoppedOrInGap ==
    \A c \in Coord :
        At(c, {"returning"}) /\ fresh[c] /\ run.status = "running" =>
            \/ \A n \in Node : run.nodes[n].status = "succeeded"
            \/ Orphaned(run) \cup Stranded(run) # {}

\* ensureAttemptBudget: nodes paused with their attempt prepared. A run that was resumed beside an
\* attempt nobody could inspect schedules the node of that attempt again, and its budget is spent.
Shelved(v) == {n \in Active(v) : v.nodes[n].status = "paused"}

\* The reducer rejects a batch of the coordinator in three cases only: a failed attempt that left
\* edits, a control for a run whose attempt is already orphaned, and the attempt of a shelved node,
\* which every later resume tries to orphan.
RejectedOnlyInGap ==
    \A c \in Coord :
        At(c, {"rejected"}) /\ fresh[c] =>
            (ctl[c] = None /\ \E n \in Active(run) : Changed(n)) \/ Orphaned(run) \cup Shelved(run) # {}

\* finishOwnedSession: with a duration limit on every node, a session ends: it coordinates to
\* a stop, fails, or dies.
SessionEnds == \A c \in Coord : pc[c] \in InSession \cup Ending ~> pc[c] = "idle"

\* finishRecoveredControl, applyBoundaryControl: an acknowledged cancel never waits in a paused
\* run with no attempt left to take up. An acknowledged pause does in one case: it came when the
\* run was paused already, and every later resume only finds it again.
\* (docs/M3_PRODUCTION_CONTRACT.md:699 calls it "a semantic no-op".)
PausedRunKeepsNoCancel ==
    run.status = "paused" /\ Outstanding # None /\ Active(run) \cup Orphaned(run) = {} =>
        ActionOf[Outstanding] = "pause"

\* resumePaused, continueOrphaned: the node of an orphaned attempt that left edits becomes
\* schedulable again only in the workspace the attempt started from, except when it was paused
\* by an operator's control instead of for its conflict. (docs/adr/0017-durable-execution-
\* ownership-and-recovery.md:75 has no exception.)
EditsAreResolved ==
    [][\A n \in Node :
          /\ run.nodes[n].last.status = "orphaned" /\ run.nodes[n].last.differs
          /\ run.nodes[n].status # "ready" /\ run'.nodes[n].status = "ready"
          => run.nodes[n].pause = "operator" \/ ~Changed(n)]_vars
=============================================================================
