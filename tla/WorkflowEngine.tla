---------------------------- MODULE WorkflowEngine ----------------------------
(***************************************************************************)
(* The in-process engine (packages/engine/src/engine.ts) over the event    *)
(* reducer: callers of start, tick and resume, one run in a RunPersistence *)
(* whose append compares the sequence, runtime executions and verification *)
(* commands (command.ts).                                                  *)
(*                                                                         *)
(* executeRuntime is two threads of control: the operation (start, events, *)
(* collect) and the deadline that races it. An operation whose deadline    *)
(* has passed goes on in the background, also after its attempt is over,   *)
(* so it is kept per execution (op) and not per caller. A cancellation is  *)
(* requested once and shared by both threads.                              *)
(*                                                                         *)
(* What an adapter does is not the engine's: a start may be refused after  *)
(* it launched a worker, a stream may break, cancel may never answer. By   *)
(* the runtime contract a worker has stopped when collect or cancel        *)
(* resolves. Payloads, artifacts and context are left out: they do not     *)
(* change what the reducer accepts. Writing them may fail.                 *)
(***************************************************************************)
EXTENDS RunReducer, FiniteSets

CONSTANTS Order,        \* the authored order of the nodes
          Needs,        \* the dependencies of each node
          Budget,       \* attemptBudget.maxAttempts
          Timed,        \* the nodes with a duration limit
          Commands,     \* the nodes that run a verification command
          ReadOnly,     \* whether the workspace is readonly
          Caller,       \* concurrent calls of runToCompletion
          MaxEvents,    \* bound on the observed runtime events of a run
          MaxFailures   \* bound on the failures of the persistence and of evidence

ASSUME EngineConstants ==
    /\ Node # {}
    /\ Order \in Seq(Node) /\ \A n \in Node : \E i \in DOMAIN Order : Order[i] = n
    /\ \A i, j \in DOMAIN Order : Order[i] = Order[j] => i = j
    /\ Needs \in [Node -> SUBSET Node]
    /\ Budget \in [Node -> Nat \ {0}]
    /\ Timed \subseteq Node /\ Commands \subseteq Node
    /\ ReadOnly \in BOOLEAN
    /\ MaxEvents \in Nat /\ MaxFailures \in Nat

Execution == {e \in Node \X UNION {1..Budget[n] : n \in Node} : e[2] <= Budget[e[1]]}

VARIABLES
    created,    \* persistence.create has stored the run
    run,        \* the run the persisted events fold to
    pc,         \* where each caller is
    fresh,      \* its state is run: nobody else appended since it loaded the run
    at,         \* the execution of its attempt
    result,     \* the result its attempt has so far
    unsafe,     \* unsafeToRetry
    op,         \* the operation, or the command, of each execution
    outcome,    \* what the operation returned
    expired,    \* the deadline of the execution has fired
    cancelled,  \* the shared cancellation
    worker,     \* what the adapter or the command left running
    events,     \* runtime events observed so far
    faults      \* what went wrong so far

callers == <<pc, fresh>>
attempt == <<at, result, unsafe>>
executions == <<op, outcome, expired, cancelled, worker>>
vars == <<created, run, callers, attempt, executions, events, faults>>

Results == {"succeeded", "failed", "exhausted", "blocked", "cancelled"}
\* errored: runtimeErrored was set and the result is a failure. rejected: the operation itself
\* threw.
Outcomes == Results \cup {"none", "errored", "rejected"}

\* In executeAttempt, whose errors become a failed result.
InAttempt == {"context", "launch", "command", "report", "running", "expired", "requested", "cancelling", "late",
              "evidence", "capture", "diff"}
InFinish == {"finish", "retry", "exhausted", "failing", "advance", "complete"}
Places == {"idle", "tick", "schedule"} \cup InAttempt \cup InFinish

\* returning: a late start collects, outside what catches its errors.
Ops == {"none", "starting", "streaming", "observing", "collecting", "stopping", "returning", "done",
        "spawned", "terminated", "killed"}

\* leaked: running, and the adapter returned no handle.
Workers == {"none", "running", "leaked", "stopped"}
Running == {"running", "leaked"}
\* overlap: an attempt was started before another caller, or one that died, concluded its own.
\* conflict: an attempt lost its run to the append of another caller. mutation: a readonly
\* workspace was found changed after a deadline. escape: the collect of a start that came after
\* its deadline rejected, and its error ended the attempt.
Faults == {"append", "evidence", "reducer", "crash", "overlap", "conflict", "mutation", "escape"}

TypeOK ==
    /\ created \in BOOLEAN /\ run \in Run
    /\ pc \in [Caller -> Places] /\ fresh \in [Caller -> BOOLEAN]
    /\ at \in [Caller -> Execution]
    /\ result \in [Caller -> Results] /\ unsafe \in [Caller -> BOOLEAN]
    /\ op \in [Execution -> Ops] /\ outcome \in [Execution -> Outcomes]
    /\ expired \in [Execution -> BOOLEAN]
    /\ cancelled \in [Execution -> {"none", "pending", "succeeded", "failed"}]
    /\ worker \in [Execution -> Workers]
    /\ events \in 0..MaxEvents /\ faults \subseteq Faults

Init ==
    /\ created = FALSE /\ run = CreatedRun
    /\ pc = [c \in Caller |-> "idle"]
    /\ fresh = [c \in Caller |-> FALSE]
    /\ at = [c \in Caller |-> CHOOSE e \in Execution : TRUE]
    /\ result = [c \in Caller |-> "failed"] /\ unsafe = [c \in Caller |-> FALSE]
    /\ op = [e \in Execution |-> "none"] /\ outcome = [e \in Execution |-> "none"]
    /\ expired = [e \in Execution |-> FALSE] /\ cancelled = [e \in Execution |-> "none"]
    /\ worker = [e \in Execution |-> "none"]
    /\ events = 0 /\ faults = {}

-----------------------------------------------------------------------------
\* What a tick reads, and the events it writes.

\* The nodes of S in authored order, and the first of them.
InOrder(S) ==
    LET among[i \in 0..Len(Order)] ==
            IF i = 0 THEN <<>>
            ELSE IF Order[i] \in S THEN Append(among[i - 1], Order[i]) ELSE among[i - 1]
    IN among[Len(Order)]

First(S) ==
    Order[CHOOSE i \in DOMAIN Order : Order[i] \in S /\ \A j \in 1..(i - 1) : Order[j] \notin S]

\* An event for each of the nodes, in authored order.
ForNodes(S, Event(_)) == [i \in DOMAIN InOrder(S) |-> Event(InOrder(S)[i])]

Ready(v) == {n \in Node : v.nodes[n].status = "ready"}

\* findExecutableNodes
Executable(v) ==
    {n \in Node : v.nodes[n].status = "pending"
                  /\ \A m \in Needs[n] : v.nodes[m].status = "succeeded"}

AttemptEvent(type, e) == [type |-> type, node |-> e[1], attempt |-> e[2]]
NodeEvent(type, n) == [type |-> type, node |-> n]
ReadyBatch(S, reason) ==
    ForNodes(S, LAMBDA n : [type |-> "NodeReady", node |-> n, reason |-> reason])

\* blockedNodePayloads
BlockOthers(v, except) ==
    ForNodes({n \in Node \ {except} : v.nodes[n].status \in {"pending", "ready"}},
             LAMBDA n : NodeEvent("NodeBlocked", n))

\* The other nodes a cancelled result takes along.
CancelOthers(v, except) ==
    ForNodes({n \in Node \ {except} : v.nodes[n].status \notin {"succeeded", "failed"}},
             LAMBDA n : NodeEvent("NodeCancelled", n))

-----------------------------------------------------------------------------
\* commit, and where an error goes.

Goes(c, place) == pc' = [pc EXCEPT ![c] = place]

\* Where runToCompletion goes with a state: it returns, throws, or ticks.
Continues(v) == IF v.status # "running" \/ Ready(v) = {} THEN "idle" ELSE "tick"

\* The catch of executeAttempt keeps a failure for the budget only.
Caught(c) == result' = [result EXCEPT ![c] = IF @ = "exhausted" THEN @ ELSE "failed"]

\* An error ends the attempt with a failed result, or the call.
Fails(c) ==
    IF pc[c] \in InAttempt THEN Goes(c, "finish") /\ Caught(c)
    ELSE Goes(c, "idle") /\ UNCHANGED result

Stored(c, r) ==
    /\ run' = r
    /\ fresh' = [d \in Caller |-> d = c]

Injected == faults \cap {"append", "evidence", "crash"}
\* Bound: deadlines, events and failures happen to a caller that is alone; whoever is the first to call
\* goes by the same name.
FirstCaller == CHOOSE c \in Caller : TRUE
Alone == Cardinality({c \in Caller : pc[c] # "idle"}) <= 1
Breaks(fault) == Alone /\ Cardinality(Injected) < MaxFailures /\ faults' = faults \cup {fault}

\* Another caller appended first, or the persistence fails. Losing the race to start an attempt
\* harms nothing.
AppendFails(c) ==
    \/ ~fresh[c] /\ faults' = IF pc[c] = "schedule" THEN faults ELSE faults \cup {"conflict"}
    \/ Breaks("append")

\* Starting an attempt while another node runs, or has failed and the run not yet.
Overlapping(c) ==
    IF pc[c] = "schedule" /\ \E n \in Node : run.nodes[n].status \in {"running", "failed"}
    THEN {"overlap"} ELSE {}

\* The batch is appended and the caller goes on at next with the new state; or the reducer
\* rejects it, or the append fails. The state a caller holds that is no longer current is not
\* kept: with it, whatever the caller appends is refused.
Commit(c, batch, next(_)) ==
    LET after == Materialized(run, batch)
    IN \/ /\ batch = <<>> /\ Goes(c, next(run))
          /\ UNCHANGED <<run, fresh, result, faults>>
       \/ /\ batch # <<>> /\ fresh[c]
          /\ \E r \in after : Stored(c, r) /\ Goes(c, next(r))
          /\ faults' = faults \cup Overlapping(c)
          /\ UNCHANGED result
       \/ /\ batch # <<>>
          /\ \/ fresh[c] /\ after = {} /\ faults' = faults \cup {"reducer"}
             \/ (fresh[c] => after # {}) /\ AppendFails(c)
          /\ Fails(c)
          /\ UNCHANGED <<run, fresh>>

\* Writing an artifact or capturing the workspace fails.
EvidenceFails(c) ==
    /\ pc[c] \in {"context", "evidence", "capture", "diff"}
    /\ Breaks("evidence")
    /\ Fails(c)
    /\ UNCHANGED <<created, run, fresh, at, unsafe, executions, events>>

-----------------------------------------------------------------------------
\* createRun, and the loop of runToCompletion.

\* The definition, the inputs and the initially ready nodes are stored together.
CreateRun(c) ==
    /\ ~created /\ pc[c] = "idle" /\ c = FirstCaller
    /\ created' = TRUE
    /\ \E r \in Materialized(CreatedRun, <<[type |-> "RuntimeNegotiated"],
                                           [type |-> "WorkspaceAssigned"]>>
                                         \o ReadyBatch(Executable(CreatedRun),
                                                       "dependencies-satisfied")) :
          Stored(c, r) /\ Goes(c, Continues(r))
    /\ UNCHANGED <<attempt, executions, events, faults>>

\* resume is runToCompletion. Bound: a second caller joins while first attempts run,
\* before any fault or event.
Resume(c) ==
    /\ created /\ pc[c] = "idle"
    /\ IF \A d \in Caller : pc[d] = "idle" THEN c = FirstCaller 
       ELSE /\ faults = {} /\ events = 0
            /\ \A n \in Node : run.nodes[n].attempts <= 1 /\ run.nodes[n].status \in {"ready", "running"}
    /\ Continues(run) = "tick"
    /\ Goes(c, "tick")
    /\ UNCHANGED <<created, run, fresh, attempt, executions, events, faults>>

\* tick loads the run again; a run that moved on is returned to the loop.
Tick(c) ==
    /\ pc[c] = "tick"
    /\ fresh' = [fresh EXCEPT ![c] = TRUE]
    /\ IF Continues(run) = "tick"
       THEN LET n == First(Ready(run))
            IN /\ Goes(c, "schedule")
               /\ at' = [at EXCEPT ![c] = <<n, run.nodes[n].attempts + 1>>]
       ELSE Goes(c, "idle") /\ UNCHANGED at
    /\ result' = [result EXCEPT ![c] = "failed"]
    /\ unsafe' = [unsafe EXCEPT ![c] = FALSE]
    /\ UNCHANGED <<created, run, executions, events, faults>>

\* The attempt is scheduled and started; what loses the race to append throws.
Schedule(c) ==
    /\ pc[c] = "schedule"
    /\ Commit(c, <<AttemptEvent("AttemptScheduled", at[c]), AttemptEvent("AttemptStarted", at[c])>>,
              LAMBDA v : "context")
    /\ UNCHANGED <<created, at, unsafe, executions, events>>

\* executeAttempt keeps the context before the worker starts.
RecordContext(c) ==
    /\ pc[c] = "context"
    /\ Commit(c, <<AttemptEvent("ArtifactProduced", at[c])>>, LAMBDA v : "launch")
    /\ UNCHANGED <<created, at, unsafe, executions, events>>

Launch(c) ==
    LET command == at[c][1] \in Commands
    IN /\ pc[c] = "launch"
       /\ Goes(c, IF command THEN "command" ELSE "running")
       /\ op' = [op EXCEPT ![at[c]] = IF command THEN "spawned" ELSE "starting"]
       /\ worker' = [worker EXCEPT ![at[c]] = IF command THEN "running" ELSE "none"]
       /\ UNCHANGED <<created, run, fresh, attempt, outcome, expired, cancelled, events, faults>>

-----------------------------------------------------------------------------
\* What an operation returns is kept while a caller waits for it.
Awaited(e) ==
    \E c \in Caller : at[c] = e /\ pc[c] \in {"command", "running", "expired", "requested",
                                             "cancelling", "late"}
Returns(e, r) ==
    /\ op' = [op EXCEPT ![e] = "done"]
    /\ outcome' = [outcome EXCEPT ![e] = IF Awaited(e) THEN r ELSE "none"]

Consumed(e) == outcome' = [outcome EXCEPT ![e] = "none"]

-----------------------------------------------------------------------------
\* LocalCommandExecutor: the process group of a verification command.

\* The deadline sends SIGTERM to the group, the grace period after it SIGKILL.
CommandTimeout(e) ==
    /\ op[e] \in {"spawned", "terminated"}
    /\ expired' = [expired EXCEPT ![e] = TRUE]
    /\ op' = [op EXCEPT ![e] = IF op[e] = "spawned" THEN "terminated" ELSE "killed"]
    /\ UNCHANGED <<created, run, callers, attempt, outcome, cancelled, worker, events, faults>>

\* close: the command has exited and its pipes are closed. A command that did not time out
\* passed, failed, or could not be started or signalled.
CommandClose(e) ==
    /\ op[e] \in {"spawned", "terminated", "killed"}
    /\ \E r \in IF expired[e] THEN {"exhausted"} ELSE {"succeeded", "failed"} :
          Returns(e, r)
    /\ expired' = [expired EXCEPT ![e] = FALSE]
    /\ worker' = [worker EXCEPT ![e] = "stopped"]
    /\ UNCHANGED <<created, run, callers, attempt, cancelled, events, faults>>

\* The command's output is kept and CommandCompleted recorded, before its result counts.
CommandReported(c) ==
    /\ pc[c] = "command" /\ op[at[c]] = "done"
    /\ Commit(c, <<AttemptEvent("ArtifactProduced", at[c]), AttemptEvent("CommandCompleted", at[c])>>,
              LAMBDA v : "report")
    /\ UNCHANGED <<created, at, unsafe, executions, events>>

CommandResult(c) ==
    /\ pc[c] = "report"
    /\ result' = [result EXCEPT ![c] = outcome[at[c]]]
    /\ Consumed(at[c])
    /\ Goes(c, "capture")
    /\ UNCHANGED <<created, run, fresh, at, unsafe, op, expired, cancelled, worker, events, faults>>

-----------------------------------------------------------------------------
\* executeRuntime: the operation.

OpOnly(e) == UNCHANGED <<created, run, callers, attempt, expired, events, faults>>

\* cancel(): the adapter is asked once.
Cancelling(e) == cancelled' = [cancelled EXCEPT ![e] = IF @ = "none" THEN "pending" ELSE @]

\* runtime.start returns a handle. After the deadline the worker is cancelled at once.
StartResolves(e) ==
    /\ op[e] = "starting"
    /\ worker' = [worker EXCEPT ![e] = "running"]
    /\ IF expired[e] THEN Cancelling(e) /\ op' = [op EXCEPT ![e] = "stopping"]
       ELSE op' = [op EXCEPT ![e] = "streaming"] /\ UNCHANGED cancelled
    /\ UNCHANGED outcome /\ OpOnly(e)

\* The operation fails: before the deadline its worker is asked to stop, but nobody waits
\* for the answer.
Errored(e) ==
    /\ Returns(e, "errored")
    /\ IF expired[e] \/ worker[e] # "running" THEN UNCHANGED cancelled ELSE Cancelling(e)

\* Start is refused, perhaps after it launched something.
StartRejects(e) ==
    /\ op[e] = "starting"
    /\ \E w \in {"none", "leaked"} : worker' = [worker EXCEPT ![e] = w]
    /\ Returns(e, "errored")
    /\ UNCHANGED cancelled /\ OpOnly(e)

\* The stream or collect breaks, or an observation is refused by the filter.
RuntimeErrs(e) ==
    /\ op[e] \in {"streaming", "collecting"}
    /\ Errored(e)
    /\ UNCHANGED worker /\ OpOnly(e)

\* An event that is new to the observation filter is observed; after the deadline none is.
EventArrives(c) ==
    LET e == at[c]
    IN /\ pc[c] = "running" /\ op[e] = "streaming" /\ ~expired[e]
       /\ events < MaxEvents /\ Alone
       /\ events' = events + 1
       /\ op' = [op EXCEPT ![e] = "observing"]
       /\ UNCHANGED <<created, run, callers, attempt, outcome, expired, cancelled, worker, faults>>

\* observe: the event is appended while the deadline may fire. An append that fails is an
\* error of the operation, and of the caller if it waits for it after the deadline.
Observed(c) ==
    LET e == at[c]
        first == ~run.nodes[e[1]].last.usage
    IN /\ pc[c] \in {"running", "expired"} /\ op[e] = "observing"
       /\ \/ /\ fresh[c]
             /\ \E usage \in {FALSE, first} : \E r \in Materialized(run, <<[type |-> "RuntimeEventObserved", node |-> e[1],
                                                  attempt |-> e[2], usage |-> usage]>>) :
                   Stored(c, r)
             /\ op' = [op EXCEPT ![e] = "streaming"]
             /\ UNCHANGED <<pc, result, outcome, cancelled, faults>>
          \/ /\ AppendFails(c)
             /\ Errored(e)
             /\ IF pc[c] = "expired" THEN Fails(c) ELSE UNCHANGED <<pc, result>>
             /\ UNCHANGED <<run, fresh>>
       /\ UNCHANGED <<created, at, unsafe, expired, worker, events>>

StreamEnds(e) ==
    /\ op[e] = "streaming"
    /\ op' = [op EXCEPT ![e] = "collecting"]
    /\ UNCHANGED <<outcome, cancelled, worker>> /\ OpOnly(e)

\* After its cancellation was answered, a late start collects as well.
LateStartCollects(e) ==
    /\ op[e] = "stopping" /\ cancelled[e] \in {"succeeded", "failed"}
    /\ op' = [op EXCEPT ![e] = "returning"]
    /\ UNCHANGED <<outcome, cancelled, worker>> /\ OpOnly(e)

\* That collect is returned and not awaited: its rejection is the operation's own.
LateCollectRejects(e) ==
    /\ op[e] = "returning"
    /\ Returns(e, "rejected")
    /\ UNCHANGED <<cancelled, worker>> /\ OpOnly(e)

\* collect resolves once the worker is gone; the output is validated later.
Collected(e) ==
    /\ op[e] \in {"collecting", "returning"}
    /\ \E r \in Results \ {"exhausted"} : Returns(e, r)
    /\ worker' = [worker EXCEPT ![e] = "stopped"]
    /\ UNCHANGED cancelled /\ OpOnly(e)

\* runtime.cancel answers, or never does.
CancelAnswers(e) ==
    /\ cancelled[e] = "pending"
    /\ \E answer \in {"succeeded", "failed"} :
          /\ cancelled' = [cancelled EXCEPT ![e] = answer]
          /\ worker' = [worker EXCEPT ![e] = IF answer = "succeeded" THEN "stopped" ELSE @]
    /\ UNCHANGED <<op, outcome>> /\ OpOnly(e)

-----------------------------------------------------------------------------
\* executeRuntime: the deadline.

\* The operation wins the race.
OperationWins(c) ==
    LET e == at[c]
    IN /\ pc[c] = "running" /\ op[e] = "done"
       /\ result' = [result EXCEPT ![c] = IF outcome[e] = "errored" THEN "failed" ELSE outcome[e]]
       /\ unsafe' = [unsafe EXCEPT ![c] = outcome[e] = "errored"]
       /\ Consumed(e)
       /\ Goes(c, "evidence")
       /\ UNCHANGED <<created, run, fresh, at, op, expired, cancelled, worker, events, faults>>

Deadline(c) ==
    /\ pc[c] = "running" /\ at[c][1] \in Timed /\ op[at[c]] # "done" /\ Alone
    /\ expired' = [expired EXCEPT ![at[c]] = TRUE]
    /\ Goes(c, "expired")
    /\ UNCHANGED <<created, run, fresh, attempt, op, outcome, cancelled, worker, events, faults>>

\* The request is recorded before the worker is asked to stop, after any append under way.
RecordTimeout(c) ==
    /\ pc[c] = "expired" /\ op[at[c]] # "observing"
    /\ Commit(c, <<AttemptEvent("AttemptTimeoutRequested", at[c])>>, LAMBDA v : "requested")
    /\ UNCHANGED <<created, at, unsafe, executions, events>>

CancellationCompleted(c, answer) ==
    <<[type |-> "AttemptCancellationCompleted", node |-> at[c][1], attempt |-> at[c][2],
       outcome |-> answer]>>

HasHandle(e) == worker[e] \in {"running", "stopped"}

\* Without a handle there is nobody to cancel.
CancelUnavailable(c) ==
    /\ pc[c] = "requested" /\ ~HasHandle(at[c])
    /\ Commit(c, CancellationCompleted(c, "unavailable"), LAMBDA v : "late")
    /\ UNCHANGED <<created, at, unsafe, executions, events>>

RequestCancel(c) ==
    /\ pc[c] = "requested" /\ HasHandle(at[c])
    /\ Cancelling(at[c])
    /\ Goes(c, "cancelling")
    /\ UNCHANGED <<created, run, fresh, attempt, op, outcome, expired, worker, events, faults>>

\* Mutant of CancelKnown: the cancellation is waited for without a grace period.
CancelAnswered(c) ==
    /\ pc[c] = "cancelling" /\ cancelled[at[c]] # "pending"
    /\ Commit(c, CancellationCompleted(c, cancelled[at[c]]), LAMBDA v : "late")
    /\ UNCHANGED <<created, at, unsafe, executions, events>>

\* The cancellation is answered, or its grace period ends without an answer.
CancelKnown(c) ==
    LET answer == IF cancelled[at[c]] = "pending" THEN "failed" ELSE cancelled[at[c]]
    IN /\ pc[c] = "cancelling"
       /\ Commit(c, CancellationCompleted(c, answer), LAMBDA v : "late")
       /\ UNCHANGED <<created, at, unsafe, executions, events>>

TimedOut(c) == run.nodes[at[c][1]].last.timeout

\* Mutant of OutOfTime: a deadline is a failure like any other.
OutOfTimeFails(c, safe) ==
    /\ result' = [result EXCEPT ![c] = "failed"]
    /\ unsafe' = [unsafe EXCEPT ![c] = TimedOut(c) # "succeeded" \/ ~safe]

\* What executeRuntime returns after a deadline.
OutOfTime(c, safe) ==
    /\ result' = [result EXCEPT ![c] = "exhausted"]
    /\ unsafe' = [unsafe EXCEPT ![c] = TimedOut(c) # "succeeded" \/ ~safe]

\* The operation returned after all: its status is recorded, and only recorded.
LateResult(c) ==
    LET late == [type |-> "LateResultObserved", node |-> at[c][1], attempt |-> at[c][2]]
    IN /\ pc[c] = "late" /\ op[at[c]] = "done" /\ outcome[at[c]] # "rejected"
       /\ \/ /\ fresh[c]
             /\ \E r \in Materialized(run, <<late>>) : Stored(c, r)
             /\ OutOfTime(c, TRUE)
             /\ Goes(c, "evidence")
             /\ UNCHANGED faults
          \/ /\ AppendFails(c)
             /\ Fails(c)
             /\ UNCHANGED <<run, fresh, unsafe>>
       /\ Consumed(at[c])
       /\ UNCHANGED <<created, at, op, expired, cancelled, worker, events>>

\* The operation threw: bounded throws, and so does executeRuntime.
LateResultThrows(c) ==
    /\ pc[c] = "late" /\ op[at[c]] = "done" /\ outcome[at[c]] = "rejected"
    /\ Fails(c) /\ faults' = faults \cup {"escape"}
    /\ Consumed(at[c])
    /\ UNCHANGED <<created, run, fresh, at, unsafe, op, expired, cancelled, worker, events>>

\* Its grace period ends first; the operation goes on in the background.
LateResultMissed(c) ==
    /\ pc[c] = "late" /\ op[at[c]] # "done"
    /\ OutOfTime(c, FALSE)
    /\ Goes(c, "evidence")
    /\ UNCHANGED <<created, run, fresh, at, executions, events, faults>>

-----------------------------------------------------------------------------
\* executeAttempt: evidence after the worker.

\* Logs and the worker's report.
RecordEvidence(c) ==
    /\ pc[c] = "evidence"
    /\ Commit(c, <<AttemptEvent("ArtifactProduced", at[c])>>,
              LAMBDA v : IF unsafe[c] THEN "finish" ELSE "capture")
    /\ UNCHANGED <<created, at, unsafe, executions, events>>

\* The workspace is captured once its worker is known to be gone. Changes to a readonly one
\* replace whatever result there was.
CaptureWorkspace(c) ==
    /\ pc[c] = "capture"
    /\ \E mutated \in BOOLEAN :
          /\ result' = [result EXCEPT ![c] = IF ReadOnly /\ mutated THEN "failed" ELSE @]
          /\ faults' = IF ReadOnly /\ mutated /\ result[c] = "exhausted"
                       THEN faults \cup {"mutation"} ELSE faults
    /\ Goes(c, "diff")
    /\ UNCHANGED <<created, run, fresh, at, unsafe, executions, events>>

RecordDiff(c) ==
    /\ pc[c] = "diff"
    /\ Commit(c, <<AttemptEvent("ArtifactProduced", at[c]), AttemptEvent("WorkspaceObserved", at[c])>>,
              LAMBDA v : "finish")
    /\ UNCHANGED <<created, at, unsafe, executions, events>>

-----------------------------------------------------------------------------
\* finishAttempt. Its commits are separate appends; an error ends the call.

Finishing(c, place) == pc[c] = place /\ UNCHANGED <<created, at, executions, events>>

\* Once the attempt is concluded its result is not used again.
Concludes(c, batch, next(_)) ==
    /\ Commit(c, batch, next)
    /\ unsafe' = [unsafe EXCEPT ![c] = FALSE]

FinishBlocked(c) ==
    LET n == at[c][1]
    IN /\ Finishing(c, "finish") /\ result[c] = "blocked"
       /\ Concludes(c, <<AttemptEvent("AttemptBlocked", at[c]), NodeEvent("NodeBlocked", n)>>
                    \o BlockOthers(run, n) \o <<[type |-> "RunBlocked"]>>, Continues)

FinishCancelled(c) ==
    LET n == at[c][1]
    IN /\ Finishing(c, "finish") /\ result[c] = "cancelled"
       /\ Concludes(c, <<AttemptEvent("AttemptCancelled", at[c]), NodeEvent("NodeCancelled", n)>>
                    \o CancelOthers(run, n)
                    \o <<[type |-> "RunCancelled", durable |-> FALSE]>>, Continues)

\* Mutant of MayRetry: termination need not be confirmed.
MayRetryAnyway(c) == at[c][2] < Budget[at[c][1]]

MayRetry(c) == ~unsafe[c] /\ at[c][2] < Budget[at[c][1]]

\* A failed result, or an output that is not valid or does not verify.
FinishFailed(c) ==
    /\ Finishing(c, "finish") /\ result[c] \in {"failed", "exhausted", "succeeded"}
    /\ Concludes(c, <<[type |-> "AttemptFailed", node |-> at[c][1], attempt |-> at[c][2],
                    exhausted |-> result[c] = "exhausted"]>>,
              LAMBDA v : IF MayRetry(c) THEN "retry" ELSE "exhausted")

Retry(c) ==
    /\ Finishing(c, "retry")
    /\ Concludes(c, ReadyBatch({at[c][1]}, "retry"), Continues)

FailNode(c) ==
    /\ Finishing(c, "exhausted")
    /\ Concludes(c, <<NodeEvent("NodeFailed", at[c][1])>>, LAMBDA v : "failing")

\* Whatever has not been executed is blocked, and the run has failed.
FailRun(c) ==
    /\ Finishing(c, "failing")
    /\ Concludes(c, BlockOthers(run, at[c][1])
                 \o <<[type |-> "RunCompleted", outcome |-> "failed"]>>, Continues)

FinishSucceeded(c) ==
    /\ Finishing(c, "finish") /\ result[c] = "succeeded"
    /\ Concludes(c, <<AttemptEvent("AttemptSucceeded", at[c]), NodeEvent("NodeSucceeded", at[c][1])>>,
              LAMBDA v : "advance")

Advance(c) ==
    /\ Finishing(c, "advance")
    /\ Concludes(c, ReadyBatch(Executable(run), "dependencies-satisfied"), LAMBDA v : "complete")

Complete(c) ==
    /\ Finishing(c, "complete")
    /\ Concludes(c, IF \A n \in Node : run.nodes[n].status = "succeeded"
                 THEN <<[type |-> "RunCompleted", outcome |-> "succeeded"]>> ELSE <<>>, Continues)

-----------------------------------------------------------------------------
\* The process of the callers dies, and its operations with it. What they launched may go on.
Crash ==
    /\ \E c \in Caller : pc[c] # "idle"
    /\ Breaks("crash")
    /\ pc' = [c \in Caller |-> "idle"]
    /\ op' = [e \in Execution |-> IF op[e] = "none" THEN "none" ELSE "done"]
    /\ \E w \in {"none", "leaked"} :
          worker' = [e \in Execution |-> IF op[e] = "starting" THEN w ELSE worker[e]]
    /\ outcome' = [e \in Execution |-> "none"]
    /\ expired' = [e \in Execution |-> FALSE]
    /\ cancelled' = [e \in Execution |-> "none"]
    /\ result' = [c \in Caller |-> "failed"]
    /\ unsafe' = [c \in Caller |-> FALSE]
    /\ fresh' = [c \in Caller |-> FALSE]
    /\ at' = [c \in Caller |-> CHOOSE e \in Execution : TRUE]
    /\ UNCHANGED <<created, run, events>>

Executing(c) ==
    \/ RecordContext(c) \/ Launch(c) \/ CommandReported(c) \/ CommandResult(c)
    \/ OperationWins(c) \/ RecordTimeout(c) \/ CancelUnavailable(c) \/ RequestCancel(c)
    \/ CancelKnown(c) \/ LateResult(c) \/ LateResultThrows(c) \/ LateResultMissed(c)
    \/ RecordEvidence(c) \/ CaptureWorkspace(c) \/ RecordDiff(c)

Concluding(c) ==
    \/ FinishBlocked(c) \/ FinishCancelled(c) \/ FinishFailed(c) \/ FinishSucceeded(c)
    \/ Retry(c) \/ FailNode(c) \/ FailRun(c) \/ Advance(c) \/ Complete(c)

\* What the event loop of a caller does next, if its timers and its persistence answer.
CallerStep(c) ==
    Tick(c) \/ Schedule(c) \/ Executing(c) \/ Deadline(c) \/ Observed(c) \/ Concluding(c)

Operation(e) ==
    \/ StartResolves(e) \/ StartRejects(e) \/ RuntimeErrs(e) \/ StreamEnds(e)
    \/ LateStartCollects(e) \/ LateCollectRejects(e) \/ Collected(e) \/ CancelAnswers(e)

Next ==
    \/ \E c \in Caller :
          CreateRun(c) \/ Resume(c) \/ CallerStep(c) \/ EventArrives(c) \/ EvidenceFails(c)
    \/ Crash
    \/ \E e \in Execution : Operation(e) \/ CommandTimeout(e) \/ CommandClose(e)

Spec == Init /\ [][Next]_vars

\* A living caller goes on, its timers fire, and a killed process group closes its pipes. The
\* runtime owes nothing.
FairSpec ==
    /\ Spec
    /\ \A c \in Caller : WF_vars(CallerStep(c))
    /\ \A e \in Execution : WF_vars(CommandTimeout(e)) /\ WF_vars(op[e] = "killed" /\ CommandClose(e))

-----------------------------------------------------------------------------
\* Correctness.

MayWork(e) == worker[e] \in Running

\* No attempt has a worker while another attempt's worker may still be running: a retry waits
\* for a confirmed termination. What breaks it is named. A tick starts a ready node although
\* another node is running or failed, for another caller or for one that died. And an append that fails
\* while the deadline is recorded ends the attempt as if its worker had been seen to end.
OneWorker ==
    \A e, f \in Execution :
        MayWork(e) /\ MayWork(f) /\ e # f => faults \cap {"overlap", "append"} # {}

\* commit, finishAttempt: the reducer rejects a batch of the engine in two cases only. A timed out
\* attempt is failed for another reason than its budget because its readonly workspace was
\* changed, or because the collect of its late start rejected (engine.ts:580) and executeAttempt
\* took that for the failure. (docs/M1_BUILD_BRIEF.md:191, "A timeout is a `budget-exhausted`
\* failure", knows of neither.)
RejectedOnlyForCause ==
    "reducer" \in faults =>
        faults \cap {"mutation", "escape", "append", "evidence", "conflict", "overlap"} # {}

\* The deadline of a node bounds it: with a limit on every node a run ends, whatever the
\* runtime does, unless something went wrong.
RunEnds == created ~> run.status # "running" \/ faults # {}
=============================================================================
