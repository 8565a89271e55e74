# Verification of Anastom

Anastom runs workflows of coding agents. Since milestone M3 a run survives the death of the
process that coordinates it: its history is a log of events in SQLite, its ownership a lease with a
generation number, its workers are kept by detached supervisor processes, and a later process
reconstructs the run, accounts for the interrupted attempt and continues, or stops with a reason.
Beside it the in-process engine of M1 runs a workflow without supervisors. This directory holds
TLA+ models of both, of the adapters that drive the vendors' tools, of what an execution is
observed to do, and of the files and workspaces they share; TLC configurations that check them on
small instances; and proofs, checked by TLAPS, for the parts listed in section 4.

Paths below are relative to `src/packages/` unless they start with `docs/`.

## 1. The system

| Component | State | Operations | Interacts with | Hard behaviour | What makes it correct |
|---|---|---|---|---|---|
| Durable run store (`persistence/src/durable-store.ts`; contract and in-memory store in `engine/src/durable-store.ts`) | lease row, event log, integrity rows, mutation receipts, control queue, snapshots | `createOwned`, `load`, `inspectLease`, `acquireReleased`, `takeoverExpired`, `renew`, `release`, `commit`, `submitControl`, `pendingControls` | called by every coordinator process and the CLI; one SQLite transaction per call | concurrent owners, expiry under a wall clock that moves back, retried commits, stale tokens, damaged rows | one live owner; a superseded owner never writes; an operation is recorded once; what is loaded was acknowledged |
| Event reducer (`engine/src/events.ts`) | the `RunState` folded from events | one case per event type | the store folds before it appends; everyone folds what it loads | long legal sequences, late results, timeouts, recovery | node, attempt and run agree; terminal is final |
| Owned session (`engine/src/durable-session.ts`) | token, folded state, heartbeat timer | `commit`, `guard`, `stop` | store | heartbeat failing between two awaits | nothing is written after a failed heartbeat |
| Durable coordinator (`engine/src/durable-coordinator.ts`) | none of its own between commits | `createRun`, `start`, `submitControl`, `resume` | store, execution host, workspace, runtimes | crash between any two commits, takeover, controls, timeouts, unconfirmed cleanup | no two workers, no work after an acknowledged control, every return leaves a reason |
| Scheduler (`engine/src/scheduler.ts`) | none | `findReadyNodes`, `findExecutableNodes` | coordinator, engine | | dependencies first |
| Execution host (`execution-host/src/index.ts`) | private records of each execution, the client of its supervisor | `prepare`, `authorize`, `events`, `collect`, `inspect`, `terminate` | spawns a supervisor, polls it over a socket, reads its records | lost supervisor, lost answers, three callers of one supervisor | absence is claimed only when no worker can exist; every event is delivered or counted |
| Execution supervisor (`execution-host/src/supervisor.ts`) | manifest, terminal record, retained events, request queue | socket requests, watch of the coordinator, settlement of the worker | runtime host (pipes), host records | start, termination, shutdown and record writes interleave at every `await` | the worker is launched at most once and never after the execution was reported over |
| Runtime host (`execution-host/src/runtime-host.ts`) | the worker and its output | ready, launch, cancel, result | adapters | signals, death of the supervisor | a result is the last thing it says |
| In-process engine (`engine/src/engine.ts`, `command.ts`, `persistence.ts`) | a run behind `RunPersistence`, its executions | `createRun`, `tick`, `runToCompletion`, `resume` | adapters, reducer | deadlines, late results, failing appends, two callers | one worker at a time, no rejected batch, a run ends |
| Adapters (`runtime-codex`, `runtime-claude-code`, `runtime-pi`, `runtime-fake`) | one execution: process group or session, event queue, private files | `start`, `events`, `collect`, `cancel` | a vendor's tool | cancellation at any await, processes that survive, frames in any order | stream, count and result agree; what may still run is said |
| Path policy and artifacts (`path-policy/src`, `persistence/src/artifacts.ts`) | private files and directories | exclusive and atomic writes, directories, bounded reads | every component that keeps records | racing writers, crash between system calls, power loss | no torn record; an acknowledged one stays |
| Workspaces (`workspaces/src`) | git worktrees, manifests | `create`, `captureWorkspaceCheckpoint`, `compareWorkspaceCheckpoints`, `cleanup` | coordinator, whoever edits | edits between two reads or two checks | a checkpoint is of one moment; cleanup discards nothing |
| CLI (`cli/src`) | none | `task run`, `pause`, `cancel`, `resume` | store, coordinator | what it inspected is stale when it acts | a refusal stays true |
| Definitions, event validation, protocol records, migrations | none that outlives a call | parsing, validation, framing | | | |

`PROJECT.json` lists every component with what is modelled of it, and the hazards of this code at
the line where each bites, with the properties that would catch it going wrong.

## 2. The modules

```
FencedLog  <--implements--  RunStore  <--  MCRunStore, RunStoreProofs
                            RunHistory  <--  MCRunHistory, RunStoreProofs
RunReducer <-- RunEvents  <--  MCRunEvents, RunEventsProofs
           <-- DurableCoordinator  <--  MCDurableCoordinator, DurableCoordinatorProofs, DurableWorkProofs
                      ^-- DurableCommands  <--  MCDurableCommands, DurableCoordinatorProofs
           <-- WorkflowEngine  <--  MCWorkflowEngine, WorkflowEngineProofs
WorkerPromise <--implements--  ExecutionSupervisor  <--  MCExecutionSupervisor, ExecutionSupervisorProofs
Observations    <--  MCObservations, ExecutionSupervisorProofs
RuntimeAdapter  <--  MCRuntimeAdapter, RunEventsProofs
PrivateFiles    <--  MCPrivateFiles, PrivateFilesProofs
Workspaces      <--  MCWorkspaces, WorkspacesProofs
```

**The store.** `FencedLog` is what it promises: a log that grows only in the name of the open epoch
of ownership and in which an operation identifier occurs once. `RunStore` is the store of one run
with the processes that use it; the SQLite store and the in-memory reference store make the same
decisions. A transaction is one action, since SQLite serialises them; a process may die, or its
session stop, between any two. The clock (`SetClock`) may be set to any value. `Misreported` is the
set of processes whose absence may be claimed while they live: the fence must hold for them too,
single ownership only for the others. `RunHistory` is what the tables of one run say and who
believes them: the cumulative digests of `event_integrity`, the snapshots, `load`, and a session
that commits with the history it folded, while rows are damaged or lost. A digest is modelled by
what it binds, a run state by a fold that forgets order.

**The reducer.** `RunReducer` translates `applyRunEvent` and everything it calls. `Applied(run,
event)` is the set with the resulting run, or empty when the reducer throws
`InvalidTransitionError`. `RunEvents` proposes any event at any time: what holds there holds of
every history the reducer accepts.

**The coordinator.** `DurableCoordinator` composes the reducer with the store (whose ownership
`RunStore` settles), sessions of several coordinator processes, the workers, their supervisors as
the coordinator can observe them, and the workspace. `pc[c]` is where a call of process `c` is;
there is one action for each stretch of code between two commits or two calls whose outcome the
coordinator awaits, named after the method it comes from. `Commit` is `OwnedRunSession.commit`: the
whole batch is applied or nothing is, and a batch the reducer rejects ends the session.
A batch with an event per node (`cancelNodePayloads`, `blockedNodePayloads`) lists the nodes in
their order by position (`InOrder`), so that it can be reasoned about without induction.
`SessionFails` is a failed heartbeat or store call, `HostFails` a failed call of the execution
host, `Crash` the death of the process. `DurableCommands` puts the CLI's commands on top: each is a
process that reads the run, may submit a control, reads again, and holds at most one session, so
that another command may come between any two of its reads.

**The execution.** `WorkerPromise` is what an execution host promises about one execution.
`ExecutionSupervisor` is `supervisor.ts`: one event loop, in which the code between two awaits is
one action; the start, the termination for a request, the termination of the shutdown, the
settlement and each record write are activities of their own. Two writes of the manifest may be
under way at once and land in either order. Whoever inspects or collects the execution is there too:
`inspect` reads the manifest (`InspectManifest`), and only afterwards looks for the supervisor and
concludes (`InspectAbsent`, `InspectTerminal`), with any steps of the supervisor in between. One such
inspection at a time, begun again any number of times, is enough: inspections change nothing, and of
each only what it told is kept (`reports`). The state functions `Over` (somebody was told that it is
over) and `Work` map it to the promise. `Observations` follows what the worker says: from the runtime
host through the retained
events of the supervisor (`appendEvent`, `trimEvents`, `flushDroppedLogs`) and the polls of the
host's `events` and `collect` to `driveExecution`, which filters and commits it, with the release
of the supervisor that the three callers share.

**The in-process engine.** `WorkflowEngine` is `engine.ts` over the same reducer. `executeRuntime`
is two threads of control, the operation and the deadline that races it; the operation goes on in
the background after its attempt is over, so it is kept per execution (`op`) and not per caller
(`pc`). `faults` records what went wrong that is not the engine's doing, so that the properties can
name their exceptions. `RuntimeAdapter` is one execution of each adapter: the checks before the
spawn, the process group or session, frames, the bounded event queue with its drop count at both
ends, disposal of private files, and the answers of the four channels.

**Files.** `PrivateFiles` is one private record at the level of system calls: inodes with their
bytes and whether they are synced, the name in memory (`record`) and on disk (`kept`). `Workspaces`
is one workspace: every part of its content is a version that an edit raises, `Plan` is the order
in which a capture reads them, `moments` are the contents the workspace had during the capture.

Definitions whose comment says *Mutant* are deliberate slips of the definition after them: with the
slip in its place the property named for it in `PROJECT.json` fails, which shows the property
depends on that line of the code. They are not part of the models.

### Abstractions

- A lease in `DurableCoordinator` is its holder and whether that process died without releasing it;
  that this is enough is `SingleLiveOwner` and `StoreIsAFencedLog` of `RunStoreProofs`. A failed
  release is taken for a crash. Process identities are slots, used again by later processes.
- Payloads (context, artifacts, log text, digests) are left out of the coordinator and the engine;
  that writing them may fail is not.
- The workspace of the coordinator holds one of the values of `Content`, and `checkpoint` is what it
  held when the latest attempt of each node was prepared, so that `Changed(n)` compares with the
  node's own checkpoint (that a checkpoint can say so is the matter of `Workspaces`). The code asks
  only whether two of these values are equal. A worker changes the content, and an operator does,
  or puts it back, when no process runs.
- `AttemptPrepared` asks for a configured runtime as it does for an agent's node; for a command's
  (`events.ts:748`) the reducer does not, and the models of durable runs have no command nodes. No
  property reads the difference.
- The `Host` actions of the coordinator let an inspection find the execution absent only when it is.
  The answer of an inspection that a start overtook (below) is left to `ExecutionSupervisor`.
- Pending controls are taken in any order: the code orders them by wall-clock time.
- Preflight of the coordinator has one kind of failure. `ensureAttemptBudget` finds a budget used up
  only for a ready node whose last attempt is still prepared (`RejectedOnlyInGap` below): no path makes
  a node ready whose attempts are used up.
- A supervisor request that changes nothing (`inspect`) is not modelled in `ExecutionSupervisor`.
  Termination of a process group succeeds when it returns there, and may fail in `RuntimeAdapter`. A
  watch that cannot tell whether the coordinator lives counts it as gone, as the code does, so a
  shutdown may begin at any time.
- `Observations` bounds retained events by their number; the bound of 512 KiB trims at another
  moment what the count would trim.
- In `PrivateFiles` a directory outlives a power loss, although `ensureDirectory` never syncs its
  parents. In `Workspaces` git is modelled by what its commands refuse and change.

## 3. What the runs check

| Run | Instance | Shows |
|---|---|---|
| `store` | 3 processes, 3 mutations, 1 control, clock 0..2, generation and history together at most 5; the absence of the third process may be misreported | no two rightly judged processes own the run at once; the store implements `FencedLog` |
| `history` | 2 sessions, 3 events, 2 damaged rows | a run that can be read is the one acknowledged; a snapshot is only a cache; a session extends only the history it folded |
| `reducer` | 1 node, 2 attempts, every event type | consistency of nodes, attempts and run; timed-out attempts never succeed |
| `recovery` | 1 node, 2 attempts, 1 process at a time, a pause, 2 contents of the workspace | who may work, what a blocked run waits for, that an acknowledged pause stops all work, that edits are resolved, and that sessions end |
| `join` | 3 nodes of which the last needs the other two, 1 attempt each, a cancel, a duration limit on the first, 2 contents of a readonly workspace | settled and stopped runs are quiet and leave no work; what a return leaves behind; which batches are rejected |
| `commands` | 3 commands in 2 process slots, 1 node, 1 attempt, a pause and a cancel, 2 contents of the workspace | a session acts on the stored state; controls are completed in order; a refusal stays true; a control command runs no work |
| `supervisor` | one execution, 2 queued requests, any number of inspections | the worker promise, stopping of the worker of a lost coordinator, requests answered |
| `observations` | a runtime or a command; 4 retained events (code: 256), 3 of them required (16), 3 logs, 2 usages | every event is delivered or counted, from the host to the commit; the stream ends and the supervisor is released |
| `engine` | 2 callers, 2 nodes (an agent with a retry and a deadline, a verification command), 1 worker event, 1 failure | no two workers, batches rejected for a known cause only, the run ends |
| `adapters` | each of the 4 adapters, queue of 4, 5 frames | a result is honest about what may still run; stream and result agree; a cancellation is answered |
| `files` | 2 writers of 2 values, 1 reader, 3 inodes, 1 power loss; atomic, exclusive and artifact | immutable records never change, nobody accepts a torn one, an acknowledged one stays |
| `workspaces` | 3 edits, 2 captures, 1 crash; readonly and isolated | a checkpoint is of one moment, a match means nothing was touched, cleanup discards nothing |

**Bounds.** They are small for a reason that can be given each time. Three processes are one more than a
takeover involves, so that an owner, its successor and the successor's rival are all there. Two attempts
let a node be interrupted, continued and exhausted. Three nodes are the least with two ready at once and
one that waits for both; two of them, of which the first may be tried again when the other may not, are
what it takes to strand a node and to shelve an attempt (below); that takes an instance larger than the
runs'. Two contents are enough: a workspace equals the checkpoint of a node or it does not, and with two
nodes each of the four combinations occurs (`join`). Two slots and three commands let one command come
between any two steps of another, and a third find what both left. Two waiting requests let every pair of
operations meet behind a third. With four retained events of which three are required a log is dropped,
and dropped again after a count was flushed; the code's distance between 16 and 256 only makes that
rarer. A queue of four holds fewer than the five frames, so it overflows at both ends. Two writers race
for one name; a third inode is the one a crash left or a second write needs. An edit before, one during
and one after the reads of a part are what a double collect can confuse, hence three. Two damaged rows
are the fewest that can agree with each other. Larger instances of the coordinator were checked while the
models were written and are not runs: `join` with a pause as well and a duration limit on every node has
4.4 million states, and all its properties hold there. Two independent nodes in an edited workspace, the
first of which may be tried again when the other may not (`Pair`, `RetryFirst`), have 1.5 million, and
`ReturnsStoppedOrInGap`, `RejectedOnlyInGap` and `EditsAreResolved` hold there, each node with a
checkpoint of its own; with one attempt each and a pause they were checked completely as well, with two
attempts of each in part. In such instances the shelved attempt and the paused node that does not come
from an orphan (below) were found. That the properties hold for any number of nodes and attempts is
proved (section 4).

`CHECK_DEADLOCK FALSE` stands in every configuration because each of these systems may stop: a run
settles, a supervisor exits, bounds are used up. That something stops where it must not is left to
the liveness properties. The type invariant of each module was checked with the run's own
configuration while it was written; the runs spend their time on the other properties.

**Fairness.** It is stated action by action in `FairSpec`. `DurableCoordinator`: weak fairness of
the steps of a living process (every await in them has a timeout or is a local transaction) and of
the answers of `prepare` and `authorize` (both time out). Workers, operators and supervisors owe
nothing, so `SessionEnds` is checked with a duration limit on every node: without one a session
waits for its worker as long as that works. `ExecutionSupervisor`: the supervisor's own activities
(disk writes, signals, timers, the readiness timeout), the watch once the coordinator is gone, and
a runtime host seeing its launch pipe close; nothing of a worker. `WorkflowEngine`: a living
caller's next step and timers, and the closing of a killed command's pipes; nothing of a runtime,
which may never answer a cancellation. `RuntimeAdapter`: the adapter's own timers and steps, the end
of output once no process is left, and, once cancelled, the answer of the Pi session's calls.
`Observations`: the supervisor, the polls and the drive; a host ends only when it was signalled.

### Where code and documents differ

The properties below hold with an exception each of them names; the exception is what the code
does and a document does not know. There is no run that expects a violation: a named exception
is checked to be the only one.

- `ReturnsStoppedOrInGap`: a crash between the commit of the last `NodeSucceeded` and
  `RunCompleted`, or between `AttemptOrphaned` and its continuation, leaves a run that every later
  resume returns as `running`; `docs/M3_BUILD_BRIEF.md:7` knows only "continue" and "stop with a
  precise reason". The second crash may show later. A resume that cannot
  inspect the prepared attempt of another node makes a paused run recovery-blocked
  (`establishRecoveredAbsence`), or goes on to the older orphan (`coordinateRecovered` looks at the
  status alone) and pauses node and run for it. When a later resume finds the other attempt absent,
  `continueOrphaned` readies that node and commits `RunResumed`, which the reducer accepts with a
  paused node; the run goes on and returns as `running` with the first node paused (`Stranded`),
  which only `resumePaused` of a paused run would look at. If the other node fails instead, or its
  result is that it is blocked, the run settles beside it (`SettledRunLeavesNoWork`).
- `RejectedOnlyInGap`: the batch for a failed attempt that changed the workspace is rejected by the
  reducer (a running node pauses only after cancellation or orphaning), so the failure is never
  recorded; `docs/M3_BUILD_BRIEF.md:17` has edits captured and the run paused. The same property
  covers a control recovered after a crash between `AttemptOrphaned` and its completion, rejected by
  every later resume, and an attempt that was put aside (`Shelved`): a resume that cannot inspect a
  prepared attempt goes on to another orphan and from there to `schedule`, which may pick the node of
  the prepared attempt itself; when that was its last attempt, `ensureAttemptBudget` pauses the node
  (`durable-coordinator.ts:1422`) with the attempt still prepared. No later resume can orphan that
  attempt, since `AttemptOrphaned` wants a node that is ready or running.
- `PausedRunKeepsNoCancel`: a second pause of a paused run is observed but never completed, and every
  later resume finds it again instead of resuming; `docs/M3_PRODUCTION_CONTRACT.md:699` calls it a
  semantic no-op.
- `EditsAreResolved`: an operator's pause hides the workspace conflict found when the attempt was
  orphaned, and the next resume makes the node ready in the changed workspace
  (`docs/adr/0017-durable-execution-ownership-and-recovery.md:75`). The workspace is the one that
  attempt itself started from: each node's attempt keeps its own checkpoint.
- `LossIsCleanedUp`: a shutdown that begins before the start knows the identity of the host it
  spawned cleans nothing up, and the start then leaves that host waiting for a launch; the
  supervisor waits for the host and the host for the supervisor
  (`execution-host/README.md:19`). The worker is never launched.
- `KeepsPromise`: "absent supervisor plus authenticated `awaiting-start` proves no worker launch was
  authorized" (`docs/M3_PRODUCTION_CONTRACT.md:621`), but `inspect` reads the manifest
  (`execution-host/src/index.ts:266`), awaits an observation of the supervisor (281) and then concludes
  from what it read before (289). A supervisor that published its start, launched the worker and was
  killed in between is gone, and the worker, which a killed supervisor does not stop, is reported absent.
  That answer ("overtaken" in `reports`) is excepted; every other answer that an execution is over is kept.
- `RejectedOnlyForCause`: "a timeout is a `budget-exhausted` failure" (`docs/M1_BUILD_BRIEF.md:191`), but a
  start that resolves after its deadline returns `this.runtime.collect(handle)` without awaiting it
  (`engine.ts:580`). Its rejection passes the catch around it, `bounded` (655) throws, and
  `executeAttempt` (408) makes the error the failure of the attempt, in a batch the reducer rejects.
- `ResultIsHonest`: the Pi adapter "disposes the session" (`docs/ARCHITECTURE.md:169`) and "fails closed when
  cleanup throws" (`runtime-pi/src/pi.test.ts:201`), but `createSession` of a cancelled execution throws
  before `session.dispose()` when the abort rejects (`runtime-pi/src/index.ts:181`), and the result is an
  ordinary cancellation (416). A session "abandoned" there is excepted by name.
- `LoadTellsTheTruth`: integrity rows that are all gone are taken for a history older than the table;
  `docs/M3_PRODUCTION_CONTRACT.md:578` has missing coverage fail closed. With coverage begun, one
  damaged row is always found; two that agree, a tail lost from both tables, are not.

Further behaviour worth knowing, which no document contradicts:

- *Coordinator.* A run whose status is `blocked` is returned by `resume` before its controls are
  looked at, so a cancel stays pending; an operator's pause of a node's last attempt cannot be
  resumed; a resume after a crash behind `AttemptOrphaned` may schedule another ready node and leave
  the orphan for good (`StoppedRunIsQuiet`).
- *CLI.* A pause command whose pause another process completed in time finds the run paused and
  resumes it (`ControlCommandRunsNothing`). A pause of a run that is cancelled meanwhile is submitted
  all the same and stays pending.
- *Engine.* `tick` starts a ready node although another node is running, for another caller or for
  one that died, and an append that fails while the deadline is recorded ends the attempt as if its
  worker had been seen to end (`OneWorker`). A timed-out attempt whose readonly workspace changed, or
  whose late start could not be collected, is failed with a batch the reducer rejects
  (`RejectedOnlyForCause`); the second ends the run's call with an error (`RunEnds`). An adapter may answer
  `collect` although a worker survives, with a result that says a retry is unsafe.
- *Adapters.* A Pi usage report that fails replaces a result that said a session may still run
  (`runtime-pi/src/index.ts:449`), and a session that `createSession` made and could not abort or
  dispose is not spoken of in the result, which is an ordinary failure or cancellation, never a success
  (`ResultIsHonest` names both).
- *Observations.* A log that was polled and is trimmed afterwards is counted among the dropped ones
  too: what the drive commits may count a log twice, never miss one. More required events than the
  bound make the stream invalid. A request to terminate gives up after five seconds and may
  leave the supervisor unreleased (`EndsAndReleases`).
- *Workspaces.* `git worktree remove` takes ignored files along, which `NothingIsDiscarded` does not
  count as content; a crash between `git worktree add` and the manifest leaves a worktree nobody
  owns; that a capture "rejects a workspace that changes during observation"
  (`docs/M3_FEASIBILITY.md:192`) is not literally so, since an edit of a part between its two rounds
  of reads is seen and one behind the second read is not; `CheckpointIsAMoment` is what remains true.
- *Files.* A directory whose maker died between `mkdir` and `chmod` refuses everybody; the loser of a
  race for an immutable record does not sync the directory, though the winner may not have yet; a
  reader that meets a replacement is refused as "changed"; crashed writers leave their temporaries.

## 4. What is proved

The eight proof modules hold for every value of the constants the modules' assumptions allow: any number
of processes, nodes, requests, writers, edits, damaged rows and crashes. Nothing else is assumed. Of the
workflow that means: every node is in the order of the definition, once (`OrderOnce`: the order is that
of the names in the document, `core/src/workflow.ts:264`), has a budget of at least one attempt and needs
only nodes of the workflow, and no dependencies form a cycle (`NeedsAcyclic`; `core/src/workflow.ts`
refuses a definition that has one).

**`RunStoreProofs`** proves `TypeCorrect`, `SingleLiveOwner`, `SupersededNeverWrites`,
`ControlsHandledOnce`, `ExpiryIsMonotonic` and `StoreIsAFencedLog` from one inductive invariant
`IInv`. The properties are not inductive alone. That two processes never both own needs that an
owner's token was granted (`TokenIsGranted`) and is current while the process lives and is judged
rightly (`LiveSessionIsCurrent`), which in turn needs that an observed absence stays true
(`AbsenceIsStable`): the takeover checks a lease read earlier. That expiry never moves back needs that
a lease's expiry follows its renewal (`ExpiryFollowsRenewal`). That a control is acknowledged once
needs that only submitted controls are (`AcknowledgedIsSubmitted`), and the initial create that
nothing precedes it (`NothingBeforeCreation`). The refinement maps epoch, openness and log to the
lease's generation, whether it is unreleased, and the history; each action maps to a step of the log
or a stutter.

Of `RunHistory` the same module proves `ReadRunIsTrue` and `CommitsExtendWhatTheySaw` without a word
about what the reducer accepts: the digests alone find a damaged row. As long as at most one row is
damaged, either the events are whole or every digest is in its place (`OneTableWhole`); in the first
case the digests need not be asked, in the second coverage forces the tables to have one length and
the last digest names the history. What a session folded is then a prefix of what was acknowledged
(`SeenIsPrefix`), so that comparing the sequence, which is all that a commit compares, is enough.
`SnapshotsAreACache` rests on `FoldedInParts`: folding the rest of a history over the fold of its
first rows is folding all of it, whatever the reducer is.

**`DurableCoordinatorProofs`** is in four parts, each with an invariant on top of the one before, and
closes with what the reducer asks of each batch of a session, which the next module uses.

*Who may act* (`SessionsExclude`, `ActsOnCurrentState`, and, because the commands implement the
coordinator, `CommandsAreCoordinators`, `CommandsActOnCurrentState`). `resume` loads before it
acquires, so a session may have folded a run that another process has extended meanwhile. `IInv`:
whoever is in a session holds the lease and lives (`OwnerLives`); while nobody else committed, its
fold is the stored run (`FreshIsCurrent`); and no execution begins without a commit
(`PrepareAttempt` stores a batch that is not empty), which a session that is not fresh is refused
(`ActingIsFresh`).

*Controls* (`ControlsAreFinishedInTurn`, `CancelDoesNotWait`, `ControlOutranksWork`,
`ControlsAreKept`, `CancelIsCarriedOut`, `SettledIsFinal`). Two things stand between these and an
induction. What a batch makes of a run is a fold of the reducer; `BatchPreserves` reduces it to the
single events: a predicate each of them preserves holds after the batch, by the least number of
events without. And what a session may commit depends on what it knows: `ControlInv` says of every
fresh session, by its place (`Known`), that the control it acts on is the only open one, that with
one open it schedules nothing, and that behind `schedule` and in an execution none is. `IInv` is
needed because only of a fresh session is the store known; the others' commits are refused. A
cancelled run is terminal, and a blocked one final although the reducer would let a cancel through:
`Known` shows that no session that could send it stands there.

*Commands* (`RefusalsAreFinal`, `ControlCommandsRunNothing`). `CommandInv` adds what each command
knows of its own control while other commands run: a refusal rests on an inspection that is stale
when it is printed, but on a status that does not change any more; and a command that submitted a
cancel can only find it pending, acknowledged or completed (`ControlsRemain`), in none of which work
begins (`WorkBegun`).

*Workers* (`WorkersAreOwned`, `StoppedRunsAreQuiet`). The first says that a worker runs only as the one
attempt the run has running, in a run that is not stopped; the second, that such a run keeps nothing
running but the node of a lost attempt. A worker outlives the session that started it and a call to
start one outlives its process, so the first says nothing of a state in which such a call is still
under way. `Threats` adds those executions, and `WorkInv` says that each belongs to the node whose
attempt runs (`Owned`), that no call under way is for an attempt still to come (`Sent`), and what a
fresh session may rely on at its place (`Stands`): once the worker of its execution was seen to end,
that execution is no threat, and where the session goes on to other work nothing runs. `IInv` and
`ControlInv` are needed because the store is known of a fresh session only, and because `schedule` is
reached with no control open. A batch either moves no attempt into `running` or out of it (`Steady`),
or ends the one that runs (`EndsAttempt`, by the least number of events with it ended), or prepares one.
For the second theorem `RunSound` also says of a node whose attempt does not run that it parted from it
(`Parted`): whatever ends an attempt stops its node in the same batch (`Parts`), which an operator's
cancel does only because its list of nodes leaves none out (`InOrderCovers`).

**`DurableWorkProofs`** is about the run those sessions work on. `BlockedRunsNameWork`: a run blocked for
recovery names work to take up. It has an invariant of its own, `NamesInv`: each batch decides the status
of the run with its last event (`Decides`), or leaves a run that is not blocked so, or blocks it where
`Placed` says that the session still has an attempt in hand. `SettledRunsLeaveNoWork` says that a run
settles together with its nodes: each batch keeps the run going or ends with a cancel that takes every
node that had not ended (`Keeps`), or blocks all that waits beside the node it ends (`Stops`), so that
only a failed or blocked run keeps a node, and that one was left orphaned or paused by a crash or a
failed inspection (`Left`). `RunsAreLeftStopped` says that a session returns with its run stopped, unless
every node succeeded or a crash left one orphaned or paused. All but one of the returns follow a batch
that ends with a pause, a cancel or a block (`Halted`), or a look at a run that had stopped. The other is
the scheduler's, with nothing running, ready or executable. There a run that goes on has given up no node
(`Hale`, a part of `Left`), so that what has not succeeded is pending, and among the pending nodes one
would need none of the others and be executable (`NothingToSchedule`, from `NeedsAcyclic`).
`EditsStayResolved` is an action property: the node of a lost attempt that left edits becomes schedulable
again only in the workspace that attempt started from, or after an operator's pause. Only an event for a
resumed or a recovered node can take such a node up (`Heeds`, `HeedingEvent`), and of all batches two
hold one: the continuation of the orphan, which first looks at what was recorded, and the resume, which
looks at why each node was paused. That this tells it enough is `Edited`: such a node was paused by an
operator, for its conflict or for its budget, because a failed preflight comes only after the look at its
edits (`UnchangedPauses`). A resume that negotiates the runtime first looks at nothing again; it needs
not, since no attempt was made before (`Renews`).

`RejectionsAreGaps` states `RejectedOnlyInGap`: the reducer takes every batch of a session that is not
superseded, but for the exceptions section 3 names. A batch is accepted event by event (`BatchAccepted`);
what a node must be for each kind of event, and with that for each batch, is in
`DurableCoordinatorProofs` (`TakesEnd`, `TakesNode`, ...), and that two events never take the same node
rests on `OrderOnce`. `RejectInv` says that the run has what they need. `Sound`: an attempt that may run
has its plan, a prepared one a node that does not run, and no cleanup is confirmed before an attempt's
end. An ended attempt stays ended, so only the batches that confirm a cleanup have to end the attempt
too (`WaryKeeps`); all others keep the run sound whatever they hold (`DryKeeps`). `Poised` says what a
fresh session holds at its place, from `preparing` to `finishing` an attempt with its node in step
(`Held`) while no attempt is shelved. With no orphan and none shelved (`Clear`) that one is all the run
works on (`ClearRun`, `HeldWorks`), and so it can be paused, cancelled, blocked or completed as a whole.
`WorkInv`, `Left` and `NamesInv` are needed: that one attempt runs, that a run going on gave no node up, and
that a run blocked for recovery has something to recover.

**`WorkflowEngineProofs`** proves `TypeCorrect`, `OneWorkerAtATime` and `RejectionsHaveACause`. A
worker outlives the call that started it, so that the property says nothing of the caller that is about
to start the next; what keeps that from happening is what the run says and what the caller was told.
`PlaceSound` says what a caller knows of its operation at each place of `executeAttempt`, above all
that a result which does not call the attempt unsafe is that of a worker that ended. `Current` says what
the run looks like to a caller while nobody else appended (`fresh`); the batches of the others are
refused. `OneAttempt` is the core, and holds as long as no attempt was started next to another and no
append failed (`Clean`): one attempt is not concluded (`OneBusy`), a worker or an operation that may
still get one belongs to it (`Threatened`), the one caller that has an attempt is the one that knows the
run, and what it reports as safe, or decides to try again, has no worker (`Sole`). So whatever frees the
node for another attempt comes from `Sole`, and a start next to a busy node is what `overlap` names.
What a batch does is reduced to its events as for the coordinator: it readies nodes (`Readied`), or it
starts nothing and takes no node back (`Eases`), or it is one of the few that do.

`RejectionsHaveACause` states `RejectedOnlyForCause` and needs the converse, what each batch asks
of the run. A batch is accepted if each of its events is, by what is known of the run after the one before
(`BatchAccepted`), and two batches accepted one after the other are accepted as one (`BatchesJoined`).
The events for the other nodes of a run are accepted because each is for a node that is still as it was,
since the authored order lists no node twice (`InOrderDistinct`, `NodesAccepted`). `ReducerInv` is
relative to the invariant above, which says of a caller with an attempt that its node and attempt run.
It adds that a run that goes on has no cancelled node (`NoneCancelled`), without which the batch of a
cancelled result would name a node twice cancelled, and that what a worker reported was in time or is
failed for its budget (`InTime`): the two places where the code can lose this are a readonly workspace
found changed and a late start whose collection failed.

**`RunEventsProofs`** proves `TypeCorrect`, `NodesFollowAttempts`, `TimeoutsAreFinal`,
`CompletedRunsAgree` and `AttemptsOnlyMoveForward`. The invariant says of every node that its status,
its current attempt and that attempt's timeout and cleanup fit together (`NodeSound`); each event is
a case, and lemmas state once what updating one node does to the others.

The same module proves of the adapters `AdapterTypeCorrect`, `ResultsAreHonest` and `StreamsAgree`, for
any capacity of the queue from 4 up (the code's is 254) and any number of frames. `WorkInv` is about the
work: a failure the leader told of is in the turn while frames are read (`TurnSound`), what an adapter
does not own is never there (`OwnedBy`), and a result is chosen only where the group is known to be gone,
or says that it is not (`ResultSound`). `StreamInv` is about the queue. Every log that was pushed is
queued, delivered or counted as dropped (`Counted`); few of the queued events are not logs (`Room`), so
that a required event always displaces a log and never lengthens the queue past its capacity; and behind
the end of the execution nothing is missing but what the queue still holds, the count in the summary
included (`Ended`). The fake adapter drops nothing (`FakeBox`). Lemmas on `Logs`, the positions of the
logs in a queue, say how removing an event and pushing one change their number.

**`ExecutionSupervisorProofs`** proves `TypeCorrect` and that the supervisor implements
`WorkerPromise` (`SupervisorKeepsPromise`), wherever it dies and however its activities interleave.
The invariant says how far the runtime host may have come at each place of `startExecution`
(`HostSound`), that nothing is spawned before a start is published (`DiskSound`), and that one
cleanup is decided before it is recorded (`PublicationSound`). Its core is `CannotWork`: behind a
confirmed record the host has exited, or the start will find the supervisor stopping, or no start
began and none will. What a reader was told rests on what shows it
(`ReportsSound`): a confirmed record, or a manifest that still has no start when the supervisor is gone;
a dead supervisor starts nothing more. With that evidence for its `over` the promise is kept too
(`Evidence`), and so with what was reported.

The same module proves of the observations `ObservationTypeCorrect`, `TerminalsAreComplete` and
`DrivesAreComplete`, for any number of events and any bounds of the buffer. `ObservationInv` is the
account at every step between the host and the drive. While the stream is valid, what the supervisor
retains holds every required event that was emitted, in order, and its logs and drop counts add up to
the logs emitted (`Accounted`); a terminal record says what the buffer said when the host was over
(`RecordSound`); and what the drive took, what it polled and what is still behind its cursor make up
what was emitted (`DriveSound`): with equality for the required events, and for the logs with at least
as many, since a log that was polled and is trimmed later is counted again. That the account survives
trimming rests on the order of the buffer: ordinals ascend, and a summary is only there at its end once
the host is over (`Kept`), so that the log that is removed comes before what counts it (`TrimKeeps`,
`AppendKeeps`). That a poll misses nothing rests on the last ordinal: nothing retained lies behind it
(`NothingAfterLast`), and nothing comes after the terminal record was published (`EndSound`). Committing a required event once is right because the host repeats only a usage
summary (`HostSent`, `SeenNext`). `Logs`, `RequiredOf`, `After` and `Distinct` are recursive functions;
what each does to a concatenation is proved once (`LogsConcat`, `RequiredConcat`, `AfterConcat`) and
cited wherever events come in, are trimmed or are polled.

**`PrivateFilesProofs`** proves `TypeCorrect`, `ReadersSeeWholeWrites`, `AcknowledgedWritesSurvive`
and `ImmutableRecordsDoNotChange`. A file gets a name only when it is complete and synced
(`NamedIsWhole`), which holds because a temporary is its writer's own (`TemporaryIsOwn`) until its
writer publishes it (`WriterSound`). What was answered for, or something published later, is what the
name leads to in memory and on disk (`PublishedStays`); an immutable name leads to one file from its
first link on, unless a power loss takes back one nobody answered for (`OneFile`).

**`WorkspacesProofs`** proves `CheckpointsAreMoments`, `MatchesMeanUntouched` and
`CleanupDiscardsNothing`. A capture is a double collect. Versions only grow, so every part read in
the first round is at most, and every part read in the second at least, what it was at the moment
between the rounds; `Between` names that moment and the invariant keeps it while the second round is
read. Equal rounds then equal it (`RoundIsAMoment`). That an earlier checkpoint's end is at most
what a later capture reads gives the second theorem.

**Only model-checked**: all liveness. Liveness under fairness and `ENABLED` are outside the prover. So is
induction over data with the library's rules, which take an operator as parameter; where a fold had to be
reasoned about, the proofs take the least number that would be a counterexample instead (`WFMin` over the
naturals). No module declares a `RECURSIVE` operator.

## 5. What is not modelled, and the plan

Not modelled because nothing there changes state a property is about: parsing of workflow and task
documents (`core`), `event-validation.ts`, the validation and framing of `protocol.ts`, the fields of
`runtime-contract`, lexical checks of path segments and branches for Windows, argument parsing and
rendering of the CLI, and what prompts, profiles and policies say. Schema migrations run once inside
one immediate transaction; nothing comes between their statements. The repository's scripts
(probes and evidence verification, about a third of the repository's source) are not part of the
program.

What could be added, in this order:

1. The queue of an adapter as an abstract bounded channel that `RuntimeAdapter` and `Observations`
   both implement, so that the two accounts of logs are one.
2. Composition of `ExecutionSupervisor` with `DurableCoordinator` in place of the outcomes that the
   coordinator's `Host` actions choose.
