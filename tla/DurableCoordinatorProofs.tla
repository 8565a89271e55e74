------------------------ MODULE DurableCoordinatorProofs ------------------------
(***************************************************************************)
(* What coordinators, and the commands of the CLI that run them, never do, *)
(* for any number of processes, nodes, attempts and controls.              *)
(*                                                                         *)
(* Who may act. resume loads the run before it acquires the lease, so that *)
(* what a session folded may be superseded. IInv says when it is not: a    *)
(* session holds the lease of a living process (OwnerLives), and whoever   *)
(* is still fresh folded what the store holds (FreshIsCurrent).            *)
(*                                                                         *)
(* What a batch makes of a run. The reducer is applied event by event; a   *)
(* predicate every event of a batch preserves holds after it               *)
(* (BatchPreserves), by the least number of events without.                *)
(*                                                                         *)
(* Controls. ControlInv says what a fresh session may rely on, by where it *)
(* stands (Known): the control it acts on is the only open one, and with   *)
(* one open nothing is scheduled or started. It needs IInv: only of a      *)
(* fresh session is the store known.                                       *)
(*                                                                         *)
(* Commands. CommandInv adds what each command of the CLI knows of its own *)
(* control while other commands run.                                       *)
(*                                                                         *)
(* Workers. A worker outlives the session that started it, and a call to   *)
(* start one outlives the process that made it. Threats are the executions *)
(* whose worker may be running, or may be once such a call arrives.        *)
(* WorkInv says that each is of the one attempt the run has running        *)
(* (Owned), that an authorization under way is of no attempt to come       *)
(* (Sent), and, by its place, what a fresh session may rely on (Stands):   *)
(* where an execution is known to be over it does not threaten, and where  *)
(* the session goes on to other work nothing runs. The lease and the order *)
(* of the controls are needed for that: IInv and ControlInv.               *)
(*                                                                         *)
(* A run stops only where nothing runs. That its nodes stopped too is what *)
(* RunSound adds: one whose attempt does not run has parted from it, since *)
(* whatever ends an attempt stops the node in the same batch; only the     *)
(* loss of an attempt leaves its node running, until the run goes on.      *)
(*                                                                         *)
(* What the reducer takes. A batch is accepted if each of its events is,   *)
(* by what is known of the run after the one before (BatchAccepted). What  *)
(* a node needs for an event is stated once for each kind (TakesEnd,       *)
(* TakesNode, ...), and so what it needs for each batch of a session.      *)
(***************************************************************************)
EXTENDS DurableCommands, WellFoundedInduction, TLAPS

(* Who may act *)

\* Outside a session a process has no execution and no lease.
Outside == {"idle", "loaded"}
Acting == Executing \cup {"abandon"}
Inside == InSession \cup Ending

SessionTyped ==
    /\ pc \in [Coord -> Inside \cup Outside] /\ fresh \in [Coord -> BOOLEAN]
    /\ DOMAIN view = Coord

\* Whoever is in a session holds the lease, and did not die with it.
OwnerLives == \A c \in Coord : pc[c] \notin Outside => holder = c /\ ~dead

\* Nobody committed since: the fold is the store's.
FreshIsCurrent == \A c \in Coord : fresh[c] => view[c] = run

\* The first commit of an execution is refused to a session that is not fresh.
ActingIsFresh == \A c \in Coord : pc[c] \in Acting => fresh[c]

IInv == SessionTyped /\ OwnerLives /\ FreshIsCurrent /\ ActingIsFresh

-----------------------------------------------------------------------------
\* A commit that enters an execution stores something, which only a fresh session can.
LEMMA CommitStep ==
    ASSUME IInv, NEW c \in Coord, NEW batch, NEW next \in Inside, Commit(c, batch, next),
           pc[c] \notin Outside,
           next \in Acting => batch # <<>> \/ pc[c] \in Acting
    PROVE  IInv'
<1>1. /\ UNCHANGED <<holder, dead>>
      /\ \/ pc' = [pc EXCEPT ![c] = next] /\ UNCHANGED <<run, view, fresh>> /\ batch = <<>>
         \/ /\ pc' = [pc EXCEPT ![c] = next] /\ view' = [view EXCEPT ![c] = run']
            /\ fresh' = [d \in Coord |-> d = c]
         \/ pc' = [pc EXCEPT ![c] = "rejected"] /\ UNCHANGED <<run, view, fresh>>
         \/ pc' = [pc EXCEPT ![c] = "failing"] /\ UNCHANGED <<run, view, fresh>>
  BY DEF Commit, store, lease, session
<1>2. \A d \in Coord \ {c} : pc[d] \in Outside
  BY DEF IInv, OwnerLives
<1>3. {"rejected", "failing"} \subseteq Inside \ Acting /\ Acting \cap Outside = {}
  BY DEF Inside, Acting, Executing, Ending, InSession, Outside
<1>4. SessionTyped'
  <2>1. \A place \in Inside : [pc EXCEPT ![c] = place] \in [Coord -> Inside \cup Outside]
    BY DEF IInv, SessionTyped
  <2>2. pc' \in [Coord -> Inside \cup Outside]
    BY <1>1, <1>3, <2>1
  <2>3. fresh' \in [Coord -> BOOLEAN] /\ DOMAIN view' = Coord
    BY <1>1 DEF IInv, SessionTyped
  <2> QED  BY <2>2, <2>3 DEF SessionTyped
<1>5. OwnerLives'
  BY <1>1, <1>2 DEF IInv, SessionTyped, OwnerLives
<1>6. FreshIsCurrent'
  BY <1>1 DEF IInv, SessionTyped, FreshIsCurrent
<1>7. ActingIsFresh'
  BY <1>1, <1>2, <1>3 DEF IInv, SessionTyped, ActingIsFresh
<1> QED  BY <1>4, <1>5, <1>6, <1>7 DEF IInv

\* So does a step that stores nothing, if it enters no execution.
LEMMA MovesStep ==
    ASSUME IInv, NEW c \in Coord, NEW next \in Inside, Moves(c, next), pc[c] \notin Outside,
           next \in Acting => pc[c] \in Acting
    PROVE  IInv'
<1> USE DEF Moves, store, lease, session
<1>1. SessionTyped'
  BY DEF IInv, SessionTyped
<1>2. OwnerLives'
  BY DEF IInv, SessionTyped, OwnerLives
<1>3. FreshIsCurrent'
  BY DEF IInv, SessionTyped, FreshIsCurrent
<1>4. ActingIsFresh'
  BY DEF IInv, SessionTyped, ActingIsFresh
<1> QED  BY <1>1, <1>2, <1>3, <1>4 DEF IInv

\* A process that leaves, however it does, takes nothing along.
LEMMA GoneStep ==
    ASSUME IInv, NEW c \in Coord, Gone(c), UNCHANGED run,
           \/ holder' = holder /\ (dead' => dead)
           \/ \A d \in Coord \ {c} : pc[d] \in Outside
    PROVE  IInv'
<1> USE DEF Gone
<1>1. SessionTyped'
  BY DEF IInv, SessionTyped, Outside
<1>2. OwnerLives'
  BY DEF IInv, SessionTyped, OwnerLives, Outside
<1>3. FreshIsCurrent'
  BY DEF IInv, SessionTyped, FreshIsCurrent
<1>4. ActingIsFresh'
  BY DEF IInv, SessionTyped, ActingIsFresh, Acting, Executing
<1> QED  BY <1>1, <1>2, <1>3, <1>4 DEF IInv

\* What is loaded is what the store holds, as long as nobody commits.
LEMMA LoadStep ==
    ASSUME IInv, NEW c \in Coord, Load(c)
    PROVE  IInv'
<1> USE DEF Load, At, store, lease
<1>1. SessionTyped'
  BY DEF IInv, SessionTyped, Outside
<1>2. OwnerLives'
  BY DEF IInv, SessionTyped, OwnerLives, Outside
<1>3. FreshIsCurrent'
  BY DEF IInv, SessionTyped, FreshIsCurrent
<1>4. ActingIsFresh'
  BY DEF IInv, SessionTyped, ActingIsFresh, Acting, Executing
<1> QED  BY <1>1, <1>2, <1>3, <1>4 DEF IInv

\* A lease that nobody living holds leaves nobody in a session.
LEMMA AcquireStep ==
    ASSUME IInv, NEW c \in Coord, Acquire(c)
    PROVE  IInv'
<1> USE DEF Acquire, At, store, session
<1>1. holder \notin Coord \/ dead
  BY CoordinatorConstants
<1>2. \A d \in Coord : pc[d] \in Outside
  BY <1>1 DEF IInv, OwnerLives
<1>3. SessionTyped'
  BY DEF IInv, SessionTyped, Inside, InSession
<1>4. OwnerLives'
  BY <1>2 DEF IInv, SessionTyped, OwnerLives
<1>5. FreshIsCurrent'
  BY DEF IInv, SessionTyped, FreshIsCurrent
<1>6. ActingIsFresh'
  BY DEF IInv, SessionTyped, ActingIsFresh, Acting, Executing
<1> QED  BY <1>3, <1>4, <1>5, <1>6 DEF IInv

\* A process leaves its session with its lease, or dies with it. A lease of one outside is of an
\* earlier process in its slot, so that nobody is in a session.
LEMMA LeavesStep ==
    ASSUME IInv, NEW c \in Coord, Release(c) \/ Crash(c)
    PROVE  IInv'
<1>1. Gone(c) /\ UNCHANGED run
  BY DEF Release, Crash, store
<1>2. CASE holder = c \/ pc[c] \notin Outside
  <2>1. \A d \in Coord \ {c} : pc[d] \in Outside
    BY <1>2 DEF IInv, OwnerLives
  <2> QED  BY <1>1, <2>1, GoneStep
<1>3. CASE holder # c /\ pc[c] \in Outside
  <2>1. Crash(c)
    BY <1>3 DEF Release, At, Outside
  <2>2. holder' = holder /\ (dead' => dead)
    BY <1>3, <2>1 DEF Crash
  <2> QED  BY <1>1, <2>2, GoneStep
<1> QED  BY <1>2, <1>3

\* Until it schedules, a session reconciles what it found.
LEMMA RecoveryStep ==
    ASSUME IInv, NEW c \in Coord, Recovery(c)
    PROVE  IInv'
<1> USE DEF At, Inside, Outside, Acting, Executing, InSession, Ending
<1>1. CASE Load(c)
  BY <1>1, LoadStep DEF Load
<1>2. CASE Acquire(c)
  BY <1>2, AcquireStep DEF Acquire
<1>3. CASE Refused(c)
  BY <1>3, GoneStep DEF Refused, lease, store
<1>4. CASE BeginReconciling(c)
  BY <1>4, CommitStep, MovesStep DEF BeginReconciling
<1>5. CASE RecoverBoundary(c)
  BY <1>5, CommitStep, MovesStep DEF RecoverBoundary
<1>6. CASE Inspect(c)
  BY <1>6, CommitStep, MovesStep DEF Inspect, Blocked
<1>7. CASE TerminateRecovered(c)
  BY <1>7, CommitStep, MovesStep DEF TerminateRecovered, Blocked
<1>8. CASE Orphan(c)
  BY <1>8, CommitStep DEF Orphan
<1>9. CASE FinishRecoveredControl(c)
  BY <1>9, CommitStep DEF FinishRecoveredControl
<1>10. CASE ContinueOrphaned(c)
  BY <1>10, CommitStep DEF ContinueOrphaned, OrphanToContinue
<1>11. CASE PreflightFailsOrphaned(c)
  BY <1>11, CommitStep DEF PreflightFailsOrphaned, OrphanToContinue
<1>12. CASE ResumePaused(c)
  BY <1>12, CommitStep DEF ResumePaused
<1>13. CASE StayStopped(c)
  BY <1>13, MovesStep DEF StayStopped
<1>14. CASE ContinueRunning(c)
  BY <1>14, MovesStep DEF ContinueRunning
<1>15. CASE Negotiate(c)
  BY <1>15, CommitStep DEF Negotiate
<1> QED  BY <1>1, <1>2, <1>3, <1>4, <1>5, <1>6, <1>7, <1>8, <1>9, <1>10, <1>11, <1>12, <1>13,
         <1>14, <1>15 DEF Recovery

\* An execution begins with the commit of its prepared attempt.
LEMMA CoordinationStep ==
    ASSUME IInv, NEW c \in Coord, Coordination(c)
    PROVE  IInv'
<1> USE DEF At, Inside, Outside, Acting, Executing, InSession, Ending
<1>1. CASE Boundary(c)
  BY <1>1, CommitStep DEF Boundary
<1>2. CASE Schedule(c)
  BY <1>2, CommitStep, MovesStep DEF Schedule
<1>3. CASE StopCoordinating(c)
  BY <1>3, MovesStep DEF StopCoordinating
<1>4. CASE Preflight(c)
  BY <1>4, CommitStep, MovesStep DEF Preflight
<1>5. CASE PrepareAttempt(c)
  BY <1>5, CommitStep DEF PrepareAttempt
<1>6. CASE Authorize(c)
  BY <1>6, CommitStep DEF Authorize
<1>7. CASE Drive(c)
  BY <1>7, MovesStep DEF Drive
<1>8. CASE Collect(c)
  BY <1>8, MovesStep DEF Collect
<1>9. CASE ObserveControl(c)
  BY <1>9, CommitStep DEF ObserveControl
<1>10. CASE RequestTimeout(c)
  BY <1>10, CommitStep DEF RequestTimeout
<1>11. CASE Cancel(c)
  BY <1>11, MovesStep DEF Cancel
<1>12. CASE CancelUnconfirmed(c)
  BY <1>12, CommitStep DEF CancelUnconfirmed
<1>13. CASE FinishActiveControl(c)
  BY <1>13, CommitStep DEF FinishActiveControl
<1>14. CASE FinishExecution(c)
  BY <1>14, CommitStep DEF FinishExecution
<1>15. CASE FinishTimeout(c)
  BY <1>15, CommitStep DEF FinishTimeout
<1>16. CASE ReadyDependents(c)
  BY <1>16, CommitStep DEF ReadyDependents
<1>17. CASE CompleteRun(c)
  BY <1>17, CommitStep, MovesStep DEF CompleteRun
<1> QED  BY <1>1, <1>2, <1>3, <1>4, <1>5, <1>6, <1>7, <1>8, <1>9, <1>10, <1>11, <1>12, <1>13,
         <1>14, <1>15, <1>16, <1>17 DEF Coordination

\* It ends where its session does.
LEMMA EndStep ==
    ASSUME IInv, NEW c \in Coord, End(c)
    PROVE  IInv'
<1> USE DEF At, Inside, Outside, Acting, Executing, InSession, Ending
<1>1. CASE HostFails(c)
  BY <1>1, MovesStep DEF HostFails
<1>2. CASE Abandon(c)
  BY <1>2, MovesStep DEF Abandon
<1>3. CASE Release(c)
  BY <1>3, LeavesStep DEF Release
<1> QED  BY <1>1, <1>2, <1>3 DEF End

\* Nobody else's step concerns a session.
LEMMA OutsideStep ==
    ASSUME IInv, UNCHANGED <<run, lease, session, pc>>
    PROVE  IInv'
BY DEF IInv, SessionTyped, OwnerLives, FreshIsCurrent, ActingIsFresh, lease, session

-----------------------------------------------------------------------------
\* createOwned stores the run that start folds.
LEMMA Initially == Init => IInv
<1> SUFFICES ASSUME Init PROVE IInv
  OBVIOUS
<1>1. PICK starter \in Coord \cup {None} :
        /\ holder = starter /\ dead = FALSE
        /\ pc = [c \in Coord |-> IF c = starter THEN "schedule" ELSE "idle"]
        /\ view = [c \in Coord |-> IF c = starter THEN run ELSE CreatedRun]
        /\ fresh = [c \in Coord |-> c = starter]
  BY DEF Init
<1> USE <1>1 DEF Inside, Outside, Acting, Executing, InSession, Ending
<1>2. SessionTyped
  BY DEF SessionTyped
<1>3. OwnerLives /\ FreshIsCurrent /\ ActingIsFresh
  BY DEF OwnerLives, FreshIsCurrent, ActingIsFresh
<1> QED  BY <1>2, <1>3 DEF IInv

\* Every step of a process, a failure, a crash and whatever surrounds it keep the invariant.
LEMMA Inductive == IInv /\ [Next]_vars => IInv'
<1> SUFFICES ASSUME IInv, [Next]_vars PROVE IInv'
  OBVIOUS
<1>1. CASE \E c \in Coord : Recovery(c) \/ Coordination(c) \/ End(c)
  BY <1>1, RecoveryStep, CoordinationStep, EndStep
<1>2. CASE \E c \in Coord : SessionFails(c)
  <2>1. PICK c \in Coord : SessionFails(c)
    BY <1>2
  <2> QED  BY <2>1, MovesStep DEF SessionFails, At, Inside, Outside, Acting, Executing,
           InSession, Ending
<1>3. CASE \E c \in Coord : Crash(c)
  <2>1. PICK c \in Coord : Crash(c)
    BY <1>3
  <2> QED  BY <2>1, LeavesStep
<1>4. CASE \/ \E k \in Control : SubmitControl(k)
           \/ \E e \in Execution : Host(e)
           \/ OperatorEdits
           \/ UNCHANGED vars
  <2>1. UNCHANGED <<run, lease, session, pc>>
    BY <1>4 DEF SubmitControl, Host, PrepareReturns, AuthorizeReturns, WorkerEnds, SupervisorStops,
                WorkerChangesWorkspace, OperatorEdits, vars, store
  <2> QED  BY <2>1, OutsideStep
<1> QED  BY <1>1, <1>2, <1>3, <1>4 DEF Next

\* IInv holds in every state.
LEMMA Invariance == Spec => []IInv
BY Initially, Inductive, PTL DEF Spec

-----------------------------------------------------------------------------
\* OwnedRunSession, acquireForRecovery: two processes are never both between taking the lease
\* and giving it back.
THEOREM SessionsExclude ==
    Spec => [](\A c, d \in Coord : pc[c] \notin Outside /\ pc[d] \notin Outside => c = d)
<1>1. IInv => \A c, d \in Coord : pc[c] \notin Outside /\ pc[d] \notin Outside => c = d
  BY DEF IInv, OwnerLives
<1> QED  BY <1>1, Invariance, PTL

\* resume loads the run before it acquires its lease, yet whoever has an execution acts on
\* the state the store holds.
THEOREM ActsOnCurrentState == Spec => []ExecutesOnCurrentState
<1>1. IInv => ExecutesOnCurrentState
  BY DEF IInv, ActingIsFresh, FreshIsCurrent, ExecutesOnCurrentState, At, Acting
<1> QED  BY <1>1, Invariance, PTL

-----------------------------------------------------------------------------
(* Batches *)

\* Numbers are well founded.
LEMMA LeastNumber ==
    ASSUME NEW S \in SUBSET Nat, S # {}
    PROVE  \E n \in S : \A m \in S : n <= m
<1>1. PICK n \in S : \A m \in S : <<m, n>> \notin OpToRel(<, Nat)
  BY WFMin, NatLessThanWellFounded, Zenon
<1>2. \A m \in S : ~(m < n)
  BY <1>1, Zenon DEF OpToRel
<1> QED  BY <1>2

\* The runs after each event of a batch.
Steps(f, r, batch, n) ==
    f = [i \in 0..n |-> IF i = 0 THEN {r} ELSE UNION {Applied(s, batch[i]) : s \in f[i - 1]}]

\* There are such runs for every batch: the least one without could do with one event less.
LEMMA StepsExist ==
    ASSUME NEW r, NEW batch, NEW n \in Nat
    PROVE  \E f : Steps(f, r, batch, n)
<1> DEFINE T == {k \in Nat : ~ \E f : Steps(f, r, batch, k)}
<1> SUFFICES ASSUME T # {} PROVE FALSE
  OBVIOUS
<1>1. PICK k \in T : \A m \in T : k <= m
  BY LeastNumber
<1>2. CASE k = 0
  <2> DEFINE f == [i \in 0..0 |-> {r}]
  <2>1. Steps(f, r, batch, 0)
    BY DEF Steps
  <2> QED  BY <1>1, <1>2, <2>1
<1>3. CASE k # 0
  <2>1. k - 1 \in Nat /\ k - 1 \notin T
    BY <1>1, <1>3
  <2>2. PICK g : Steps(g, r, batch, k - 1)
    BY <2>1
  <2> DEFINE f == [i \in 0..k |-> IF i = k THEN UNION {Applied(s, batch[k]) : s \in g[k - 1]}
                                  ELSE g[i]]
  <2>3. Steps(f, r, batch, k)
    <3> SUFFICES ASSUME NEW i \in 0..k
                 PROVE  f[i] = IF i = 0 THEN {r} ELSE UNION {Applied(s, batch[i]) : s \in f[i - 1]}
      BY DEF Steps
    <3>1. CASE i = k
      <4>1. f[k] = UNION {Applied(s, batch[k]) : s \in g[k - 1]}
        OBVIOUS
      <4>2. k - 1 \in 0..k /\ k - 1 # k
        BY <2>1
      <4>3. f[k - 1] = g[k - 1]
        BY <4>2
      <4> QED  BY <1>3, <3>1, <4>1, <4>3
    <3>2. CASE i # k
      <4>1. i \in 0..(k - 1) /\ f[i] = g[i]
        BY <3>2
      <4>2. g[i] = IF i = 0 THEN {r} ELSE UNION {Applied(s, batch[i]) : s \in g[i - 1]}
        BY <2>2, <4>1, Zenon DEF Steps
      <4>3. i # 0 => i - 1 \in 0..k /\ i - 1 # k
        BY <4>1
      <4>4. i # 0 => f[i - 1] = g[i - 1]
        BY <4>3
      <4> QED  BY <4>1, <4>2, <4>4
    <3> QED  BY <3>1, <3>2
  <2> QED  BY <1>1, <2>3
<1> QED  BY <1>2, <1>3

\* materialize returns the last of them.
LEMMA MaterializedSteps ==
    ASSUME NEW r, NEW batch, Len(batch) \in Nat
    PROVE  \E f : Steps(f, r, batch, Len(batch)) /\ Materialized(r, batch) = f[Len(batch)]
<1> DEFINE f == CHOOSE f : Steps(f, r, batch, Len(batch))
<1>1. Steps(f, r, batch, Len(batch))
  BY StepsExist, Zenon
<1>2. Materialized(r, batch) = f[Len(batch)]
  BY Zenon DEF Materialized, Steps
<1> QED BY <1>1, <1>2

\* What every event of a batch preserves holds after each of them.
LEMMA StepsPreserve ==
    ASSUME NEW r, NEW batch, Len(batch) \in Nat, NEW S, r \in S, NEW f,
           \A i \in 1..Len(batch) : \A s \in S : Applied(s, batch[i]) \subseteq S,
           Steps(f, r, batch, Len(batch))
    PROVE  \A k \in 0..Len(batch) : f[k] \subseteq S
<1> DEFINE T == {k \in Nat : k <= Len(batch) /\ ~(f[k] \subseteq S)}
<1> SUFFICES ASSUME T # {} PROVE FALSE
  OBVIOUS
<1>1. PICK k \in T : \A m \in T : k <= m
  BY LeastNumber
<1>2. k \in 0..Len(batch)
  OBVIOUS
<1>3. f[k] = IF k = 0 THEN {r} ELSE UNION {Applied(s, batch[k]) : s \in f[k - 1]}
  BY <1>2, Zenon DEF Steps
<1>4. CASE k = 0
  BY <1>1, <1>3, <1>4
<1>5. CASE k # 0
  <2>1. k - 1 \in Nat /\ k - 1 <= Len(batch) /\ k - 1 \notin T
    BY <1>1, <1>5
  <2>2. k \in 1..Len(batch) /\ f[k - 1] \subseteq S
    BY <1>5, <2>1
  <2> QED  BY <1>1, <1>3, <1>5, <2>2
<1> QED  BY <1>4, <1>5

\* So it holds of what the batch makes of the run, and the last event made that.
LEMMA BatchPreserves ==
    ASSUME NEW r, NEW batch, Len(batch) \in Nat, NEW S, r \in S,
           \A i \in 1..Len(batch) : \A s \in S : Applied(s, batch[i]) \subseteq S
    PROVE  /\ Materialized(r, batch) \subseteq S
           /\ Len(batch) # 0 => \A t \in Materialized(r, batch) :
                                  \E s \in S : t \in Applied(s, batch[Len(batch)])
<1> DEFINE n == Len(batch)
<1>1. PICK f : Steps(f, r, batch, n) /\ Materialized(r, batch) = f[n]
  BY MaterializedSteps, Zenon
<1>2. \A k \in 0..n : f[k] \subseteq S
  BY <1>1, StepsPreserve
<1>3. n \in 0..n /\ (n # 0 => n - 1 \in 0..n)
  OBVIOUS
<1>4. n # 0 => f[n] = UNION {Applied(s, batch[n]) : s \in f[n - 1]}
  BY <1>1, <1>3, Zenon DEF Steps
<1> QED  BY <1>1, <1>2, <1>3, <1>4

-----------------------------------------------------------------------------
(* Events *)

\* Events that set the status of the run.
RunWide == {"RunPaused", "RunResumed", "RunBlocked", "RunCancelled", "RunCompleted",
            "RunRecoveryBlocked"}

\* Events of the run itself, and evidence that changes nothing.
RunOnly == {"RuntimeConfigured", "RuntimeNegotiated", "WorkspaceAssigned", "ControlRequestObserved",
            "ArtifactProduced", "WorkspaceObserved", "CommandCompleted"}

\* What an event about a node may make of it.
NodeOnly == {"AttemptScheduled", "AttemptPrepared", "AttemptStartAuthorized", "AttemptStarted",
             "RuntimeEventObserved", "ExecutionCleanupObserved", "AttemptTimeoutRequested",
             "AttemptCancellationCompleted", "LateResultObserved", "AttemptSucceeded",
             "AttemptBlocked", "AttemptCancelled", "AttemptFailed", "AttemptOrphaned", "NodeReady",
             "NodeSucceeded", "NodeFailed", "NodeBlocked", "NodePaused", "NodeCancelled"}

\* The events that give a node another attempt or start one.
Starting == {"AttemptScheduled", "AttemptStartAuthorized", "AttemptStarted"}

\* The fields of an event have their types.
Typed(e) ==
    /\ e.type \in RunWide \cup RunOnly \cup NodeOnly
    /\ e.type = "ExecutionCleanupObserved" => e.cause \in Cause /\ e.outcome \in CleanupOutcome
    /\ e.type = "AttemptCancellationCompleted" => e.outcome \in CancellationOutcome
    /\ e.type = "RuntimeEventObserved" => e.usage \in BOOLEAN
    /\ e.type = "AttemptOrphaned" => e.differs \in BOOLEAN
    /\ e.type = "NodePaused" => e.reason \in PauseKind \cup {"none"}
    /\ e.type = "RunCompleted" => e.outcome \in {"succeeded", "failed"}

\* No attempt is scheduled or started.
StartsNothing(r, s) ==
    \A n \in Node :
        /\ s.nodes[n].attempts = r.nodes[n].attempts
        /\ s.nodes[n].last.status = "running" => r.nodes[n].last.status = "running"

\* An update of the node of an event, if there is such a node, keeps the run's own fields.
LEMMA UpdatedRun ==
    ASSUME NEW r \in Run, NEW e, NEW node, e.node \in Node => node \in NodeState
    PROVE  /\ Updated(r, e, node) \in Run
           /\ Updated(r, e, node).status = r.status
           /\ \A n \in Node : Updated(r, e, node).nodes[n] = IF n = e.node THEN node ELSE r.nodes[n]
BY DEF Updated, Run

\* None of them touches a node.
LEMMA RunEffect ==
    ASSUME NEW r \in Run, NEW e, Typed(e), NEW s \in Applied(r, e), e.type \in RunWide \cup RunOnly
    PROVE  /\ s \in Run /\ s.nodes = r.nodes
           /\ e.type \notin RunWide => s.status = r.status
           /\ e.type # "RunBlocked" /\ s.status = "blocked" => r.status = "blocked"
<1> USE DEF RunWide, RunOnly, When, Run, RunStatus
<1>1. CASE e.type \in RunWide
  <2>1. PICK status \in RunStatus : /\ s = [r EXCEPT !.status = status]
                                    /\ status = "blocked" => e.type = "RunBlocked"
    <3>1. CASE e.type = "RunPaused"
      BY <3>1 DEF Applied, RunPaused
    <3>2. CASE e.type = "RunResumed"
      BY <3>2 DEF Applied, RunResumed
    <3>3. CASE e.type = "RunBlocked"
      BY <3>3 DEF Applied, RunBlocked
    <3>4. CASE e.type = "RunCancelled"
      BY <3>4 DEF Applied, RunCancelled
    <3>5. CASE e.type = "RunCompleted"
      BY <3>5 DEF Applied, RunCompleted, Typed
    <3>6. CASE e.type = "RunRecoveryBlocked"
      BY <3>6 DEF Applied, RunRecoveryBlocked
    <3> QED  BY <1>1, <3>1, <3>2, <3>3, <3>4, <3>5, <3>6
  <2> QED  BY <1>1, <2>1
<1>2. CASE e.type \in RunOnly
  <2>1. \/ s = r
        \/ s \in {[r EXCEPT !.configured = TRUE], [r EXCEPT !.negotiated = TRUE],
                  [r EXCEPT !.workspace = TRUE]}
    BY <1>2 DEF Applied, RuntimeConfigured, RuntimeNegotiated, WorkspaceAssigned,
                ControlRequestObserved, ArtifactProduced, ResultEvidence
  <2> QED  BY <1>2, <2>1
<1> QED  BY <1>1, <1>2

\* They leave the run's own fields and the other nodes alone.
NodeMoves(r, e, s) ==
    \E node :
        /\ e.node \in Node => node \in NodeState
        /\ s = Updated(r, e, node)
        /\ e.type \notin Starting /\ e.node \in Node =>
              /\ node.attempts = NodeOf(r, e).attempts
              /\ node.last.status = "running" => NodeOf(r, e).last.status = "running"

\* What an event makes of the last attempt: only its start makes it running.
LEMMA AttemptEffect ==
    ASSUME NEW r \in Run, NEW e, Typed(e), NEW s \in Applied(r, e),
           e.type \in {"RuntimeEventObserved", "ExecutionCleanupObserved", "AttemptTimeoutRequested",
                       "AttemptCancellationCompleted", "LateResultObserved", "AttemptSucceeded",
                       "AttemptBlocked", "AttemptCancelled", "AttemptFailed", "AttemptPrepared"}
    PROVE  NodeMoves(r, e, s)
<1> DEFINE old == NodeOf(r, e)
           last == old.last
<1> USE DEF When
<1>1. e.node \in Node => old \in NodeState /\ last \in Attempt
  BY DEF Run, NodeOf, NodeState
<1>2. ASSUME NEW a, s = AttemptBecomes(r, e, a), e.node \in Node => a \in Attempt,
             e.node \in Node /\ a.status = "running" => last.status = "running"
      PROVE  NodeMoves(r, e, s)
  <2> DEFINE node == [old EXCEPT !.last = a]
  <2>1. e.node \in Node => node \in NodeState /\ node.last = a /\ node.attempts = old.attempts
    BY <1>1, <1>2 DEF NodeState
  <2>2. s = Updated(r, e, node)
    BY <1>2 DEF AttemptBecomes
  <2> QED  BY <1>2, <2>1, <2>2 DEF NodeMoves
<1>3. CASE e.type = "RuntimeEventObserved"
  <2> DEFINE a == [last EXCEPT !.usage = @ \/ e.usage]
  <2>1. s = AttemptBecomes(r, e, a)
    BY <1>3 DEF Applied, RuntimeEventObserved
  <2>2. e.node \in Node => a \in Attempt /\ a.status = last.status
    BY <1>1, <1>3 DEF Attempt, Typed
  <2> QED  BY <1>2, <2>1, <2>2
<1>4. CASE e.type = "ExecutionCleanupObserved"
  <2> DEFINE a == [last EXCEPT !.cleanup = @ \cup {<<e.cause, e.outcome>>}]
  <2>1. s = AttemptBecomes(r, e, a)
    BY <1>4 DEF Applied, ExecutionCleanupObserved
  <2>2. e.node \in Node => a \in Attempt /\ a.status = last.status
    BY <1>1, <1>4 DEF Attempt, Typed
  <2> QED  BY <1>2, <2>1, <2>2
<1>5. CASE e.type \in {"AttemptTimeoutRequested", "AttemptCancellationCompleted"}
  <2> DEFINE a(outcome) == [last EXCEPT !.timeout = outcome]
  <2>1. PICK outcome \in CancellationOutcome \cup {"requested"} : s = AttemptBecomes(r, e, a(outcome))
    BY <1>5 DEF Applied, AttemptTimeoutRequested, AttemptCancellationCompleted, Typed
  <2>2. e.node \in Node => a(outcome) \in Attempt /\ a(outcome).status = last.status
    BY <1>1 DEF Attempt
  <2> QED  BY <1>2, <2>1, <2>2
<1>6. CASE e.type = "LateResultObserved"
  <2> DEFINE a == [last EXCEPT !.late = TRUE]
  <2>1. s = AttemptBecomes(r, e, a)
    BY <1>6 DEF Applied, LateResultObserved
  <2>2. e.node \in Node => a \in Attempt /\ a.status = last.status
    BY <1>1 DEF Attempt
  <2> QED  BY <1>2, <2>1, <2>2
<1>7. CASE e.type \in {"AttemptSucceeded", "AttemptBlocked", "AttemptCancelled", "AttemptFailed"}
  <2> DEFINE a(status) == [last EXCEPT !.status = status]
  <2>1. PICK status \in {"succeeded", "blocked", "cancelled", "failed"} :
          s = AttemptBecomes(r, e, a(status))
    BY <1>7 DEF Applied, AttemptEnded, AttemptFailed
  <2>2. e.node \in Node => a(status) \in Attempt /\ a(status).status = status
    BY <1>1 DEF Attempt, AttemptStatus
  <2> QED  BY <1>2, <2>1, <2>2
<1>8. CASE e.type = "AttemptPrepared"
  <2> DEFINE a == [last EXCEPT !.status = "prepared", !.plan = TRUE]
  <2>1. s = AttemptBecomes(r, e, a)
    BY <1>8 DEF Applied, AttemptPrepared
  <2>2. e.node \in Node => a \in Attempt /\ a.status = "prepared"
    BY <1>1 DEF Attempt, AttemptStatus
  <2> QED  BY <1>2, <2>1, <2>2
<1> QED  BY <1>3, <1>4, <1>5, <1>6, <1>7, <1>8

\* What it makes of the node, the attempt included.
LEMMA NodeEffect ==
    ASSUME NEW r \in Run, NEW e, Typed(e), NEW s \in Applied(r, e), e.type \in NodeOnly
    PROVE  NodeMoves(r, e, s)
<1> DEFINE old == NodeOf(r, e)
           last == old.last
<1> USE DEF When
<1>1. e.node \in Node => old \in NodeState /\ last \in Attempt /\ old.attempts \in Nat
  BY DEF Run, NodeOf, NodeState
<1>2. CASE e.type \in {"NodeReady", "NodePaused"}
  <2> DEFINE node(status, pause) == [old EXCEPT !.status = status, !.pause = pause]
  <2>1. PICK status \in NodeStatus, pause \in {old.pause, "none"} \cup PauseKind :
          s = Updated(r, e, node(status, pause))
    <3>1. CASE e.type = "NodeReady"
      <4>1. s = Updated(r, e, node("ready", "none"))
        BY <3>1 DEF Applied, NodeReady
      <4> QED  BY <4>1 DEF NodeStatus
    <3>2. CASE e.type = "NodePaused"
      <4>1. s = NodeBecomes(r, e, "paused") \/ s = Updated(r, e, node("paused", e.reason))
        BY <3>2 DEF Applied, NodePaused
      <4>2. [old EXCEPT !.status = "paused"] = node("paused", old.pause)
        OBVIOUS
      <4>3. CASE s = NodeBecomes(r, e, "paused")
        <5>1. s = Updated(r, e, node("paused", old.pause))
          BY <4>2, <4>3 DEF NodeBecomes
        <5> QED  BY <5>1 DEF NodeStatus
      <4>4. CASE s = Updated(r, e, node("paused", e.reason))
        <5>1. e.reason \in PauseKind \cup {"none"}
          BY <3>2 DEF Typed
        <5> HIDE DEF node
        <5> QED  BY <4>4, <5>1 DEF NodeStatus
      <4> QED  BY <4>1, <4>3, <4>4
    <3> QED  BY <1>2, <3>1, <3>2
  <2>2. e.node \in Node => /\ node(status, pause) \in NodeState
                           /\ node(status, pause).attempts = old.attempts
                           /\ node(status, pause).last = last
    BY <1>1, <2>1 DEF NodeState
  <2> QED  BY <2>1, <2>2 DEF NodeMoves
<1>3. CASE e.type \in {"NodeSucceeded", "NodeFailed", "NodeBlocked", "NodeCancelled"}
  <2> DEFINE node(status) == [old EXCEPT !.status = status]
  <2>1. PICK status \in NodeStatus : s = Updated(r, e, node(status))
    BY <1>3 DEF Applied, NodeEnded, NodeBlocked, NodeCancelled, NodeBecomes, NodeStatus
  <2>2. e.node \in Node => /\ node(status) \in NodeState /\ node(status).attempts = old.attempts
                           /\ node(status).last = last
    BY <1>1 DEF NodeState
  <2> QED  BY <2>1, <2>2 DEF NodeMoves
<1>4. CASE e.type \in {"AttemptStartAuthorized", "AttemptStarted"}
  <2> DEFINE a == [last EXCEPT !.status = "running"]
             node == [old EXCEPT !.status = "running", !.last = [@ EXCEPT !.status = "running"]]
  <2>1. s = Updated(r, e, node)
    BY <1>4 DEF Applied, AttemptStartAuthorized, AttemptStarted, Started
  <2>2. e.node \in Node => a \in Attempt
    BY <1>1 DEF Attempt, AttemptStatus
  <2>3. e.node \in Node => node \in NodeState
    BY <1>1, <2>2 DEF NodeState, NodeStatus
  <2> QED  BY <1>4, <2>1, <2>3 DEF NodeMoves, Starting
<1>5. CASE e.type = "AttemptScheduled"
  <2> DEFINE a == [NoAttempt EXCEPT !.status = "scheduled"]
             node == [old EXCEPT !.attempts = e.attempt, !.last = a]
  <2>1. s = Updated(r, e, node) /\ e.attempt = old.attempts + 1
    BY <1>5 DEF Applied, AttemptScheduled
  <2>2. a \in Attempt
    BY DEF Attempt, AttemptStatus, NoAttempt
  <2>3. e.node \in Node => e.attempt \in Nat
    BY <1>1, <2>1
  <2> HIDE DEF a
  <2>4. e.node \in Node => node \in NodeState
    BY <1>1, <2>2, <2>3 DEF NodeState
  <2> QED  BY <1>5, <2>1, <2>4 DEF NodeMoves, Starting
<1>6. CASE e.type = "AttemptOrphaned"
  <2> DEFINE a == [last EXCEPT !.status = "orphaned", !.differs = e.differs]
             node == [old EXCEPT !.status = "running",
                                 !.last = [@ EXCEPT !.status = "orphaned", !.differs = e.differs]]
  <2>1. s = Updated(r, e, node)
    BY <1>6 DEF Applied, AttemptOrphaned
  <2>2. e.node \in Node => a \in Attempt /\ a.status = "orphaned"
    BY <1>1, <1>6 DEF Attempt, AttemptStatus, Typed
  <2>3. e.node \in Node => node \in NodeState /\ node.last = a /\ node.attempts = old.attempts
    BY <1>1, <2>2 DEF NodeState, NodeStatus
  <2> QED  BY <2>1, <2>2, <2>3 DEF NodeMoves
<1> QED  BY <1>2, <1>3, <1>4, <1>5, <1>6, AttemptEffect DEF NodeOnly

\* A typed event leaves a typed run; only one that starts something gives a node more.
LEMMA EventEffect ==
    ASSUME NEW r \in Run, NEW e, Typed(e), NEW s \in Applied(r, e)
    PROVE  /\ s \in Run
           /\ e.type \notin RunWide => s.status = r.status
           /\ e.type \notin Starting => StartsNothing(r, s)
           /\ e.type # "RunBlocked" /\ s.status = "blocked" => r.status = "blocked"
<1>1. e.type \in RunWide \cup RunOnly \cup NodeOnly
  BY DEF Typed
<1>2. CASE e.type \in RunWide \cup RunOnly
  BY <1>2, RunEffect DEF StartsNothing
<1>3. CASE e.type \in NodeOnly
  <2>1. PICK node :
        /\ e.node \in Node => node \in NodeState
        /\ s = Updated(r, e, node)
        /\ e.type \notin Starting /\ e.node \in Node =>
              /\ node.attempts = NodeOf(r, e).attempts
              /\ node.last.status = "running" => NodeOf(r, e).last.status = "running"
    BY <1>3, NodeEffect DEF NodeMoves
  <2>2. s \in Run /\ s.status = r.status
           /\ \A n \in Node : s.nodes[n] = IF n = e.node THEN node ELSE r.nodes[n]
    BY <2>1, UpdatedRun
  <2> QED  BY <2>1, <2>2 DEF StartsNothing, NodeOf
<1> QED  BY <1>1, <1>2, <1>3

-----------------------------------------------------------------------------
(* Batches of typed events *)

\* The events that name a control: its acknowledgement and its completion.
Asks == {"ControlRequestObserved"}
Answers == {"RunPaused", "RunCancelled"}

\* A sequence of typed events of some types, the controls it observes and those it completes.
Batch(batch, types, seen, done) ==
    /\ Len(batch) \in Nat /\ batch \in Seq({batch[i] : i \in 1..Len(batch)})
    /\ \A i \in 1..Len(batch) : Typed(batch[i]) /\ batch[i].type \in types
    /\ Named(batch, Asks) = seen
    /\ Named(batch, Answers) = done

NamedBy(e, types) == IF e.type \in types THEN {e.control} \ {None} ELSE {}

\* An empty batch names no control.
LEMMA NoEvent == ASSUME NEW types PROVE Batch(<<>>, types, {}, {})
<1>1. DOMAIN <<>> = {} /\ Len(<<>>) = 0
  OBVIOUS
<1>2. Named(<<>>, Asks) = {} /\ Named(<<>>, Answers) = {}
  BY <1>1 DEF Named
<1>3. << >> \in Seq({})
  OBVIOUS
<1> QED BY <1>1, <1>2, <1>3 DEF Batch

\* One event is a batch.
LEMMA OneEvent ==
    ASSUME NEW e, Typed(e), NEW types, e.type \in types
    PROVE  Batch(<<e>>, types, NamedBy(e, Asks), NamedBy(e, Answers))
<1> DEFINE b == <<e>>
<1>1. Len(b) = 1 /\ DOMAIN b = {1} /\ b[1] = e
  OBVIOUS
<1>2. ASSUME NEW T PROVE Named(b, T) = NamedBy(e, T)
  BY <1>1 DEF Named, NamedBy
<1>3. b \in Seq({b[i] : i \in 1..Len(b)})
  BY <1>1
<1> QED  BY <1>1, <1>2, <1>3 DEF Batch

\* Two batches joined are one.
LEMMA Joined ==
    ASSUME NEW types, NEW a, NEW s1, NEW d1, Batch(a, types, s1, d1),
           NEW b, NEW s2, NEW d2, Batch(b, types, s2, d2)
    PROVE  Batch(a \o b, types, s1 \cup s2, d1 \cup d2)
<1> DEFINE A == {a[i] : i \in 1..Len(a)}
           B == {b[i] : i \in 1..Len(b)}
<1>0. PICK c : c = a \o b
  OBVIOUS
<1>1. a \in Seq(A \cup B) /\ b \in Seq(A \cup B)
  BY DEF Batch
<1>2. /\ c \in Seq(A \cup B) /\ Len(c) = Len(a) + Len(b)
      /\ DOMAIN a = 1..Len(a) /\ DOMAIN b = 1..Len(b) /\ DOMAIN c = 1..Len(c)
      /\ Len(a) \in Nat /\ Len(b) \in Nat
      /\ \A i \in 1..Len(c) : c[i] = IF i <= Len(a) THEN a[i] ELSE b[i - Len(a)]
  BY <1>0, <1>1
<1> HIDE DEF A, B
<1>3. c \in Seq({c[i] : i \in 1..Len(c)})
  BY <1>2
<1>4. ASSUME NEW T PROVE Named(c, T) = Named(a, T) \cup Named(b, T)
  <2>1. \A i \in DOMAIN a : i \in DOMAIN c /\ c[i] = a[i]
    BY <1>2
  <2>2. \A i \in DOMAIN b : i + Len(a) \in DOMAIN c /\ c[i + Len(a)] = b[i]
    BY <1>2
  <2>3. \A i \in DOMAIN c : \/ i \in DOMAIN a /\ c[i] = a[i]
                            \/ i - Len(a) \in DOMAIN b /\ c[i] = b[i - Len(a)]
    BY <1>2
  <2> QED  BY <2>1, <2>2, <2>3 DEF Named
<1>5. ASSUME NEW i \in 1..Len(c) PROVE Typed(c[i]) /\ c[i].type \in types
  <2>1. (i \in 1..Len(a) /\ c[i] = a[i]) \/ (i - Len(a) \in 1..Len(b) /\ c[i] = b[i - Len(a)])
    BY <1>2
  <2> QED  BY <2>1, Zenon DEF Batch
<1>6. Batch(c, types, s1 \cup s2, d1 \cup d2)
  BY <1>2, <1>3, <1>4, <1>5 DEF Batch
<1> QED  BY <1>0, <1>6

\* The nodes of a set up to a position of the authored order.
Among(f, S, n) ==
    f = [i \in 0..n |-> IF i = 0 THEN <<>>
                        ELSE IF Order[i] \in S THEN Append(f[i - 1], Order[i]) ELSE f[i - 1]]

\* There is one for every length.
LEMMA AmongExists ==
    ASSUME NEW S, NEW n \in Nat
    PROVE  \E f : Among(f, S, n)
<1> DEFINE T == {k \in Nat : ~ \E f : Among(f, S, k)}
<1> SUFFICES ASSUME T # {} PROVE FALSE
  OBVIOUS
<1>1. PICK k \in T : \A m \in T : k <= m
  BY LeastNumber
<1>2. CASE k = 0
  <2>1. Among([i \in 0..0 |-> <<>>], S, 0)
    BY DEF Among
  <2> QED  BY <1>1, <1>2, <2>1
<1>3. CASE k # 0
  <2>1. k - 1 \in Nat /\ k - 1 \notin T
    BY <1>1, <1>3
  <2>2. PICK g : Among(g, S, k - 1)
    BY <2>1
  <2> DEFINE next == IF Order[k] \in S THEN Append(g[k - 1], Order[k]) ELSE g[k - 1]
             f == [i \in 0..k |-> IF i = k THEN next ELSE g[i]]
  <2>3. Among(f, S, k)
    <3> SUFFICES ASSUME NEW i \in 0..k
                 PROVE  f[i] = IF i = 0 THEN <<>>
                               ELSE IF Order[i] \in S THEN Append(f[i - 1], Order[i]) ELSE f[i - 1]
      BY Zenon DEF Among
    <3>1. CASE i = k
      <4>1. k \in 0..k /\ k - 1 \in 0..k /\ k - 1 # k
        BY <2>1
      <4>2. f[k] = next /\ f[k - 1] = g[k - 1]
        BY <4>1, Zenon
      <4> QED  BY <1>3, <3>1, <4>2, Zenon
    <3>2. CASE i # k
      <4>1. i \in 0..(k - 1) /\ f[i] = g[i]
        BY <3>2
      <4>2. g[i] = IF i = 0 THEN <<>>
                   ELSE IF Order[i] \in S THEN Append(g[i - 1], Order[i]) ELSE g[i - 1]
        BY <2>2, <4>1, Zenon DEF Among
      <4>3. i # 0 => i - 1 \in 0..k /\ i - 1 # k
        BY <4>1
      <4>4. i # 0 => f[i - 1] = g[i - 1]
        BY <4>3
      <4> QED  BY <4>1, <4>2, <4>4, Zenon
    <3> QED  BY <3>1, <3>2
  <2> QED  BY <1>1, <2>3
<1> QED  BY <1>2, <1>3

\* The nodes of a set in authored order are nodes of that set.
LEMMA InOrderMembers ==
    ASSUME NEW S
    PROVE  InOrder(S) \in Seq(S)
<1> DEFINE n == Len(Order)
           f == CHOOSE f : Among(f, S, n)
<1>1. n \in Nat
  BY CoordinatorConstants
<1>2. Among(f, S, n)
  BY <1>1, AmongExists, Zenon
<1>3. InOrder(S) = f[n]
  BY Zenon DEF InOrder, Among
<1> HIDE DEF f, n
<1> DEFINE Good(k) == f[k] \in Seq(S)
           T == {k \in Nat : k <= n /\ ~Good(k)}
<1>4. Good(0)
  <2>1. 0 \in 0..n
    BY <1>1
  <2>2. f[0] = <<>>
    BY <1>2, <2>1, Zenon DEF Among
  <2> QED  BY <2>2
<1>5. ASSUME NEW k \in 1..n, Good(k - 1) PROVE Good(k)
  <2>1. k \in 0..n /\ k # 0
    BY <1>1
  <2>2. f[k] = IF Order[k] \in S THEN Append(f[k - 1], Order[k]) ELSE f[k - 1]
    BY <1>2, <2>1, Zenon DEF Among
  <2>3. Order[k] \in S => Append(f[k - 1], Order[k]) \in Seq(S)
    BY <1>5
  <2> QED  BY <1>5, <2>2, <2>3, Zenon
<1> HIDE DEF Good
<1>6. ASSUME T # {} PROVE FALSE
  <2>1. PICK k \in T : \A m \in T : k <= m
    BY <1>6, LeastNumber
  <2>2. k # 0
    BY <1>4
  <2>3. k \in 1..n /\ k - 1 \in Nat /\ k - 1 <= n /\ k - 1 \notin T
    BY <1>1, <2>1, <2>2
  <2> QED  BY <1>5, <2>3
<1> QED  BY <1>1, <1>3, <1>6 DEF Good

\* An event that observes and completes nothing.
Plain(e, types) == Typed(e) /\ e.type \in types \ (Asks \cup Answers)

\* Any number of them.
LEMMA PlainBatch ==
    ASSUME NEW S, NEW batch \in Seq(S), NEW types, \A e \in S : Plain(e, types)
    PROVE  Batch(batch, types, {}, {})
<1>1. /\ Len(batch) \in Nat /\ DOMAIN batch = 1..Len(batch)
      /\ batch \in Seq({batch[i] : i \in 1..Len(batch)})
      /\ \A i \in 1..Len(batch) : batch[i] \in S
  OBVIOUS
<1>2. \A i \in 1..Len(batch) : Plain(batch[i], types)
  BY <1>1
<1>3. Named(batch, Asks) = {} /\ Named(batch, Answers) = {}
  BY <1>1, <1>2 DEF Named, Plain
<1> QED  BY <1>1, <1>2, <1>3 DEF Batch, Plain

\* Events of one type for nodes, in authored order.
LEMMA EachNode ==
    ASSUME NEW S, NEW b, b = [i \in DOMAIN InOrder(S) |-> b[i]], NEW types,
           NEW type \in {"NodeCancelled", "NodeBlocked", "NodeReady"} \cap types,
           \A i \in DOMAIN InOrder(S) : b[i].type = type
    PROVE  Batch(b, types, {}, {})
<1> DEFINE X == {b[i] : i \in DOMAIN InOrder(S)}
<1>1. Len(InOrder(S)) \in Nat /\ DOMAIN InOrder(S) = 1..Len(InOrder(S))
  BY InOrderMembers
<1>2. b \in Seq(X)
  BY <1>1
<1>3. \A e \in X : Plain(e, types)
  BY DEF Plain, Typed, NodeOnly, Asks, Answers
<1> QED  BY <1>2, <1>3, PlainBatch

\* Those of a cancelled or a stopped run, and of the nodes that become ready.
LEMMA NodeBatches ==
    ASSUME NEW v, NEW n, NEW S, NEW reason, NEW types
    PROVE  /\ "NodeCancelled" \in types => Batch(CancelNodes(v), types, {}, {})
           /\ "NodeBlocked" \in types => Batch(BlockOthers(v, n), types, {}, {})
           /\ "NodeReady" \in types => Batch(ReadyBatch(S, reason), types, {}, {})
<1>1. ASSUME "NodeCancelled" \in types PROVE Batch(CancelNodes(v), types, {}, {})
  <2>1. PICK X, b : /\ b = CancelNodes(v)
                    /\ b = [i \in DOMAIN InOrder(X) |-> NodeEvent("NodeCancelled", InOrder(X)[i])]
    BY DEF CancelNodes, ForNodes
  <2>2. \A i \in DOMAIN InOrder(X) : b[i].type = "NodeCancelled"
    BY <2>1 DEF NodeEvent
  <2>3. b = [i \in DOMAIN InOrder(X) |-> b[i]]
    BY <2>1
  <2> QED  BY <1>1, <2>1, <2>2, <2>3, EachNode
<1>2. ASSUME "NodeBlocked" \in types PROVE Batch(BlockOthers(v, n), types, {}, {})
  <2>1. PICK X, b : /\ b = BlockOthers(v, n)
                    /\ b = [i \in DOMAIN InOrder(X) |-> NodeEvent("NodeBlocked", InOrder(X)[i])]
    BY DEF BlockOthers, ForNodes
  <2>2. \A i \in DOMAIN InOrder(X) : b[i].type = "NodeBlocked"
    BY <2>1 DEF NodeEvent
  <2>3. b = [i \in DOMAIN InOrder(X) |-> b[i]]
    BY <2>1
  <2> QED  BY <1>2, <2>1, <2>2, <2>3, EachNode
<1>3. ASSUME "NodeReady" \in types PROVE Batch(ReadyBatch(S, reason), types, {}, {})
  <2>1. PICK b : /\ b = ReadyBatch(S, reason)
                 /\ b = [i \in DOMAIN InOrder(S) |-> Because("NodeReady", InOrder(S)[i], reason)]
    BY DEF ReadyBatch, ForNodes
  <2>2. \A i \in DOMAIN InOrder(S) : b[i].type = "NodeReady"
    BY <2>1 DEF Because
  <2>3. b = [i \in DOMAIN InOrder(S) |-> b[i]]
    BY <2>1
  <2> QED  BY <1>3, <2>1, <2>2, <2>3, EachNode
<1> QED  BY <1>1, <1>2, <1>3

\* Up to four events.
LEMMA PlainEvents ==
    ASSUME NEW types, NEW a, Plain(a, types), NEW b, NEW c, NEW d
    PROVE  /\ Batch(<<a>>, types, {}, {})
           /\ Plain(b, types) => Batch(<<a, b>>, types, {}, {})
           /\ Plain(b, types) /\ Plain(c, types) => Batch(<<a, b, c>>, types, {}, {})
           /\ Plain(b, types) /\ Plain(c, types) /\ Plain(d, types)
              => Batch(<<a, b, c, d>>, types, {}, {})
<1>1. <<a>> \in Seq({a}) /\ <<a, b>> \in Seq({a, b})
  OBVIOUS
<1>2. <<a, b, c>> \in Seq({a, b, c}) /\ <<a, b, c, d>> \in Seq({a, b, c, d})
  OBVIOUS
<1>3. Batch(<<a>>, types, {}, {})
  <2>1. PICK S : S = {a}
    OBVIOUS
  <2>2. <<a>> \in Seq(S) /\ \A e \in S : Plain(e, types)
    BY <1>1, <2>1
  <2> QED  BY <2>2, PlainBatch
<1>4. ASSUME Plain(b, types)
      PROVE  Batch(<<a, b>>, types, {}, {})
  <2>1. PICK S : S = {a, b}
    OBVIOUS
  <2>2. <<a, b>> \in Seq(S) /\ \A e \in S : Plain(e, types)
    BY <1>1, <1>4, <2>1
  <2> QED  BY <2>2, PlainBatch
<1>5. ASSUME Plain(b, types), Plain(c, types)
      PROVE  Batch(<<a, b, c>>, types, {}, {})
  <2>1. PICK S : S = {a, b, c}
    OBVIOUS
  <2>2. <<a, b, c>> \in Seq(S) /\ \A e \in S : Plain(e, types)
    BY <1>2, <1>5, <2>1
  <2> QED  BY <2>2, PlainBatch
<1>6. ASSUME Plain(b, types), Plain(c, types), Plain(d, types)
      PROVE  Batch(<<a, b, c, d>>, types, {}, {})
  <2>1. PICK S : S = {a, b, c, d}
    OBVIOUS
  <2>2. <<a, b, c, d>> \in Seq(S) /\ \A e \in S : Plain(e, types)
    BY <1>2, <1>6, <2>1
  <2> QED  BY <2>2, PlainBatch
<1> QED  BY <1>3, <1>4, <1>5, <1>6

\* One batch after another that observes and completes nothing.
LEMMA PlainThen ==
    ASSUME NEW types, NEW a, Batch(a, types, {}, {}), NEW b, NEW s, NEW d, Batch(b, types, s, d)
    PROVE  Batch(a \o b, types, s, d)
<1>1. Batch(a \o b, types, {} \cup s, {} \cup d)
  BY Joined
<1> QED  BY <1>1

\* A node and its run pause; a run pauses or is cancelled.
LEMMA StoppingBatches ==
    ASSUME NEW types, NEW n, NEW reason \in PauseKind, NEW k \in Control \cup {None}
    PROVE  /\ {"NodePaused", "RunPaused"} \subseteq types =>
                 Batch(PauseBoth(n, reason, k), types, {}, {k} \ {None})
           /\ "RunPaused" \in types => Batch(<<Paused(k)>>, types, {}, {k} \ {None})
           /\ "RunCancelled" \in types => Batch(<<Cancelled(k)>>, types, {}, {k} \ {None})
           /\ "ControlRequestObserved" \in types => Batch(<<Observed(k)>>, types, {k} \ {None}, {})
<1> USE DEF Typed, RunWide, RunOnly, NodeOnly, Asks, Answers, NamedBy
<1>1. "RunPaused" \in types => Batch(<<Paused(k)>>, types, {}, {k} \ {None})
  <2>1. Paused(k).type = "RunPaused" /\ Paused(k).control = k
    BY DEF Paused
  <2> QED  BY <2>1, OneEvent
<1>2. "RunCancelled" \in types => Batch(<<Cancelled(k)>>, types, {}, {k} \ {None})
  <2>1. Cancelled(k).type = "RunCancelled" /\ Cancelled(k).control = k
    BY DEF Cancelled
  <2> QED  BY <2>1, OneEvent
<1>3. "ControlRequestObserved" \in types => Batch(<<Observed(k)>>, types, {k} \ {None}, {})
  <2>1. Observed(k).type = "ControlRequestObserved" /\ Observed(k).control = k
    BY DEF Observed
  <2> QED  BY <2>1, OneEvent
<1>4. ASSUME {"NodePaused", "RunPaused"} \subseteq types
      PROVE  Batch(PauseBoth(n, reason, k), types, {}, {k} \ {None})
  <2> DEFINE e == Because("NodePaused", n, reason)
  <2>1. e.type = "NodePaused" /\ e.reason = reason
    BY DEF Because
  <2> HIDE DEF e
  <2>2. Plain(e, types)
    BY <1>4, <2>1 DEF Plain
  <2>3. Batch(<<e>>, types, {}, {})
    BY <2>2, PlainEvents
  <2>4. <<e, Paused(k)>> = <<e>> \o <<Paused(k)>>
    OBVIOUS
  <2>5. Batch(<<e>> \o <<Paused(k)>>, types, {}, {k} \ {None})
    BY <1>1, <1>4, <2>3, PlainThen
  <2> QED  BY <2>4, <2>5 DEF PauseBoth, e
<1> QED  BY <1>1, <1>2, <1>3, <1>4

\* A typed batch leaves a typed run; what none of its events changes stays.
LEMMA BatchEffect ==
    ASSUME NEW r \in Run, NEW batch, NEW types, NEW seen, NEW done, Batch(batch, types, seen, done),
           NEW s \in Materialized(r, batch)
    PROVE  /\ s \in Run
           /\ types \cap RunWide = {} => s.status = r.status
           /\ types \cap Starting = {} => StartsNothing(r, s)
           /\ "RunBlocked" \notin types /\ s.status = "blocked" => r.status = "blocked"
<1> USE DEF Batch
<1>1. s \in Run
  <2>1. \A i \in 1..Len(batch) : \A t \in Run : Applied(t, batch[i]) \subseteq Run
    BY EventEffect
  <2> QED  BY <2>1, BatchPreserves
<1>2. ASSUME types \cap RunWide = {} PROVE s.status = r.status
  <2> DEFINE S == {t \in Run : t.status = r.status}
  <2>1. \A i \in 1..Len(batch) : \A t \in S : Applied(t, batch[i]) \subseteq S
    BY <1>2, EventEffect
  <2> QED  BY <2>1, BatchPreserves
<1>3. ASSUME types \cap Starting = {} PROVE StartsNothing(r, s)
  <2> DEFINE S == {t \in Run : StartsNothing(r, t)}
  <2>1. \A i \in 1..Len(batch) : \A t \in S : Applied(t, batch[i]) \subseteq S
    BY <1>3, EventEffect DEF StartsNothing
  <2>2. r \in S
    BY DEF StartsNothing
  <2> HIDE DEF S
  <2>3. s \in S
    BY <2>1, <2>2, BatchPreserves
  <2> QED  BY <2>3 DEF S
<1>4. ASSUME "RunBlocked" \notin types, r.status # "blocked" PROVE s.status # "blocked"
  <2> DEFINE S == {t \in Run : t.status # "blocked"}
  <2>1. \A i \in 1..Len(batch) : \A t \in S : Applied(t, batch[i]) \subseteq S
    BY <1>4, EventEffect
  <2> QED  BY <1>4, <2>1, BatchPreserves
<1> QED  BY <1>1, <1>2, <1>3, <1>4

\* The last event of a batch.
EndsIn(batch, e) == Len(batch) # 0 /\ batch[Len(batch)] = e

\* It is that of what the batch ends with.
LEMMA EndOfJoined ==
    ASSUME NEW a, NEW t1, NEW s1, NEW d1, Batch(a, t1, s1, d1),
           NEW b, NEW t2, NEW s2, NEW d2, Batch(b, t2, s2, d2), NEW e, EndsIn(b, e)
    PROVE  EndsIn(a \o b, e)
<1> DEFINE A == {a[i] : i \in 1..Len(a)}
           B == {b[i] : i \in 1..Len(b)}
<1> PICK c : c = a \o b
  OBVIOUS
<1>1. a \in Seq(A \cup B) /\ b \in Seq(A \cup B)
  BY DEF Batch
<1> HIDE DEF A, B
<1>2. /\ Len(c) = Len(a) + Len(b) /\ Len(a) \in Nat /\ Len(b) \in Nat
      /\ \A i \in 1..Len(c) : c[i] = IF i <= Len(a) THEN a[i] ELSE b[i - Len(a)]
  BY <1>1
<1>3. Len(b) # 0 /\ b[Len(b)] = e
  BY DEF EndsIn
<1>4. EndsIn(c, e)
  BY <1>2, <1>3 DEF EndsIn
<1> QED  BY <1>4

\* A batch of one event.
LEMMA EndOfOne == ASSUME NEW e PROVE EndsIn(<<e>>, e)
BY DEF EndsIn

\* The last event of a batch finds a typed run.
LEMMA LastOfBatch ==
    ASSUME NEW r \in Run, NEW b, NEW types, NEW seen, NEW done, Batch(b, types, seen, done),
           NEW e, EndsIn(b, e), NEW s \in Materialized(r, b)
    PROVE  \E t \in Run : s \in Applied(t, e)
<1>1. Len(b) # 0 /\ b[Len(b)] = e
  BY DEF EndsIn
<1>2. \A i \in 1..Len(b) : \A t \in Run : Applied(t, b[i]) \subseteq Run
  BY EventEffect DEF Batch
<1>3. Len(b) \in Nat
  BY DEF Batch
<1>4. \E t \in Run : s \in Applied(t, b[Len(b)])
  BY <1>1, <1>2, <1>3, BatchPreserves
<1> QED  BY <1>1, <1>4

\* A terminal run accepts no batch but the empty one.
LEMMA TerminalRefuses ==
    ASSUME NEW r, r.status \in TerminalRun, NEW batch, batch # <<>>,
           NEW types, NEW seen, NEW done, Batch(batch, types, seen, done)
    PROVE  Materialized(r, batch) = {}
<1>1. \A e : Applied(r, e) = {}
  BY DEF Applied
<1> PICK S : S = {r}
  OBVIOUS
<1>2. Len(batch) \in Nat /\ Len(batch) # 0
  <2>1. PICK X : batch \in Seq(X)
    BY DEF Batch
  <2> QED  BY <2>1
<1>3. \A t \in Materialized(r, batch) : \E s \in S : t \in Applied(s, batch[Len(batch)])
  BY <1>1, <1>2, BatchPreserves
<1> QED  BY <1>1, <1>3

-----------------------------------------------------------------------------
(* Controls *)

\* The controls that were observed, and those of them that no run stopped for yet.
Acknowledged == {observed[i] : i \in DOMAIN observed}
Open == Acknowledged \ completed

\* Where a session stands that loaded the run and decided nothing yet; that cancels for a control;
\* that coordinates with no control in its way.
Reconciling == {"inspect", "terminate", "capture"}
Controlling == {"control", "controlled"}
Working == (Executing \ Controlling) \cup {"preflight", "prepare"}
Recovering == {"loaded", "recover", "orphaned"} \cup Reconciling

\* What a fresh session may rely on, by where it is: the control it acts on, the controls left open
\* and the run.
Known(place, k, open, r) ==
    /\ place \in Recovering \cup Controlling => open = {k} \ {None}
    /\ place \in Controlling => open # {}
    /\ place \in Working \cup {"continue", "resuming"} => open = {}
    /\ place = "schedule" => open = {} \/ r.status # "running"
    /\ place \in Working \cup Controlling => r.status = "running"
    /\ place \in Reconciling => Active(r) # {}
    /\ r.status = "blocked" => place \in {"schedule"} \cup Ending

\* A run that is paused keeps an acknowledged cancel only with an attempt to take up.
KeepsNoCancel(open, r) ==
    r.status = "paused" /\ (\E k \in open : ActionOf[k] = "cancel") => Active(r) \cup Orphaned(r) # {}

ControlTyped ==
    /\ run \in Run /\ view \in [Coord -> Run]
    /\ pending \subseteq Control /\ observed \in Seq(Control) /\ completed \subseteq Control
    /\ ctl \in [Coord -> Control \cup {None}]

Distinguished == pending \cap Acknowledged = {} /\ completed \subseteq Acknowledged
OneOpen == \A j, k \in Open : j = k
SessionKnows == \A c \in Coord : fresh[c] => Known(pc[c], ctl[c], Open, run)

\* A completed cancel cancelled the run.
CancelEnds == \A k \in completed : ActionOf[k] = "cancel" => run.status = "cancelled"

ControlInv ==
    /\ ControlTyped /\ Distinguished /\ OneOpen /\ SessionKnows
    /\ KeepsNoCancel(Open, run) /\ CancelEnds

\* outstandingObservedControl finds the open control.
LEMMA OutstandingIsOpen ==
    ASSUME ControlTyped
    PROVE  /\ Outstanding = None => Open = {}
           /\ Outstanding # None => Outstanding \in Open
<1> DEFINE open == {i \in DOMAIN observed : observed[i] \notin completed}
<1>1. Outstanding = IF open = {} THEN None ELSE observed[CHOOSE i \in open : \A j \in open : i <= j]
  BY DEF Outstanding
<1>2. open # {} => \E i \in open : \A j \in open : i <= j
  <2>1. open \in SUBSET Nat
    BY DEF ControlTyped
  <2> QED  BY <2>1, LeastNumber
<1>3. open # {} => (CHOOSE i \in open : \A j \in open : i <= j) \in open
  BY <1>2
<1>4. \A i \in DOMAIN observed : observed[i] # None
  BY CoordinatorConstants DEF ControlTyped
<1> QED  BY <1>1, <1>3, <1>4 DEF Open, Acknowledged

\* The empty batch changes nothing.
LEMMA EmptyBatch == ASSUME NEW r PROVE Materialized(r, <<>>) = {r}
<1>1. Len(<<>>) = 0
  OBVIOUS
<1>2. PICK f : Steps(f, r, <<>>, 0) /\ Materialized(r, <<>>) = f[0]
  BY <1>1, MaterializedSteps
<1>3. 0 \in 0..0
  OBVIOUS
<1>4. f[0] = {r}
  BY <1>2, <1>3, Zenon DEF Steps
<1> QED  BY <1>2, <1>4

\* What a session must know of a batch.
Accounted(c, batch, next, types, seen, done) ==
    /\ Batch(batch, types, seen, done)
    /\ types \cap Starting = {} \/ Open = {}
    /\ seen \subseteq pending /\ (seen # {} => Open = {}) /\ (\E k : seen \subseteq {k})
    /\ done \subseteq Acknowledged \cup seen
    /\ \A s \in Materialized(view[c], batch) \cap Run :
          /\ Known(next, ctl'[c], (Open \cup seen) \ done, s)
          /\ KeepsNoCancel((Open \cup seen) \ done, s)
          /\ \A k \in done : ActionOf[k] = "cancel" => s.status = "cancelled"

\* No control is lost, and none is taken up again.
ControlsRemain ==
    /\ pending \cup Acknowledged \subseteq pending' \cup Acknowledged'
    /\ Acknowledged \subseteq Acknowledged' /\ completed \subseteq completed'

\* What a step must establish.
ControlStep ==
    /\ ControlInv' /\ ControlsRemain
    /\ Open # {} => StartsNothing(run, run')
    /\ run.status \in TerminalRun => run' = run

\* What a commit makes of the controls.
Stores(batch) ==
    LET seen == Named(batch, {"ControlRequestObserved"})
    IN /\ observed' = IF seen = {} THEN observed ELSE Append(observed, CHOOSE k \in seen : TRUE)
       /\ pending' = pending \ seen
       /\ completed' = completed \cup Named(batch, {"RunPaused", "RunCancelled"})

\* A control that it observes is acknowledged, one that it completes no longer open.
LEMMA CommitControls ==
    ASSUME ControlInv, NEW batch, NEW seen, NEW done,
           seen = Named(batch, {"ControlRequestObserved"}),
           done = Named(batch, {"RunPaused", "RunCancelled"}),
           Stores(batch),
           seen \subseteq pending, seen # {} => Open = {}, \E k : seen \subseteq {k},
           done \subseteq Acknowledged \cup seen
    PROVE  /\ pending' \subseteq Control /\ observed' \in Seq(Control) /\ completed' \subseteq Control
           /\ Open' = (Open \cup seen) \ done
           /\ Distinguished' /\ OneOpen' /\ ControlsRemain
<1> USE DEF ControlInv, ControlTyped, Stores
<1>1. observed \in Seq(Control) /\ seen \subseteq Control
  OBVIOUS
<1>2. observed' \in Seq(Control) /\ Acknowledged' = Acknowledged \cup seen
  <2>1. CASE seen = {}
    BY <2>1 DEF Acknowledged
  <2>2. CASE seen # {}
    <3>0. Named(batch, {"ControlRequestObserved"}) # {}
      BY <2>2
    <3>1. PICK k \in Named(batch, {"ControlRequestObserved"}) :
            k = (CHOOSE j \in Named(batch, {"ControlRequestObserved"}) : TRUE)
      BY <3>0
    <3>2. seen = {k} /\ observed' = Append(observed, k)
      BY <3>0, <3>1
    <3>3. /\ observed' \in Seq(Control) /\ DOMAIN observed' = DOMAIN observed \cup {Len(observed) + 1}
          /\ \A i \in DOMAIN observed : observed'[i] = observed[i]
          /\ observed'[Len(observed) + 1] = k
      BY <1>1, <3>2
    <3> QED  BY <3>2, <3>3 DEF Acknowledged
  <2> QED  BY <2>1, <2>2
<1>3. pending' \subseteq Control /\ completed' \subseteq Control
  BY <1>1 DEF Acknowledged
<1>4. seen \cap completed = {}
  BY DEF Distinguished
<1>5. Open' = (Open \cup seen) \ done
  BY <1>2, <1>4 DEF Open
<1>6. Distinguished'
  BY <1>2 DEF Distinguished
<1>7. OneOpen'
  BY <1>5 DEF OneOpen
<1>8. ControlsRemain
  BY <1>2 DEF ControlsRemain
<1> QED  BY <1>2, <1>3, <1>5, <1>6, <1>7, <1>8

\* A step that stores nothing leaves the controls as they are.
LEMMA NothingStored ==
    ASSUME IInv, ControlInv, NEW c \in Coord, NEW place, pc' = [pc EXCEPT ![c] = place],
           UNCHANGED <<store, session>>, fresh[c] => Known(place, ctl'[c], Open, run),
           ctl' \in [Coord -> Control \cup {None}],
           \A d \in Coord \ {c} : ctl'[d] = ctl[d]
    PROVE  ControlStep
<1> USE DEF store, session
<1>1. Open' = Open /\ ControlTyped' /\ Distinguished' /\ OneOpen'
  BY DEF ControlInv, ControlTyped, Distinguished, OneOpen, Open, Acknowledged
<1>2. KeepsNoCancel(Open, run)' /\ CancelEnds' /\ StartsNothing(run, run') /\ ControlsRemain
  BY <1>1 DEF ControlInv, KeepsNoCancel, CancelEnds, StartsNothing, ControlsRemain, Acknowledged
<1>3. SessionKnows'
  <2> SUFFICES ASSUME NEW d \in Coord, fresh'[d] PROVE Known(pc'[d], ctl'[d], Open', run')
    BY DEF SessionKnows
  <2>1. fresh[d] /\ Open' = Open /\ run' = run /\ c \in DOMAIN pc
    BY <1>1 DEF IInv, SessionTyped
  <2>2. CASE d = c
    BY <2>1, <2>2
  <2>3. CASE d # c
    BY <2>1, <2>3 DEF ControlInv, SessionKnows
  <2> QED  BY <2>2, <2>3
<1> QED  BY <1>1, <1>2, <1>3 DEF ControlStep, ControlInv, store

\* A commit of a batch its session accounts for.
LEMMA CommitKnows ==
    ASSUME IInv, ControlInv, NEW c \in Coord, NEW batch, NEW next, Commit(c, batch, next),
           NEW types, NEW seen, NEW done, fresh[c] => Accounted(c, batch, next, types, seen, done),
           ctl' \in [Coord -> Control \cup {None}],
           \A d \in Coord \ {c} : ctl'[d] = ctl[d]
    PROVE  ControlStep
<1> USE DEF store, session, lease
<1> DEFINE after == (Open \cup seen) \ done
<1>1. ASSUME batch # <<>>, fresh[c], run' \in Materialized(view[c], batch),
             view' = [view EXCEPT ![c] = run'], fresh' = [d \in Coord |-> d = c],
             pc' = [pc EXCEPT ![c] = next],
             Stores(batch)
      PROVE  ControlStep
  <2>1. Accounted(c, batch, next, types, seen, done) /\ Batch(batch, types, seen, done)
    BY <1>1 DEF Accounted
  <2>2. Named(batch, {"ControlRequestObserved"}) = seen /\ Named(batch, {"RunPaused", "RunCancelled"}) = done
    BY <2>1 DEF Batch, Asks, Answers
  <2>3. /\ pending' \subseteq Control /\ observed' \in Seq(Control) /\ completed' \subseteq Control
        /\ Open' = after /\ Distinguished' /\ OneOpen' /\ ControlsRemain
    <3>1. /\ seen \subseteq pending /\ (seen # {} => Open = {}) /\ (\E k : seen \subseteq {k})
          /\ done \subseteq Acknowledged \cup seen
      BY <2>1 DEF Accounted
    <3> QED  BY <1>1, <2>2, <3>1, CommitControls
  <2>4. view[c] = run /\ run \in Run /\ DOMAIN pc = Coord
    BY <1>1 DEF IInv, FreshIsCurrent, ControlInv, ControlTyped, SessionTyped
  <2>5. run' \in Run /\ (types \cap Starting = {} => StartsNothing(run, run'))
    BY <1>1, <2>1, <2>4, BatchEffect
  <2>6. ControlTyped'
    BY <1>1, <2>3, <2>5 DEF ControlInv, ControlTyped
  <2>7. Known(next, ctl'[c], after, run') /\ KeepsNoCancel(after, run')
    BY <1>1, <2>1, <2>5 DEF Accounted
  <2>8. SessionKnows'
    BY <1>1, <2>3, <2>4, <2>7 DEF SessionKnows
  <2>9. Open # {} => StartsNothing(run, run')
    BY <2>1, <2>5 DEF Accounted
  <2>10. run.status \notin TerminalRun
    BY <1>1, <2>1, <2>4, TerminalRefuses
  <2>11. CancelEnds'
    <3>1. run.status # "cancelled"
      BY <2>10 DEF TerminalRun
    <3>2. completed' = completed \cup done
      BY <1>1, <2>2 DEF Stores
    <3>3. \A k \in done : ActionOf[k] = "cancel" => run'.status = "cancelled"
      BY <1>1, <2>1, <2>5 DEF Accounted
    <3> QED  BY <3>1, <3>2, <3>3 DEF ControlInv, CancelEnds
  <2> QED  BY <2>3, <2>6, <2>7, <2>8, <2>9, <2>10, <2>11 DEF ControlStep, ControlInv
<1>2. ASSUME pc' = [pc EXCEPT ![c] = next], UNCHANGED <<store, session>>, batch = <<>>
      PROVE  ControlStep
  <2>1. ASSUME fresh[c] PROVE Known(next, ctl'[c], Open, run)
    <3>1. Accounted(c, batch, next, types, seen, done) /\ Batch(batch, types, seen, done)
      BY <2>1 DEF Accounted
    <3>2. Named(batch, Asks) = {} /\ Named(batch, Answers) = {}
      BY <1>2, NoEvent DEF Batch
    <3>3. after = Open
      BY <3>1, <3>2 DEF Batch
    <3>4. run \in Run /\ run \in Materialized(view[c], batch)
      BY <1>2, <2>1, EmptyBatch DEF IInv, FreshIsCurrent, ControlInv, ControlTyped
    <3> QED  BY <3>1, <3>3, <3>4 DEF Accounted
  <2> QED  BY <1>2, <2>1, NothingStored
<1>3. ASSUME NEW place \in {"rejected", "failing"}, pc' = [pc EXCEPT ![c] = place],
             UNCHANGED <<store, session>>
      PROVE  ControlStep
  <2>1. Known(place, ctl'[c], Open, run)
    BY DEF Known, Recovering, Reconciling, Controlling, Working, Executing, Ending
  <2> QED  BY <1>3, <2>1, NothingStored
<1> QED  BY <1>1, <1>2, <1>3, Zenon DEF Commit, Stores

\* The places of a session are different ones.
LEMMA Places ==
    /\ Working \cap (Recovering \cup Controlling \cup Ending) = {}
    /\ Controlling \cap (Recovering \cup Ending) = {} /\ Recovering \cap Ending = {}
    /\ {"continue", "resuming", "schedule"} \cap (Working \cup Controlling \cup Recovering \cup Ending) = {}
    /\ Reconciling \subseteq Recovering
    /\ (Working \cup Controlling \cup Ending) \cap Outside = {}
    /\ {"succeeded", "complete", "preparing", "starting", "driving", "finishing", "timeout",
        "timedOut", "preflight", "prepare"} \subseteq Working
BY DEF Working, Controlling, Recovering, Reconciling, Executing, Ending, Outside

\* No control is open or about to be: the work goes on, or is given up for now.
LEMMA FreeCommit ==
    ASSUME IInv, ControlInv, NEW c \in Coord, NEW batch, NEW next, Commit(c, batch, next),
           UNCHANGED ctl,
           NEW types, Batch(batch, types, {}, {}),
           fresh[c] => Open = {},
           \/ next = "schedule"
           \/ next \in Working /\ types \cap RunWide = {} /\ (fresh[c] => run.status = "running")
           \/ /\ next \in {"continue", "resuming"} /\ "RunBlocked" \notin types
              /\ fresh[c] => run.status # "blocked"
    PROVE  ControlStep
<1>1. ASSUME fresh[c] PROVE Accounted(c, batch, next, types, {}, {})
  <2>1. view[c] = run /\ run \in Run
    BY <1>1 DEF IInv, FreshIsCurrent, ControlInv, ControlTyped
  <2>2. ASSUME NEW s \in Materialized(view[c], batch) \cap Run
        PROVE  Known(next, ctl'[c], {}, s) /\ KeepsNoCancel({}, s)
    <3>1. KeepsNoCancel({}, s)
      BY DEF KeepsNoCancel
    <3>2. CASE next = "schedule"
      BY <3>1, <3>2, Places DEF Known
    <3>3. CASE next \in Working /\ types \cap RunWide = {} /\ run.status = "running"
      <4>1. s.status = "running"
        BY <2>1, <3>3, BatchEffect
      <4> QED  BY <3>1, <3>3, <4>1, Places DEF Known
    <3>4. CASE next \in {"continue", "resuming"} /\ "RunBlocked" \notin types /\ run.status # "blocked"
      <4>1. s.status # "blocked"
        BY <2>1, <3>4, BatchEffect
      <4> QED  BY <3>1, <3>4, <4>1, Places DEF Known
    <3> QED  BY <1>1, <3>2, <3>3, <3>4
  <2> QED  BY <1>1, <2>2 DEF Accounted
<1>2. ctl' \in [Coord -> Control \cup {None}]
  BY DEF ControlInv, ControlTyped
<1> QED  BY <1>1, <1>2, CommitKnows

\* The control that was open, or that the batch observes, is completed by it. A pause that finds
\* the run paused may stay open.
Answered(next, batch, types, seen, done) ==
    /\ Batch(batch, types, seen, done)
    /\ types \cap Starting = {}
    /\ seen \subseteq pending /\ (seen # {} => Open = {}) /\ (\E k : seen \subseteq {k})
    /\ done \subseteq Acknowledged \cup seen
    /\ \/ next = "schedule" /\ (Open \cup seen) \ done = {}
       \/ next = "returning" /\ \A k \in (Open \cup seen) \ done : ActionOf[k] = "pause"
    /\ \A k \in done : ActionOf[k] = "cancel" => EndsIn(batch, Cancelled(k))

\* After that the session ends, or schedules and finds the run stopped.
LEMMA AnsweringCommit ==
    ASSUME IInv, ControlInv, NEW c \in Coord, NEW batch, NEW next, Commit(c, batch, next),
           ctl' \in [Coord -> Control \cup {None}], \A d \in Coord \ {c} : ctl'[d] = ctl[d],
           NEW types, NEW seen, NEW done, fresh[c] => Answered(next, batch, types, seen, done)
    PROVE  ControlStep
<1>1. ASSUME fresh[c] PROVE Accounted(c, batch, next, types, seen, done)
  <2> DEFINE after == (Open \cup seen) \ done
  <2>0. Answered(next, batch, types, seen, done)
    BY <1>1
  <2>1. ASSUME NEW s PROVE Known(next, ctl'[c], after, s) /\ KeepsNoCancel(after, s)
    <3>1. KeepsNoCancel(after, s)
      BY <2>0 DEF KeepsNoCancel, Answered
    <3>2. next = "returning" => next \in Ending
      BY DEF Ending
    <3> QED  BY <2>0, <3>1, <3>2, Places DEF Known, Answered
  <2>2. ASSUME NEW s \in Materialized(view[c], batch), NEW k \in done, ActionOf[k] = "cancel"
        PROVE  s.status = "cancelled"
    <3>1. EndsIn(batch, Cancelled(k)) /\ Batch(batch, types, seen, done)
      BY <2>0, <2>2 DEF Answered
    <3>2. view[c] \in Run
      BY DEF ControlInv, ControlTyped
    <3>3. PICK t \in Run : s \in Applied(t, Cancelled(k))
      BY <3>1, <3>2, LastOfBatch
    <3>4. s = [t EXCEPT !.status = "cancelled"]
      BY <3>3 DEF Applied, Cancelled, RunCancelled, When
    <3> QED  BY <3>4 DEF Run
  <2> QED  BY <2>0, <2>1, <2>2 DEF Accounted, Answered
<1> QED  BY <1>1, CommitKnows

\* The last event blocks the run for recovery.
LEMMA BlockingCommit ==
    ASSUME IInv, ControlInv, NEW c \in Coord, NEW a, NEW e, NEW next,
           Commit(c, a \o <<e>>, next), UNCHANGED ctl,
           NEW types, types \cap Starting = {}, Batch(a, types, {}, {}),
           Typed(e), e.type = "RunRecoveryBlocked", e.type \in types,
           next \in {"schedule", "returning"} \/ (next = "continue" /\ (fresh[c] => Open = {}))
    PROVE  ControlStep
<1>0. PICK batch : batch = a \o <<e>>
  OBVIOUS
<1>1. Batch(batch, types, {}, {})
  <2>1. Plain(e, types)
    BY DEF Plain, Asks, Answers
  <2>2. Batch(<<e>>, types, {}, {})
    BY <2>1, PlainEvents
  <2> QED  BY <1>0, <2>2, PlainThen
<1>2. EndsIn(batch, e)
  <2>1. Batch(<<e>>, types, NamedBy(e, Asks), NamedBy(e, Answers))
    BY OneEvent
  <2> QED  BY <1>0, <2>1, EndOfOne, EndOfJoined
<1>3. ASSUME fresh[c] PROVE Accounted(c, batch, next, types, {}, {})
  <2>1. view[c] = run /\ run \in Run
    BY <1>3 DEF IInv, FreshIsCurrent, ControlInv, ControlTyped
  <2>2. ASSUME NEW s \in Materialized(view[c], batch) \cap Run
        PROVE  Known(next, ctl'[c], Open, s) /\ KeepsNoCancel(Open, s)
    <3>1. PICK t \in Run : s \in Applied(t, e)
      BY <1>1, <1>2, <2>1, LastOfBatch
    <3>2. s = [t EXCEPT !.status = "recovery-blocked"]
      BY <3>1 DEF Applied, RunRecoveryBlocked, When
    <3>3. s.status = "recovery-blocked"
      BY <3>2 DEF Run
    <3>4. KeepsNoCancel(Open, s)
      BY <3>3 DEF KeepsNoCancel
    <3>5. next = "returning" => next \in Ending
      BY DEF Ending
    <3> QED  BY <1>3, <3>3, <3>4, <3>5, Places DEF Known
  <2>3. {} \subseteq {None}
    OBVIOUS
  <2> QED  BY <1>1, <2>2, <2>3 DEF Accounted
<1>4. ctl' \in [Coord -> Control \cup {None}]
  BY DEF ControlInv, ControlTyped
<1> QED  BY <1>0, <1>3, <1>4, CommitKnows

\* A step of a session that stores nothing.
LEMMA MovesKnows ==
    ASSUME IInv, ControlInv, NEW c \in Coord, NEW next, Moves(c, next), UNCHANGED ctl,
           fresh[c] => Known(next, ctl[c], Open, run)
    PROVE  ControlStep
<1>1. ctl' \in [Coord -> Control \cup {None}]
  BY DEF ControlInv, ControlTyped
<1> QED  BY <1>1, NothingStored DEF Moves

\* Whoever leaves, or was never there.
LEMMA OutsideKnows ==
    ASSUME IInv, ControlInv, UNCHANGED <<run, observed, completed>>,
           pending \subseteq pending', pending' \subseteq Control,
           pending' \cap Acknowledged = {},
           \/ \E c \in Coord : Gone(c)
           \/ UNCHANGED <<session, pc, ctl>>
    PROVE  ControlStep
<1>1. Open' = Open /\ Distinguished' /\ OneOpen'
  BY DEF ControlInv, Distinguished, OneOpen, Open, Acknowledged
<1>2. KeepsNoCancel(Open, run)' /\ CancelEnds' /\ StartsNothing(run, run') /\ ControlsRemain
  BY <1>1 DEF ControlInv, KeepsNoCancel, CancelEnds, StartsNothing, ControlsRemain, Acknowledged
<1>3. ControlTyped' /\ SessionKnows'
  <2>1. CASE UNCHANGED <<session, pc, ctl>>
    BY <1>1, <2>1 DEF ControlInv, ControlTyped, SessionKnows, session
  <2>2. ASSUME NEW c \in Coord, Gone(c) PROVE ControlTyped' /\ SessionKnows'
    <3>1. CreatedRun \in Run
      BY DEF CreatedRun, Run, RunStatus, NodeState, NodeStatus, Attempt, NoAttempt
    <3>2. ControlTyped'
      BY <2>2, <3>1 DEF Gone, ControlInv, ControlTyped
    <3>3. ASSUME NEW d \in Coord, fresh'[d] PROVE Known(pc'[d], ctl'[d], Open', run')
      <4>1. d # c /\ fresh[d] /\ pc'[d] = pc[d] /\ ctl'[d] = ctl[d]
        BY <2>2, <3>3 DEF Gone, IInv, SessionTyped, ControlInv, ControlTyped
      <4> QED  BY <1>1, <4>1 DEF ControlInv, SessionKnows
    <3> QED  BY <3>2, <3>3 DEF SessionKnows
  <2> QED  BY <2>1, <2>2
<1> QED  BY <1>1, <1>2, <1>3 DEF ControlStep, ControlInv

\* Who loads the run finds its open control, if there is one.
LEMMA LoadKnows ==
    ASSUME IInv, ControlInv, NEW c \in Coord, Load(c)
    PROVE  ControlStep
<1> USE DEF Load, store
<1>1. Open' = Open /\ Distinguished' /\ OneOpen'
  BY DEF ControlInv, Distinguished, OneOpen, Open, Acknowledged
<1>2. KeepsNoCancel(Open, run)' /\ CancelEnds' /\ StartsNothing(run, run') /\ ControlsRemain
  BY <1>1 DEF ControlInv, KeepsNoCancel, CancelEnds, StartsNothing, ControlsRemain, Acknowledged
<1>3. Open = {Outstanding} \ {None} /\ Outstanding \in Control \cup {None}
  <2>1. None \notin Open /\ Open \subseteq Control
    BY CoordinatorConstants DEF ControlInv, ControlTyped, Open, Acknowledged
  <2>2. /\ Outstanding = None => Open = {}
        /\ Outstanding # None => Outstanding \in Open
    BY OutstandingIsOpen DEF ControlInv
  <2>3. \A j, k \in Open : j = k
    BY DEF ControlInv, OneOpen
  <2> QED  BY <2>1, <2>2, <2>3
<1>4. ControlTyped'
  BY <1>3 DEF ControlInv, ControlTyped, ActsOn, world
<1>5. ASSUME NEW d \in Coord, fresh'[d] PROVE Known(pc'[d], ctl'[d], Open', run')
  <2>1. CASE d = c
    <3>1. pc'[d] = "loaded" /\ ctl'[d] = Outstanding
      BY <2>1 DEF IInv, SessionTyped, ControlInv, ControlTyped, ActsOn
    <3>2. "loaded" \in Recovering \ Reconciling
      BY DEF Recovering, Reconciling
    <3> QED  BY <1>1, <1>3, <3>1, <3>2, Places DEF Known, Settled
  <2>2. CASE d # c
    <3>1. fresh[d] /\ pc'[d] = pc[d] /\ ctl'[d] = ctl[d]
      BY <1>5, <2>2 DEF IInv, SessionTyped, ControlInv, ControlTyped, ActsOn
    <3> QED  BY <1>1, <3>1 DEF ControlInv, SessionKnows
  <2> QED  BY <2>1, <2>2
<1> QED  BY <1>1, <1>2, <1>4, <1>5 DEF ControlStep, ControlInv, SessionKnows

-----------------------------------------------------------------------------
(* The batches of a session *)

\* What the events of a batch may be: of a run that goes on without a new attempt, of one that goes
\* on, of one that stops for anything but blocked work, of one that stops.
Loud == RunOnly \cup NodeOnly
Quiet == Loud \ Starting
Halting == (Loud \cup RunWide) \ Starting
Closing == Halting \ {"RunBlocked"}

\* How these relate.
LEMMA TypeSets ==
    /\ Quiet \cap (Starting \cup RunWide) = {} /\ Loud \cap RunWide = {}
    /\ Halting \cap Starting = {} /\ Closing \cap Starting = {} /\ "RunBlocked" \notin Closing
    /\ Quiet \subseteq Closing /\ Closing \subseteq Halting
    /\ {"NodeReady", "ControlRequestObserved"} \subseteq Quiet
    /\ {"NodePaused", "RunPaused", "RunCancelled", "NodeCancelled", "NodeBlocked", "RunResumed"}
         \subseteq Closing
    /\ {"RunCompleted", "RunRecoveryBlocked"} \subseteq Closing
    /\ {"NodeCancelled", "NodeBlocked", "NodeReady"} \subseteq Quiet
BY DEF Loud, Quiet, Halting, Closing, RunOnly, NodeOnly, RunWide, Starting

\* The events of the coordinator are typed.
LEMMA TypedEvents ==
    ASSUME NEW v, NEW n, NEW k, NEW x
    PROVE  /\ \A type \in {"ArtifactProduced", "WorkspaceObserved", "AttemptSucceeded", "AttemptBlocked",
                           "AttemptCancelled", "AttemptTimeoutRequested"} :
                 Plain(AttemptEvent(v, type, n), Quiet)
           /\ Plain(AttemptEvent(v, "AttemptStartAuthorized", n), Loud)
           /\ \A type \in {"NodeSucceeded", "NodeFailed", "NodeBlocked"} : Plain(NodeEvent(type, n), Quiet)
           /\ \A reason : Plain(Because("NodeReady", n, reason), Quiet)
           /\ \A cause \in Cause, outcome \in CleanupOutcome : Plain(Cleanup(v, n, cause, outcome), Quiet)
           /\ \A outcome \in CancellationOutcome : Plain(CancellationCompleted(v, n, outcome), Quiet)
           /\ Plain([type |-> "AttemptFailed", node |-> n, attempt |-> k, exhausted |-> x], Quiet)
           /\ \A differs \in BOOLEAN :
                 Plain([type |-> "AttemptOrphaned", node |-> n, attempt |-> k, differs |-> differs], Quiet)
           /\ Plain(RunEvent("RuntimeNegotiated"), Quiet)
           /\ Plain(RunEvent("RunBlocked"), Halting)
           /\ \A outcome \in {"succeeded", "failed"} :
                 Plain([type |-> "RunCompleted", outcome |-> outcome], Closing)
           /\ Plain(Resumed, Closing)
           /\ \A kind : Plain(RecoveryBlocked(v, n, kind), Closing)
<1> USE DEF Plain, Typed, RunWide, RunOnly, NodeOnly, Starting, Asks, Answers, Loud, Quiet, Halting,
            Closing
<1>1. \A type \in {"ArtifactProduced", "WorkspaceObserved", "AttemptSucceeded", "AttemptBlocked",
                   "AttemptCancelled", "AttemptTimeoutRequested"} :
         Plain(AttemptEvent(v, type, n), Quiet)
  BY DEF AttemptEvent
<1>2. Plain(AttemptEvent(v, "AttemptStartAuthorized", n), Loud)
  BY DEF AttemptEvent
<1>3. \A type \in {"NodeSucceeded", "NodeFailed", "NodeBlocked"} : Plain(NodeEvent(type, n), Quiet)
  BY DEF NodeEvent
<1>4. \A reason : Plain(Because("NodeReady", n, reason), Quiet)
  BY DEF Because
<1>5. \A cause \in Cause, outcome \in CleanupOutcome : Plain(Cleanup(v, n, cause, outcome), Quiet)
  BY DEF Cleanup
<1>6. \A outcome \in CancellationOutcome : Plain(CancellationCompleted(v, n, outcome), Quiet)
  BY DEF CancellationCompleted
<1>7. Plain([type |-> "AttemptFailed", node |-> n, attempt |-> k, exhausted |-> x], Quiet)
  OBVIOUS
<1>8. \A differs \in BOOLEAN :
         Plain([type |-> "AttemptOrphaned", node |-> n, attempt |-> k, differs |-> differs], Quiet)
  OBVIOUS
<1>9. Plain(RunEvent("RuntimeNegotiated"), Quiet) /\ Plain(RunEvent("RunBlocked"), Halting)
  BY DEF RunEvent
<1>10. \A outcome \in {"succeeded", "failed"} :
          Plain([type |-> "RunCompleted", outcome |-> outcome], Closing)
  OBVIOUS
<1>11. Plain(Resumed, Closing)
  BY DEF Resumed
<1>12. \A kind : Plain(RecoveryBlocked(v, n, kind), Closing)
  BY DEF RecoveryBlocked
<1> HIDE DEF Plain
<1> QED  BY <1>1, <1>2, <1>3, <1>4, <1>5, <1>6, <1>7, <1>8, <1>9, <1>10, <1>11, <1>12

\* What is typed for fewer types is for more.
LEMMA Wider ==
    ASSUME NEW batch, NEW S, NEW T, S \subseteq T, NEW seen, NEW done
    PROVE  /\ Batch(batch, S, seen, done) => Batch(batch, T, seen, done)
           /\ Plain(batch, S) => Plain(batch, T)
BY DEF Batch, Plain

\* A failure: the conflict of its workspace, a retry, or the end of the run.
LEMMA FailureEvents ==
    ASSUME NEW v, NEW n, NEW exhausted
    PROVE  Batch(FailureBatch(v, n, exhausted), Closing, {}, {})
<1> DEFINE e == [type |-> "AttemptFailed", node |-> n, attempt |-> v.nodes[n].attempts,
                 exhausted |-> exhausted]
           last == [type |-> "RunCompleted", outcome |-> "failed"]
<1>1. Plain(e, Closing) /\ Plain(last, Closing) /\ Plain(NodeEvent("NodeFailed", n), Closing)
      /\ Plain(Because("NodeReady", n, "retry"), Closing)
  <2>1. Plain(e, Quiet)
    BY TypedEvents
  <2>2. Plain(last, Closing)
    BY TypedEvents
  <2>3. Plain(NodeEvent("NodeFailed", n), Quiet) /\ Plain(Because("NodeReady", n, "retry"), Quiet)
    BY TypedEvents
  <2>4. Quiet \subseteq Closing
    BY TypeSets
  <2> HIDE DEF e, last
  <2> QED  BY <2>1, <2>2, <2>3, <2>4, Wider
<1> HIDE DEF e, last
<1>2. Batch(PauseBoth(n, "workspace-conflict", None), Closing, {}, {})
  <2>1. Batch(PauseBoth(n, "workspace-conflict", None), Closing, {}, {None} \ {None})
    BY StoppingBatches, TypeSets DEF PauseKind
  <2> QED  BY <2>1
<1>3. Batch(<<Because("NodeReady", n, "retry")>>, Closing, {}, {})
  BY <1>1, PlainEvents
<1>4. Batch(<<NodeEvent("NodeFailed", n)>> \o BlockOthers(v, n) \o <<last>>, Closing, {}, {})
  <2>1. Batch(<<NodeEvent("NodeFailed", n)>>, Closing, {}, {}) /\ Batch(<<last>>, Closing, {}, {})
    BY <1>1, PlainEvents
  <2>2. Batch(BlockOthers(v, n), Closing, {}, {})
    BY NodeBatches, TypeSets
  <2>3. Batch(<<NodeEvent("NodeFailed", n)>> \o BlockOthers(v, n), Closing, {}, {})
    BY <2>1, <2>2, PlainThen
  <2> QED  BY <2>1, <2>3, PlainThen
<1>5. Batch(<<e>>, Closing, {}, {})
  BY <1>1, PlainEvents
<1> DEFINE rest == IF Changed(n) THEN PauseBoth(n, "workspace-conflict", None)
                   ELSE IF BudgetLeft(v, n) THEN <<Because("NodeReady", n, "retry")>>
                   ELSE <<NodeEvent("NodeFailed", n)>> \o BlockOthers(v, n) \o <<last>>
<1>6. Batch(rest, Closing, {}, {})
  BY <1>2, <1>3, <1>4
<1> HIDE DEF rest
<1>7. Batch(<<e>> \o rest, Closing, {}, {})
  BY <1>5, <1>6, PlainThen
<1> QED  BY <1>7 DEF FailureBatch, e, rest, last

\* A control at a boundary is observed and completed, except a pause of a run that is paused.
LEMMA BoundaryEvents ==
    ASSUME NEW v, NEW k \in Control, NEW observe \in BOOLEAN
    PROVE  /\ Batch(BoundaryBatch(v, k, observe), Closing, IF observe THEN {k} ELSE {},
                    IF ActionOf[k] = "cancel" \/ v.status # "paused" THEN {k} ELSE {})
           /\ ActionOf[k] = "cancel" => EndsIn(BoundaryBatch(v, k, observe), Cancelled(k))
<1> DEFINE a == IF observe THEN <<Observed(k)>> ELSE <<>>
           b == IF ActionOf[k] = "cancel" THEN CancelNodes(v) \o <<Cancelled(k)>>
                ELSE IF v.status # "paused" THEN <<Paused(k)>> ELSE <<>>
           seen == IF observe THEN {k} ELSE {}
           done == IF ActionOf[k] = "cancel" \/ v.status # "paused" THEN {k} ELSE {}
<1>1. {k} \ {None} = {k}
  BY CoordinatorConstants
<1>2. /\ Batch(<<Observed(k)>>, Closing, {k}, {})
      /\ Batch(<<Cancelled(k)>>, Closing, {}, {k})
      /\ Batch(<<Paused(k)>>, Closing, {}, {k})
  <2>1. {"ControlRequestObserved", "RunCancelled", "RunPaused"} \subseteq Closing
    BY TypeSets
  <2> PICK none : none = {k} \ {None}
    OBVIOUS
  <2>2. "operator" \in PauseKind
    BY DEF PauseKind
  <2>3. /\ Batch(<<Observed(k)>>, Closing, none, {})
        /\ Batch(<<Cancelled(k)>>, Closing, {}, none)
        /\ Batch(<<Paused(k)>>, Closing, {}, none)
    BY <2>1, <2>2, StoppingBatches
  <2> QED  BY <1>1, <2>3
<1>3. Batch(<<>>, Closing, {}, {})
  BY NoEvent
<1>4. /\ Batch(CancelNodes(v) \o <<Cancelled(k)>>, Closing, {}, {k})
      /\ EndsIn(CancelNodes(v) \o <<Cancelled(k)>>, Cancelled(k))
  <2>1. Batch(CancelNodes(v), Closing, {}, {})
    BY NodeBatches, TypeSets
  <2> QED  BY <1>2, <2>1, PlainThen, EndOfOne, EndOfJoined
<1>5. Batch(a, Closing, seen, {}) /\ Batch(b, Closing, {}, done)
  BY <1>2, <1>3, <1>4
<1>6. ActionOf[k] = "cancel" => EndsIn(b, Cancelled(k))
  BY <1>4
<1> HIDE DEF a, b, seen, done
<1>7. Batch(a \o b, Closing, seen \cup {}, {} \cup done)
  BY <1>5, Joined
<1>8. seen \cup {} = seen /\ {} \cup done = done
  OBVIOUS
<1>9. Batch(a \o b, Closing, seen, done)
  BY <1>7, <1>8
<1>10. ActionOf[k] = "cancel" => EndsIn(a \o b, Cancelled(k))
  BY <1>5, <1>6, EndOfJoined
<1> QED  BY <1>9, <1>10 DEF BoundaryBatch, a, b, seen, done

-----------------------------------------------------------------------------
(* Recovery and the controls *)

\* What a fresh session knows when it takes its next step.
LEMMA FreshKnows ==
    ASSUME IInv, ControlInv, NEW c \in Coord, fresh[c]
    PROVE  /\ view[c] = run /\ run \in Run /\ Known(pc[c], ctl[c], Open, run)
           /\ pc[c] \in Recovering \cup Controlling /\ ctl[c] = None => Open = {}
           /\ pc[c] \in Recovering \cup Controlling /\ ctl[c] # None => Open = {ctl[c]}
           /\ pc[c] \in Working \cup {"continue", "resuming"} => Open = {}
           /\ pc[c] \in Working \cup Controlling => run.status = "running"
           /\ pc[c] \in Recovering \cup {"continue", "resuming"} => run.status # "blocked"
<1>1. view[c] = run /\ run \in Run /\ Known(pc[c], ctl[c], Open, run)
  BY DEF IInv, FreshIsCurrent, ControlInv, ControlTyped, SessionKnows
<1>2. "schedule" \notin Recovering \cup {"continue", "resuming"}
      /\ Ending \cap (Recovering \cup {"continue", "resuming"}) = {}
  BY DEF Recovering, Reconciling, Ending
<1> QED  BY <1>1, <1>2 DEF Known

\* ctl is typed, whatever a step makes of it.
LEMMA StillTyped ==
    ASSUME ControlInv
    PROVE  /\ UNCHANGED task => UNCHANGED ctl
           /\ \A c \in Coord, k \in Control \cup {None} :
                 ActsOn(c, k) => /\ ctl' \in [Coord -> Control \cup {None}] /\ ctl'[c] = k
                                 /\ \A d \in Coord \ {c} : ctl'[d] = ctl[d]
           /\ pending \subseteq Control /\ ctl \in [Coord -> Control \cup {None}]
BY DEF ControlInv, ControlTyped, world, task, ActsOn

\* The first node of a set in authored order.
LEMMA FirstIsMember ==
    ASSUME NEW S \in SUBSET Node, S # {}
    PROVE  First(S) \in S
<1> DEFINE P == {i \in DOMAIN Order : Order[i] \in S}
           first == CHOOSE i \in DOMAIN Order : Order[i] \in S /\ \A j \in 1..(i - 1) : Order[j] \notin S
<1>1. Order \in Seq(Node) /\ \A n \in Node : \E i \in DOMAIN Order : Order[i] = n
  BY CoordinatorConstants
<1>2. P \in SUBSET Nat /\ P # {} /\ \A i \in P : 1..(i - 1) \subseteq DOMAIN Order
  BY <1>1
<1>3. PICK i \in P : \A j \in P : i <= j
  BY <1>2, LeastNumber
<1>4. \A j \in 1..(i - 1) : Order[j] \notin S
  BY <1>2, <1>3
<1>5. first \in DOMAIN Order /\ Order[first] \in S
  BY <1>3, <1>4
<1> QED  BY <1>5 DEF First

\* One event.
LEMMA Single ==
    ASSUME NEW r, NEW e
    PROVE  Materialized(r, <<e>>) = Applied(r, e)
<1> PICK b : b = <<e>>
  OBVIOUS
<1>1. Len(b) = 1 /\ b[1] = e
  OBVIOUS
<1>2. PICK f : Steps(f, r, b, 1) /\ Materialized(r, b) = f[1]
  BY <1>1, MaterializedSteps
<1>3. f[0] = {r} /\ f[1] = UNION {Applied(s, b[1]) : s \in f[0]}
  <2>1. 0 \in 0..1 /\ 1 \in 0..1 /\ 1 # 0 /\ 1 - 1 = 0
    OBVIOUS
  <2> QED  BY <1>2, <2>1, Zenon DEF Steps
<1> QED  BY <1>1, <1>2, <1>3

-----------------------------------------------------------------------------
\* A control is observed by a session that knows of none.
LEMMA ObservingCommit ==
    ASSUME IInv, ControlInv, NEW c \in Coord, NEW k \in pending, NEW next,
           Commit(c, <<Observed(k)>>, next), UNCHANGED world, ActsOn(c, k),
           fresh[c] =>
              /\ Open = {}
              /\ \/ next \in Controlling /\ run.status = "running"
                 \/ next = "inspect" /\ Active(run) # {} /\ run.status # "blocked"
    PROVE  ControlStep
<1>1. k \in Control /\ {k} \ {None} = {k}
  BY StillTyped, CoordinatorConstants
<1>2. Batch(<<Observed(k)>>, Quiet, {k}, {})
  <2> PICK none : none = {k} \ {None}
    OBVIOUS
  <2>1. "operator" \in PauseKind
    BY DEF PauseKind
  <2>2. Batch(<<Observed(k)>>, Quiet, none, {})
    BY <1>1, <2>1, StoppingBatches, TypeSets
  <2> QED  BY <1>1, <2>2
<1>3. ASSUME fresh[c] PROVE Accounted(c, <<Observed(k)>>, next, Quiet, {k}, {})
  <2>1. view[c] = run
    BY <1>3, FreshKnows
  <2>2. ASSUME NEW s \in Materialized(view[c], <<Observed(k)>>)
        PROVE  Known(next, ctl'[c], {k}, s) /\ KeepsNoCancel({k}, s)
    <3>1. s \in Applied(run, Observed(k))
      BY <2>1, Single
    <3>2. s = run
      BY <3>1 DEF Applied, Observed, ControlRequestObserved
    <3>3. ctl'[c] = k
      BY <1>1, StillTyped
    <3>4. KeepsNoCancel({k}, s)
      BY <1>3, <3>2 DEF KeepsNoCancel
    <3>5. "inspect" \in Recovering
      BY DEF Recovering, Reconciling
    <3> QED  BY <1>1, <1>3, <3>2, <3>3, <3>4, <3>5, Places DEF Known
  <2>3. Quiet \cap Starting = {}
    BY TypeSets
  <2>4. {k} \subseteq pending /\ {} \subseteq Acknowledged \cup {k} /\ (Open \cup {k}) \ {} = {k}
    BY <1>3
  <2> QED  BY <1>2, <1>3, <2>2, <2>3, <2>4 DEF Accounted
<1> QED  BY <1>1, <1>3, CommitKnows, StillTyped

\* coordinateRecovered reconciles a run with an attempt under way.
LEMMA BeginReconcilingKnows ==
    ASSUME IInv, ControlInv, NEW c \in Coord, BeginReconciling(c)
    PROVE  ControlStep
<1> USE StillTyped, FreshKnows DEF BeginReconciling, At
<1>1. "recover" \in Recovering /\ "inspect" \in Recovering
      /\ "inspect" \notin Controlling \cup Working \cup {"continue", "resuming", "schedule"}
  BY Places DEF Recovering, Reconciling
<1>2. fresh[c] => Active(run) # {} /\ Known("recover", ctl[c], Open, run)
  OBVIOUS
<1>4. CASE ctl[c] # None /\ Moves(c, "inspect") /\ UNCHANGED task
  <2>1. fresh[c] => Known("inspect", ctl[c], Open, run)
    BY <1>1, <1>2 DEF Known
  <2> QED  BY <1>4, <2>1, MovesKnows
<1>5. ASSUME ctl[c] = None, ActsOn(c, None), Moves(c, "inspect") PROVE ControlStep
  <2>1. fresh[c] => Known("inspect", None, Open, run)
    BY <1>1, <1>2, <1>5 DEF Known
  <2>2. ctl'[c] = None /\ ctl' \in [Coord -> Control \cup {None}]
        /\ \A d \in Coord \ {c} : ctl'[d] = ctl[d]
    BY <1>5
  <2> QED  BY <1>5, <2>1, <2>2, NothingStored DEF Moves
<1>6. ASSUME NEW k \in pending, ctl[c] = None, ActsOn(c, k), Commit(c, <<Observed(k)>>, "inspect")
      PROVE  ControlStep
  <2>1. fresh[c] => Open = {} /\ Active(run) # {} /\ run.status # "blocked"
    BY <1>1, <1>2, <1>6
  <2> QED  BY <1>6, <2>1, ObservingCommit
<1>7. None \notin pending
  BY CoordinatorConstants
<1> QED  BY <1>4, <1>5, <1>6, <1>7 DEF NextControl

\* applyBoundaryControl on a run without one.
LEMMA RecoverBoundaryKnows ==
    ASSUME IInv, ControlInv, NEW c \in Coord, RecoverBoundary(c)
    PROVE  ControlStep
<1> USE StillTyped, FreshKnows DEF RecoverBoundary, At
<1>1. "recover" \in Recovering
  BY DEF Recovering
<1>2. PICK k \in IF ctl[c] = None THEN NextControl ELSE {ctl[c]} :
         /\ ActsOn(c, k)
         /\ IF k = None THEN Moves(c, "continue")
            ELSE Commit(c, BoundaryBatch(view[c], k, ctl[c] = None), "returning")
  OBVIOUS
<1>3. /\ k \in Control \cup {None}
      /\ ctl[c] = None => k \in pending \cup {None}
      /\ ctl[c] # None => k = ctl[c]
  BY <1>2 DEF NextControl
<1>4. ctl' \in [Coord -> Control \cup {None}] /\ ctl'[c] = k
      /\ (\A d \in Coord \ {c} : ctl'[d] = ctl[d])
  BY <1>2, <1>3
<1>5. CASE k = None
  <2>1. fresh[c] => Known("continue", None, Open, run)
    <3>1. fresh[c] => Open = {} /\ run.status # "blocked"
      BY <1>1, <1>3, <1>5
    <3> QED  BY <3>1, Places DEF Known
  <2> QED  BY <1>2, <1>4, <1>5, <2>1, NothingStored DEF Moves
<1>6. CASE k # None
  <2> PICK observe \in BOOLEAN : observe = (ctl[c] = None)
    OBVIOUS
  <2> PICK done : done = IF ActionOf[k] = "cancel" \/ view[c].status # "paused" THEN {k} ELSE {}
    OBVIOUS
  <2> PICK seen : seen = IF observe THEN {k} ELSE {}
    OBVIOUS
  <2>1. /\ Batch(BoundaryBatch(view[c], k, observe), Closing, seen, done)
        /\ ActionOf[k] = "cancel" => EndsIn(BoundaryBatch(view[c], k, observe), Cancelled(k))
    BY <1>3, <1>6, BoundaryEvents
  <2>2. Commit(c, BoundaryBatch(view[c], k, observe), "returning")
    BY <1>2, <1>6
  <2>3. ActionOf[k] \in {"pause", "cancel"}
    BY <1>3, <1>6, CoordinatorConstants
  <2>4. ASSUME fresh[c]
        PROVE  Answered("returning", BoundaryBatch(view[c], k, observe), Closing, seen, done)
    <3>0. Open = {ctl[c]} \ {None}
      BY <1>1, <2>4 DEF Known
    <3>1. observe => k \in pending /\ Open = {}
      BY ONLY <1>3, <1>6, <3>0, observe = (ctl[c] = None)
    <3>2. ~observe => Open = {k}
      BY ONLY <1>3, <1>6, <3>0, observe = (ctl[c] = None)
    <3>3. Open \cup seen = {k} /\ Open \subseteq Acknowledged
      BY <3>1, <3>2 DEF Open
    <3> QED  BY <2>1, <2>3, <3>1, <3>3, TypeSets DEF Answered
  <2> QED  BY <1>4, <2>2, <2>4, AnsweringCommit
<1> QED  BY <1>5, <1>6

\* establishRecoveredAbsence finds the execution absent, live or of unknown fate.
LEMMA InspectKnows ==
    ASSUME IInv, ControlInv, NEW c \in Coord, Inspect(c) \/ TerminateRecovered(c)
    PROVE  ControlStep
<1> DEFINE v == view[c]
           n == First(Active(v))
           next == Blocked(c)
<1>1. /\ pc[c] \in Reconciling /\ UNCHANGED ctl
      /\ \/ Moves(c, "capture") \/ Moves(c, "terminate")
         \/ Commit(c, <<RecoveryBlocked(v, n, "execution-unknown")>>, next)
         \/ Commit(c, CleanupUnknown(v, n, CauseOf(ctl[c])), next)
  <2>1. CASE Inspect(c)
    BY <2>1, StillTyped DEF Inspect, At, Reconciling
  <2>2. CASE TerminateRecovered(c)
    BY <2>2, StillTyped DEF TerminateRecovered, At, Reconciling, Terminated, task
  <2> QED  BY <2>1, <2>2
<1>2. pc[c] \in Recovering
  BY <1>1, Places
<1>3. next \in {"returning", "continue"} /\ (next = "continue" => ctl[c] = None)
  BY DEF Blocked
<1>4. next \in {"schedule", "returning"} \/ (next = "continue" /\ (fresh[c] => Open = {}))
  <2>1. fresh[c] /\ ctl[c] = None => Open = {}
    BY <1>2, FreshKnows
  <2> QED  BY <1>3, <2>1
<1> HIDE DEF n, v, next
<1>5. ASSUME NEW place \in {"capture", "terminate"}, Moves(c, place) PROVE ControlStep
  <2>1. fresh[c] => Known(place, ctl[c], Open, run)
    <3>1. place \in Reconciling /\ place \in Recovering
          /\ place \notin Working \cup Controlling \cup {"continue", "resuming", "schedule"}
      BY Places DEF Reconciling, Recovering
    <3> QED  BY <1>1, <1>2, <3>1, FreshKnows DEF Known
  <2> QED  BY <1>1, <1>5, <2>1, MovesKnows
<1>6. ASSUME NEW a, NEW kind, Batch(a, Closing, {}, {}),
             Commit(c, a \o <<RecoveryBlocked(v, n, kind)>>, next)
      PROVE  ControlStep
  <2> DEFINE e == RecoveryBlocked(v, n, kind)
  <2>1. Typed(e) /\ e.type = "RunRecoveryBlocked"
    BY DEF Typed, RecoveryBlocked, RunWide
  <2> HIDE DEF e
  <2>2. Closing \cap Starting = {} /\ e.type \in Closing
    BY <2>1, TypeSets
  <2>3. Commit(c, a \o <<e>>, next)
    BY <1>6 DEF e
  <2> QED  BY <1>1, <1>4, <1>6, <2>1, <2>2, <2>3, BlockingCommit
<1>7. CASE Commit(c, <<RecoveryBlocked(v, n, "execution-unknown")>>, next)
  <2>1. <<RecoveryBlocked(v, n, "execution-unknown")>>
          = <<>> \o <<RecoveryBlocked(v, n, "execution-unknown")>>
    OBVIOUS
  <2>2. Batch(<<>>, Closing, {}, {})
    BY NoEvent
  <2> QED  BY <1>6, <1>7, <2>1, <2>2
<1>8. CASE Commit(c, CleanupUnknown(v, n, CauseOf(ctl[c])), next)
  <2> DEFINE cause == CauseOf(ctl[c])
             a == IF CleanupRecorded(v, n, cause) THEN <<>> ELSE <<Cleanup(v, n, cause, "unknown")>>
  <2>1. cause \in Cause
    BY CoordinatorConstants DEF CauseOf, Cause, ControlInv, ControlTyped
  <2>2. Plain(Cleanup(v, n, cause, "unknown"), Closing)
    <3>1. Plain(Cleanup(v, n, cause, "unknown"), Quiet)
      BY <2>1, TypedEvents DEF CleanupOutcome
    <3> QED  BY <3>1, TypeSets, Wider
  <2>3. Batch(a, Closing, {}, {})
    BY <2>2, NoEvent, PlainEvents
  <2>4. Commit(c, a \o <<RecoveryBlocked(v, n, "cleanup-unknown")>>, next)
    BY <1>8 DEF CleanupUnknown
  <2> QED  BY <1>6, <2>3, <2>4
<1> QED  BY <1>1, <1>5, <1>7, <1>8 DEF v, n, next

\* reconcileOwnedAttempt leaves the attempt to be taken up.
LEMMA OrphanKnows ==
    ASSUME IInv, ControlInv, NEW c \in Coord, Orphan(c)
    PROVE  ControlStep
<1> DEFINE v == view[c]
           n == First(Active(v))
           cause == CauseOf(ctl[c])
           e == [type |-> "AttemptOrphaned", node |-> n, attempt |-> v.nodes[n].attempts,
                 differs |-> Changed(n)]
           p == IF CleanupRecorded(v, n, cause) THEN <<>> ELSE <<Cleanup(v, n, cause, "confirmed")>>
           a == <<AttemptEvent(v, "ArtifactProduced", n)>> \o p
           batch == a \o <<e>>
<1>1. /\ pc[c] = "capture" /\ UNCHANGED ctl
      /\ Commit(c, batch, "orphaned")
  BY StillTyped DEF Orphan, At
<1>2. pc[c] \in Reconciling /\ pc[c] \in Recovering
  BY <1>1, Places DEF Reconciling
<1>3. cause \in Cause
  BY CoordinatorConstants DEF CauseOf, Cause, ControlInv, ControlTyped
<1>4. Plain(e, Quiet) /\ e.type = "AttemptOrphaned" /\ e.node = n
  <2>1. Changed(n) \in BOOLEAN
    BY DEF Changed
  <2> QED  BY <2>1, TypedEvents
<1>5. Batch(<<AttemptEvent(v, "ArtifactProduced", n)>>, Quiet, {}, {}) /\ Batch(p, Quiet, {}, {})
  <2>1. Plain(AttemptEvent(v, "ArtifactProduced", n), Quiet)
    BY TypedEvents
  <2>2. Plain(Cleanup(v, n, cause, "confirmed"), Quiet)
    BY <1>3, TypedEvents DEF CleanupOutcome
  <2> QED  BY <2>1, <2>2, NoEvent, PlainEvents
<1> HIDE DEF e, p, cause
<1>6. Batch(a, Quiet, {}, {})
  BY <1>5, PlainThen
<1> HIDE DEF a
<1>7. Batch(batch, Quiet, {}, {}) /\ EndsIn(batch, e)
  <2>1. Batch(<<e>>, Quiet, {}, {})
    BY <1>4, PlainEvents
  <2> QED  BY <1>6, <2>1, PlainThen, EndOfOne, EndOfJoined
<1>8. ASSUME fresh[c] PROVE Accounted(c, batch, "orphaned", Quiet, {}, {})
  <2>1. v = run /\ run \in Run /\ run.status # "blocked" /\ n \in Node
    <3>1. Active(run) # {} /\ Active(run) \in SUBSET Node
      BY <1>2, <1>8, FreshKnows DEF Known, Active
    <3> QED  BY <1>2, <1>8, <3>1, FreshKnows, FirstIsMember
  <2>2. ASSUME NEW s \in Materialized(v, batch) \cap Run
        PROVE  Known("orphaned", ctl'[c], Open, s) /\ KeepsNoCancel(Open, s)
    <3>1. s.status = run.status
      BY <1>7, <2>1, BatchEffect, TypeSets
    <3>2. PICK t \in Run : s \in Applied(t, e)
      BY <1>7, <2>1, LastOfBatch
    <3>3. s = Updated(t, e, [NodeOf(t, e) EXCEPT
                               !.status = "running",
                               !.last = [@ EXCEPT !.status = "orphaned", !.differs = e.differs]])
      BY <1>4, <3>2 DEF Applied, AttemptOrphaned, When
    <3>4. n \in Orphaned(s)
      <4>1. t.nodes[n] \in NodeState /\ t.nodes[n].last \in Attempt
        BY <2>1 DEF Run, NodeState
      <4> DEFINE last == [t.nodes[n].last EXCEPT !.status = "orphaned", !.differs = e.differs]
                 node == [t.nodes[n] EXCEPT !.status = "running", !.last = last]
      <4>2. s = Updated(t, e, node) /\ e.node = n
        BY <1>4, <3>3 DEF NodeOf
      <4>3. last.status = "orphaned" /\ node.last = last /\ node.status = "running"
        BY <4>1 DEF NodeState, Attempt
      <4>4. s.nodes[n] = node
        <5> HIDE DEF node
        <5> QED  BY <2>1, <4>2 DEF Updated, Run
      <4> QED  BY <2>1, <4>3, <4>4 DEF Orphaned
    <3>5. KeepsNoCancel(Open, s)
      BY <3>4 DEF KeepsNoCancel
    <3>6. "orphaned" \in Recovering
          /\ "orphaned" \notin Reconciling \cup Working \cup Controlling
               \cup {"continue", "resuming", "schedule"}
      BY Places DEF Recovering, Reconciling
    <3>7. ctl'[c] = ctl[c] /\ Open = {ctl[c]} \ {None}
      BY <1>1, <1>2, <1>8, FreshKnows DEF Known
    <3> QED  BY <2>1, <3>1, <3>5, <3>6, <3>7 DEF Known
  <2>3. {} \subseteq {None} /\ Quiet \cap Starting = {}
    BY TypeSets
  <2> QED  BY <1>7, <2>2, <2>3 DEF Accounted
<1>9. ctl' \in [Coord -> Control \cup {None}]
  BY <1>1 DEF ControlInv, ControlTyped
<1> QED  BY <1>1, <1>8, <1>9, CommitKnows

\* finishRecoveredControl and finishActiveControl complete the control their session acts on.
LEMMA FinishControlKnows ==
    ASSUME IInv, ControlInv, NEW c \in Coord, FinishRecoveredControl(c) \/ FinishActiveControl(c)
    PROVE  ControlStep
<1> DEFINE v == view[c]
           k == ctl[c]
           b(m) == IF ActionOf[k] = "pause" THEN PauseBoth(m, "operator", k)
                   ELSE CancelNodes(v) \o <<Cancelled(k)>>
<1>1. k \in Control \cup {None} /\ UNCHANGED ctl
  BY StillTyped DEF FinishRecoveredControl, FinishActiveControl
<1>2. ASSUME NEW m
      PROVE  /\ Batch(b(m), Closing, {}, {k} \ {None})
             /\ ActionOf[k] = "cancel" => EndsIn(b(m), Cancelled(k))
  <2> PICK done : done = {k} \ {None}
    OBVIOUS
  <2>1. "operator" \in PauseKind
    BY DEF PauseKind
  <2>2. Batch(PauseBoth(m, "operator", k), Closing, {}, done)
    BY <1>1, <2>1, StoppingBatches, TypeSets
  <2>3. Batch(<<Cancelled(k)>>, Closing, {}, done)
    BY <1>1, <2>1, StoppingBatches, TypeSets
  <2>4. Batch(CancelNodes(v), Closing, {}, {})
    BY NodeBatches, TypeSets
  <2>5. /\ Batch(CancelNodes(v) \o <<Cancelled(k)>>, Closing, {}, done)
        /\ EndsIn(CancelNodes(v) \o <<Cancelled(k)>>, Cancelled(k))
    BY <2>3, <2>4, PlainThen, EndOfOne, EndOfJoined
  <2> QED  BY <2>2, <2>5
<1>3. ASSUME NEW m, NEW a, NEW next \in {"schedule", "returning"}, pc[c] \in Recovering \cup Controlling,
             Commit(c, a \o b(m), next), Batch(a, Closing, {}, {})
      PROVE  ControlStep
  <2> PICK done : done = {k} \ {None}
    OBVIOUS
  <2>1. /\ Batch(a \o b(m), Closing, {}, done)
        /\ ActionOf[k] = "cancel" => EndsIn(a \o b(m), Cancelled(k))
    <3>1. Batch(b(m), Closing, {}, done) /\ (ActionOf[k] = "cancel" => EndsIn(b(m), Cancelled(k)))
      BY <1>2
    <3> QED  BY <1>3, <3>1, PlainThen, EndOfJoined
  <2>2. ASSUME fresh[c] PROVE Answered(next, a \o b(m), Closing, {}, done)
    <3>1. Open = done /\ done \subseteq Acknowledged
      BY <1>3, <2>2, FreshKnows DEF Open
    <3>2. {} \subseteq {None} /\ {} \subseteq pending /\ (Open \cup {}) \ done = {}
      BY <3>1
    <3>3. Closing \cap Starting = {} /\ \A j \in done : j = k
      BY TypeSets
    <3> HIDE DEF k, b
    <3> QED  BY <1>3, <2>1, <3>1, <3>2, <3>3 DEF Answered
  <2>3. ctl' \in [Coord -> Control \cup {None}]
    BY <1>1 DEF ControlInv, ControlTyped
  <2> QED  BY <1>1, <1>3, <2>2, <2>3, AnsweringCommit
<1>4. CASE FinishRecoveredControl(c)
  <2>1. pc[c] \in Recovering
    BY <1>4 DEF FinishRecoveredControl, At, Recovering
  <2> DEFINE m == orphan[c]
  <2>2. Batch(b(m), Closing, {}, {k} \ {None}) /\ Commit(c, b(m), "returning")
    BY <1>2, <1>4 DEF FinishRecoveredControl
  <2>3. <<>> \o b(m) = b(m)
    <3> PICK x : x = b(m)
      OBVIOUS
    <3>1. PICK X : x \in Seq(X)
      BY <2>2 DEF Batch
    <3>2. <<>> \o x = x
      BY <3>1
    <3> QED  BY <3>2
  <2>4. Batch(<<>>, Closing, {}, {})
    BY NoEvent
  <2>5. Commit(c, <<>> \o b(m), "returning")
    BY <2>2, <2>3
  <2> HIDE DEF b, m
  <2> QED  BY <1>3, <2>1, <2>4, <2>5
<1>5. CASE FinishActiveControl(c)
  <2> DEFINE n == First(Active(v))
             a == <<AttemptEvent(v, "ArtifactProduced", n), AttemptEvent(v, "WorkspaceObserved", n),
                    Cleanup(v, n, ActionOf[k], "confirmed"), AttemptEvent(v, "AttemptCancelled", n)>>
  <2>1. pc[c] \in Controlling /\ Commit(c, a \o b(n), "schedule")
    BY <1>5 DEF FinishActiveControl, At, Controlling
  <2>2. k \in Control
    <3>1. fresh[c]
      BY <2>1 DEF IInv, ActingIsFresh, Acting, Executing, Controlling
    <3>2. k # None
      BY <2>1, <3>1, FreshKnows DEF Known
    <3> QED  BY <1>1, <3>2
  <2>3. ActionOf[k] \in Cause
    BY <2>2, CoordinatorConstants DEF Cause
  <2>4. Batch(a, Closing, {}, {})
    <3>1. Plain(AttemptEvent(v, "ArtifactProduced", n), Quiet)
          /\ Plain(AttemptEvent(v, "WorkspaceObserved", n), Quiet)
          /\ Plain(AttemptEvent(v, "AttemptCancelled", n), Quiet)
      BY TypedEvents
    <3>2. Plain(Cleanup(v, n, ActionOf[k], "confirmed"), Quiet)
      BY <2>3, TypedEvents DEF CleanupOutcome
    <3>3. Batch(a, Quiet, {}, {})
      BY <3>1, <3>2, PlainEvents
    <3>4. Quiet \subseteq Closing
      BY TypeSets
    <3> HIDE DEF a
    <3> QED  BY <3>3, <3>4, Wider
  <2> HIDE DEF a, n, b
  <2> QED  BY <1>3, <2>1, <2>4
<1> QED  BY <1>4, <1>5

\* PauseBoth without a control, and a pause of the run alone.
LEMMA PausingEvents ==
    ASSUME NEW n, NEW reason \in PauseKind
    PROVE  /\ Batch(PauseBoth(n, reason, None), Closing, {}, {})
           /\ Batch(<<Paused(None)>>, Closing, {}, {})
<1> PICK none : none = {None} \ {None}
  OBVIOUS
<1>1. Batch(PauseBoth(n, reason, None), Closing, {}, none) /\ Batch(<<Paused(None)>>, Closing, {}, none)
  BY StoppingBatches, TypeSets
<1> QED  BY <1>1

\* continueOrphaned and a preflight of it that fails.
LEMMA ContinueOrphanedKnows ==
    ASSUME IInv, ControlInv, NEW c \in Coord, ContinueOrphaned(c) \/ PreflightFailsOrphaned(c)
    PROVE  ControlStep
<1> DEFINE v == view[c]
           n == NodeToContinue(c)
<1>1. /\ (pc[c] = "orphaned" /\ ctl[c] = None) \/ pc[c] = "continue"
      /\ UNCHANGED ctl
  BY StillTyped DEF ContinueOrphaned, PreflightFailsOrphaned, OrphanToContinue, At, Reconciled
<1>2. fresh[c] => Open = {} /\ run.status # "blocked"
  BY <1>1, FreshKnows DEF Recovering
<1>3. \A reason \in PauseKind : Batch(PauseBoth(n, reason, None), Closing, {}, {})
  BY PausingEvents
<1>4. Batch(<<Because("NodeReady", n, "recovered")>> \o ResumeBlocked(v), Closing, {}, {})
  <2>1. Plain(Because("NodeReady", n, "recovered"), Quiet) /\ Plain(Resumed, Closing)
    BY TypedEvents
  <2>2. Plain(Because("NodeReady", n, "recovered"), Closing)
    BY <2>1, TypeSets, Wider
  <2>3. Batch(<<Because("NodeReady", n, "recovered")>>, Closing, {}, {})
    BY <2>2, PlainEvents
  <2>4. Batch(ResumeBlocked(v), Closing, {}, {})
    BY <2>1, PlainEvents, NoEvent DEF ResumeBlocked
  <2> QED  BY <2>3, <2>4, PlainThen
<1>5. PICK batch : Commit(c, batch, "continue") /\ Batch(batch, Closing, {}, {})
  <2>1. CASE ContinueOrphaned(c)
    BY <1>3, <1>4, <2>1 DEF ContinueOrphaned, PauseKind
  <2>2. CASE PreflightFailsOrphaned(c)
    BY <1>3, <2>2 DEF PreflightFailsOrphaned, PauseKind, PreflightFailure
  <2> QED  BY <2>1, <2>2
<1> QED  BY <1>1, <1>2, <1>5, FreeCommit, TypeSets

\* A stopped run resumes, stays as it is or goes on, and its runtime is negotiated.
LEMMA ContinueKnows ==
    ASSUME IInv, ControlInv, NEW c \in Coord,
           ResumePaused(c) \/ StayStopped(c) \/ ContinueRunning(c) \/ Negotiate(c)
    PROVE  ControlStep
<1> DEFINE v == view[c]
<1>1. UNCHANGED ctl
  BY StillTyped DEF ResumePaused, StayStopped, ContinueRunning, Negotiate
<1>2. pc[c] \in {"continue", "resuming"} => (fresh[c] => Open = {} /\ run.status # "blocked")
  BY FreshKnows
<1>3. CASE ResumePaused(c)
  <2>1. pc[c] \in {"continue", "resuming"}
        /\ Commit(c, ReadyBatch(PausedNodes(v), "resumed") \o <<Resumed>>, "schedule")
    BY <1>3 DEF ResumePaused, At
  <2>2. Batch(ReadyBatch(PausedNodes(v), "resumed"), Closing, {}, {})
    BY NodeBatches, TypeSets
  <2>3. Batch(<<Resumed>>, Closing, {}, {})
    <3>1. Plain(Resumed, Closing)
      BY TypedEvents
    <3> QED  BY <3>1, PlainEvents
  <2>4. Batch(ReadyBatch(PausedNodes(v), "resumed") \o <<Resumed>>, Closing, {}, {})
    BY <2>2, <2>3, PlainThen
  <2> QED  BY <1>1, <1>2, <2>1, <2>4, FreeCommit
<1>4. CASE StayStopped(c) \/ ContinueRunning(c)
  <2>1. /\ pc[c] = "continue"
        /\ Moves(c, "returning") \/ Moves(c, "schedule")
    BY <1>4 DEF StayStopped, ContinueRunning, At
  <2>2. \A k : Known("returning", k, Open, run)
    BY Places DEF Known, Ending
  <2>3. fresh[c] => Known("schedule", ctl[c], Open, run)
    BY <1>2, <2>1, Places DEF Known
  <2> QED  BY <1>1, <2>1, <2>2, <2>3, MovesKnows
<1>5. CASE Negotiate(c)
  <2>1. Batch(<<RunEvent("RuntimeNegotiated")>>, Quiet, {}, {})
    <3>1. Plain(RunEvent("RuntimeNegotiated"), Quiet)
      BY TypedEvents
    <3> QED  BY <3>1, PlainEvents
  <2>2. \/ pc[c] = "preflight" /\ Commit(c, <<RunEvent("RuntimeNegotiated")>>, "prepare")
        \/ pc[c] = "continue" /\ Commit(c, <<RunEvent("RuntimeNegotiated")>>, "resuming")
    BY <1>5 DEF Negotiate, At
  <2>3. CASE pc[c] = "preflight" /\ Commit(c, <<RunEvent("RuntimeNegotiated")>>, "prepare")
    <3>1. "prepare" \in Working /\ (fresh[c] => Open = {} /\ run.status = "running")
      BY <2>3, Places, FreshKnows
    <3> QED  BY <1>1, <2>1, <2>3, <3>1, FreeCommit, TypeSets
  <2>4. CASE pc[c] = "continue" /\ Commit(c, <<RunEvent("RuntimeNegotiated")>>, "resuming")
    <3>1. "RunBlocked" \notin Quiet
      BY TypeSets
    <3> QED  BY <1>1, <1>2, <2>1, <2>4, <3>1, FreeCommit
  <2> QED  BY <2>2, <2>3, <2>4
<1> QED  BY <1>3, <1>4, <1>5

-----------------------------------------------------------------------------
\* A control at a scheduling boundary.
LEMMA BoundaryKnows ==
    ASSUME IInv, ControlInv, NEW c \in Coord, Boundary(c)
    PROVE  ControlStep
<1> DEFINE v == view[c]
<1>1. PICK k \in pending :
         /\ Commit(c, BoundaryBatch(v, k, TRUE), "schedule")
         /\ ActsOn(c, IF pc'[c] = "rejected" THEN k ELSE None)
  BY DEF Boundary
<1>2. pc[c] = "schedule" /\ v.status = "running" /\ k \in Control
  BY StillTyped DEF Boundary, At
<1>3. ctl' \in [Coord -> Control \cup {None}] /\ \A d \in Coord \ {c} : ctl'[d] = ctl[d]
  BY <1>1, <1>2, StillTyped
<1>4. /\ Batch(BoundaryBatch(v, k, TRUE), Closing, {k}, {k})
      /\ ActionOf[k] = "cancel" => EndsIn(BoundaryBatch(v, k, TRUE), Cancelled(k))
  <2> PICK seen, done : seen = (IF TRUE THEN {k} ELSE {})
                        /\ done = IF ActionOf[k] = "cancel" \/ v.status # "paused" THEN {k} ELSE {}
    OBVIOUS
  <2>1. /\ Batch(BoundaryBatch(v, k, TRUE), Closing, seen, done)
        /\ ActionOf[k] = "cancel" => EndsIn(BoundaryBatch(v, k, TRUE), Cancelled(k))
    BY <1>2, BoundaryEvents
  <2> QED  BY <1>2, <2>1
<1>5. ASSUME fresh[c] PROVE Answered("schedule", BoundaryBatch(v, k, TRUE), Closing, {k}, {k})
  <2>1. Open = {}
    BY <1>2, <1>5, FreshKnows DEF Known
  <2>2. {k} \subseteq pending /\ {k} \subseteq Acknowledged \cup {k} /\ (Open \cup {k}) \ {k} = {}
    BY <2>1
  <2> HIDE DEF v
  <2> QED  BY <1>4, <2>1, <2>2, TypeSets DEF Answered
<1> QED  BY <1>1, <1>2, <1>3, <1>5, AnsweringCommit

\* The next node, or none; its budget and its preflight; the end of a run that succeeded.
LEMMA ScheduleKnows ==
    ASSUME IInv, ControlInv, NEW c \in Coord,
           \/ Schedule(c) \/ StopCoordinating(c) \/ Preflight(c)
           \/ ReadyDependents(c) \/ CompleteRun(c)
    PROVE  ControlStep
<1> DEFINE v == view[c]
           n == First(Ready(v))
<1>1. UNCHANGED ctl
  BY StillTyped DEF Schedule, StopCoordinating, Preflight, ReadyDependents, CompleteRun
<1>2. ASSUME NEW place \in {"preflight", "prepare", "schedule"}, Moves(c, place),
             fresh[c] => Open = {} /\ run.status = "running"
      PROVE  ControlStep
  <2>1. fresh[c] => Known(place, ctl[c], Open, run)
    BY <1>2, Places DEF Known
  <2> QED  BY <1>1, <1>2, <2>1, MovesKnows
<1>3. ASSUME Moves(c, "returning") PROVE ControlStep
  <2>1. \A k : Known("returning", k, Open, run)
    BY Places DEF Known, Ending
  <2> QED  BY <1>1, <1>3, <2>1, MovesKnows
<1>4. \A reason : Batch(ReadyBatch(Executable(v), reason), Quiet, {}, {})
  BY NodeBatches, TypeSets
<1>5. CASE Schedule(c)
  <2>1. fresh[c] => Open = {} /\ run.status = "running"
    BY <1>5, FreshKnows DEF Schedule, At, Known
  <2>2. \/ Moves(c, "preflight") \/ Moves(c, "returning")
        \/ Commit(c, ReadyBatch(Executable(v), "dependencies-satisfied"), "preflight")
    BY <1>5 DEF Schedule
  <2> QED  BY <1>1, <1>2, <1>3, <1>4, <2>1, <2>2, FreeCommit, TypeSets, Places
<1>6. CASE StopCoordinating(c)
  BY <1>3, <1>6 DEF StopCoordinating
<1>7. CASE Preflight(c)
  <2>1. fresh[c] => Open = {} /\ run.status = "running"
    BY <1>7, FreshKnows, Places DEF Preflight, At
  <2>2. \/ Moves(c, "prepare")
        \/ Commit(c, PauseBoth(n, "attempt-budget-exhausted", None), "schedule")
        \/ Commit(c, <<Paused(None)>>, "schedule")
    BY <1>7 DEF Preflight
  <2>3. /\ Batch(PauseBoth(n, "attempt-budget-exhausted", None), Closing, {}, {})
        /\ Batch(<<Paused(None)>>, Closing, {}, {})
    BY PausingEvents DEF PauseKind
  <2> QED  BY <1>1, <1>2, <2>1, <2>2, <2>3, FreeCommit
<1>8. CASE ReadyDependents(c)
  <2>1. fresh[c] => Open = {} /\ run.status = "running"
    BY <1>8, FreshKnows, Places DEF ReadyDependents, At
  <2>2. Commit(c, ReadyBatch(Executable(v), "dependencies-satisfied"), "complete")
    BY <1>8 DEF ReadyDependents
  <2> QED  BY <1>1, <1>4, <2>1, <2>2, FreeCommit, TypeSets, Places
<1>9. CASE CompleteRun(c)
  <2> DEFINE e == [type |-> "RunCompleted", outcome |-> "succeeded"]
  <2>1. fresh[c] => Open = {} /\ run.status = "running"
    BY <1>9, FreshKnows, Places DEF CompleteRun, At
  <2>2. Commit(c, <<e>>, "schedule") \/ Moves(c, "schedule")
    BY <1>9 DEF CompleteRun
  <2>3. Batch(<<e>>, Closing, {}, {})
    <3>1. Plain(e, Closing)
      BY TypedEvents
    <3> HIDE DEF e
    <3> QED  BY <3>1, PlainEvents
  <2> HIDE DEF e
  <2> QED  BY <1>1, <1>2, <2>1, <2>2, <2>3, FreeCommit
<1> QED  BY <1>5, <1>6, <1>7, <1>8, <1>9

-----------------------------------------------------------------------------
(* Coordination and the controls *)

\* The attempt is prepared, authorized, driven and collected; its deadline may pass.
LEMMA AttemptKnows ==
    ASSUME IInv, ControlInv, NEW c \in Coord,
           \/ PrepareAttempt(c) \/ Authorize(c) \/ Drive(c) \/ Collect(c) \/ RequestTimeout(c)
    PROVE  ControlStep
<1> DEFINE v == view[c]
           n == First(Active(v))
<1>1. /\ UNCHANGED ctl
      /\ pc[c] \in {"prepare", "preparing", "starting", "driving"}
  <2>1. CASE PrepareAttempt(c)
    BY <2>1, StillTyped DEF PrepareAttempt, At
  <2>2. CASE Authorize(c)
    BY <2>2, StillTyped DEF Authorize, At, task
  <2>3. CASE Drive(c) \/ RequestTimeout(c)
    BY <2>3, StillTyped DEF Drive, RequestTimeout, At
  <2>4. CASE Collect(c)
    BY <2>4, StillTyped DEF Collect, At, task
  <2> QED  BY <2>1, <2>2, <2>3, <2>4
<1>2. fresh[c] => Open = {} /\ run.status = "running"
  BY <1>1, FreshKnows, Places
<1>3. ASSUME NEW batch, NEW next \in Working, Commit(c, batch, next), Batch(batch, Loud, {}, {})
      PROVE  ControlStep
  BY <1>1, <1>2, <1>3, FreeCommit, TypeSets
<1>4. CASE PrepareAttempt(c)
  <2> DEFINE m == First(Ready(v))
             e(type) == [type |-> type, node |-> m, attempt |-> v.nodes[m].attempts + 1]
  <2>1. Commit(c, <<e("AttemptScheduled"), e("ArtifactProduced"), e("AttemptPrepared")>>, "preparing")
    BY <1>4 DEF PrepareAttempt
  <2>2. \A type \in {"AttemptScheduled", "ArtifactProduced", "AttemptPrepared"} : Plain(e(type), Loud)
    BY DEF Plain, Typed, Loud, NodeOnly, RunOnly, Asks, Answers
  <2> HIDE DEF e
  <2>3. Batch(<<e("AttemptScheduled"), e("ArtifactProduced"), e("AttemptPrepared")>>, Loud, {}, {})
    BY <2>2, PlainEvents
  <2> QED  BY <1>3, <2>1, <2>3, Places
<1>5. CASE Authorize(c)
  <2>1. Commit(c, <<AttemptEvent(v, "AttemptStartAuthorized", n)>>, "starting")
    BY <1>5 DEF Authorize
  <2>2. Batch(<<AttemptEvent(v, "AttemptStartAuthorized", n)>>, Loud, {}, {})
    <3>1. Plain(AttemptEvent(v, "AttemptStartAuthorized", n), Loud)
      BY TypedEvents
    <3> QED  BY <3>1, PlainEvents
  <2> QED  BY <1>3, <2>1, <2>2, Places
<1>6. CASE Drive(c) \/ Collect(c)
  <2>1. PICK place \in {"driving", "finishing"} : Moves(c, place)
    BY <1>6 DEF Drive, Collect
  <2>2. fresh[c] => Known(place, ctl[c], Open, run)
    BY <1>2, Places DEF Known
  <2> QED  BY <1>1, <2>1, <2>2, MovesKnows
<1>7. CASE RequestTimeout(c)
  <2>1. Commit(c, <<AttemptEvent(v, "AttemptTimeoutRequested", n)>>, "timeout")
    BY <1>7 DEF RequestTimeout
  <2>2. Batch(<<AttemptEvent(v, "AttemptTimeoutRequested", n)>>, Quiet, {}, {})
    <3>1. Plain(AttemptEvent(v, "AttemptTimeoutRequested", n), Quiet)
      BY TypedEvents
    <3> QED  BY <3>1, PlainEvents
  <2>3. Quiet \subseteq Loud
    BY DEF Quiet
  <2>4. Batch(<<AttemptEvent(v, "AttemptTimeoutRequested", n)>>, Loud, {}, {})
    BY <2>2, <2>3, Wider
  <2> QED  BY <1>3, <2>1, <2>4, Places
<1> QED  BY <1>4, <1>5, <1>6, <1>7

\* The poll of the store finds a control; the execution is cancelled for it or for its deadline.
LEMMA CancelKnows ==
    ASSUME IInv, ControlInv, NEW c \in Coord, ObserveControl(c) \/ Cancel(c) \/ CancelUnconfirmed(c)
    PROVE  ControlStep
<1> DEFINE v == view[c]
           n == First(Active(v))
<1>1. CASE ObserveControl(c)
  <2>1. PICK k \in pending : Commit(c, <<Observed(k)>>, "control") /\ ActsOn(c, k)
    BY <1>1 DEF ObserveControl
  <2>2. UNCHANGED world /\ pc[c] = "driving"
    BY <1>1 DEF ObserveControl, At
  <2>3. fresh[c] => Open = {} /\ run.status = "running"
    BY <2>2, FreshKnows, Places
  <2>4. "control" \in Controlling
    BY DEF Controlling
  <2> QED  BY <2>1, <2>2, <2>3, <2>4, ObservingCommit
<1>2. CASE Cancel(c)
  <2>1. UNCHANGED ctl
    BY <1>2, StillTyped DEF Cancel, Terminated, task
  <2>2. \/ pc[c] = "timeout" /\ Moves(c, "timedOut")
        \/ pc[c] = "control" /\ Moves(c, "controlled")
    BY <1>2 DEF Cancel, At
  <2>3. CASE pc[c] = "timeout" /\ Moves(c, "timedOut")
    <3>1. fresh[c] => Known("timedOut", ctl[c], Open, run)
      BY <2>3, Places, FreshKnows DEF Known
    <3> QED  BY <2>1, <2>3, <3>1, MovesKnows
  <2>4. CASE pc[c] = "control" /\ Moves(c, "controlled")
    <3>1. fresh[c] => Known("controlled", ctl[c], Open, run)
      <4>1. {"control", "controlled"} \subseteq Controlling
        BY DEF Controlling
      <4> QED  BY <2>4, <4>1, Places, FreshKnows DEF Known
    <3> QED  BY <2>1, <2>4, <3>1, MovesKnows
  <2> QED  BY <2>2, <2>3, <2>4
<1>3. CASE CancelUnconfirmed(c)
  <2> DEFINE e == RecoveryBlocked(v, n, "cleanup-unknown")
             a == <<CancellationCompleted(v, n, "failed"), Cleanup(v, n, "timeout", "unknown")>>
             b == <<Cleanup(v, n, ActionOf[ctl[c]], "unknown")>>
  <2>1. UNCHANGED ctl
    BY <1>3, StillTyped DEF CancelUnconfirmed, Terminated, task
  <2>2. \/ Commit(c, a \o <<e>>, "schedule")
        \/ pc[c] = "control" /\ Commit(c, b \o <<e>>, "schedule")
    BY <1>3 DEF CancelUnconfirmed, At
  <2>3. Typed(e) /\ e.type = "RunRecoveryBlocked"
    BY DEF Typed, RecoveryBlocked, RunWide
  <2>4. Batch(a, Closing, {}, {})
    <3>1. Plain(CancellationCompleted(v, n, "failed"), Quiet)
          /\ Plain(Cleanup(v, n, "timeout", "unknown"), Quiet)
      BY TypedEvents DEF Cause, CleanupOutcome, CancellationOutcome
    <3>2. Batch(a, Quiet, {}, {})
      BY <3>1, PlainEvents
    <3> HIDE DEF a
    <3> QED  BY <3>2, TypeSets, Wider
  <2>5. pc[c] = "control" => Batch(b, Closing, {}, {})
    <3> SUFFICES ASSUME pc[c] = "control" PROVE Batch(b, Closing, {}, {})
      OBVIOUS
    <3>1. fresh[c] /\ "control" \in Controlling
      BY DEF IInv, ActingIsFresh, Acting, Executing, Controlling
    <3>2. ctl[c] \in Control
      BY <3>1, FreshKnows, StillTyped DEF Known
    <3>3. ActionOf[ctl[c]] \in Cause
      BY <3>2, CoordinatorConstants DEF Cause
    <3>4. Plain(Cleanup(v, n, ActionOf[ctl[c]], "unknown"), Quiet)
      BY <3>3, TypedEvents DEF CleanupOutcome
    <3>5. Batch(b, Quiet, {}, {})
      BY <3>4, PlainEvents
    <3> HIDE DEF b
    <3> QED  BY <3>5, TypeSets, Wider
  <2>6. Closing \cap Starting = {} /\ e.type \in Closing
    BY <2>3, TypeSets
  <2> HIDE DEF a, b, e
  <2> QED  BY <2>1, <2>2, <2>3, <2>4, <2>5, <2>6, BlockingCommit
<1> QED  BY <1>1, <1>2, <1>3

\* The result or the confirmed timeout of the attempt is recorded.
LEMMA FinishKnows ==
    ASSUME IInv, ControlInv, NEW c \in Coord, FinishExecution(c) \/ FinishTimeout(c)
    PROVE  ControlStep
<1> DEFINE v == view[c]
           n == First(Active(v))
           artifact == AttemptEvent(v, "ArtifactProduced", n)
           workspace == AttemptEvent(v, "WorkspaceObserved", n)
           evidence == <<artifact, workspace>>
<1>1. UNCHANGED ctl /\ pc[c] \in {"finishing", "timedOut"}
  BY StillTyped DEF FinishExecution, FinishTimeout, At
<1>2. fresh[c] => Open = {} /\ run.status = "running"
  BY <1>1, FreshKnows, Places
<1>3. Plain(artifact, Quiet) /\ Plain(workspace, Quiet)
  BY TypedEvents
<1> HIDE DEF artifact, workspace
<1>4. Batch(evidence, Quiet, {}, {})
  BY <1>3, PlainEvents
<1> HIDE DEF evidence
<1>5. \A batch : Batch(batch, Quiet, {}, {}) => Batch(batch, Closing, {}, {}) /\ Batch(batch, Halting, {}, {})
  BY TypeSets, Wider
<1>6. ASSUME NEW batch, Batch(batch, Halting, {}, {}), Commit(c, evidence \o batch, "schedule")
      PROVE  ControlStep
  <2>1. Batch(evidence \o batch, Halting, {}, {})
    BY <1>4, <1>5, <1>6, PlainThen
  <2> QED  BY <1>1, <1>2, <1>6, <2>1, FreeCommit
<1>7. \A exhausted : Batch(FailureBatch(v, n, exhausted), Halting, {}, {})
  BY FailureEvents, TypeSets, Wider
<1>8. CASE FinishTimeout(c)
  <2> DEFINE a == <<CancellationCompleted(v, n, "succeeded"), Cleanup(v, n, "timeout", "confirmed"),
                    artifact, workspace>>
  <2>1. Plain(CancellationCompleted(v, n, "succeeded"), Quiet)
        /\ Plain(Cleanup(v, n, "timeout", "confirmed"), Quiet)
    BY TypedEvents DEF Cause, CleanupOutcome, CancellationOutcome
  <2>2. Batch(a, Quiet, {}, {})
    BY <1>3, <2>1, PlainEvents
  <2>3. Commit(c, a \o FailureBatch(v, n, TRUE), "schedule")
    BY <1>8 DEF FinishTimeout, artifact, workspace
  <2> HIDE DEF a
  <2>4. Batch(a \o FailureBatch(v, n, TRUE), Halting, {}, {})
    BY <1>5, <1>7, <2>2, PlainThen
  <2> QED  BY <1>1, <1>2, <2>3, <2>4, FreeCommit
<1>9. CASE FinishExecution(c)
  <2> DEFINE succeeded == <<AttemptEvent(v, "AttemptSucceeded", n), NodeEvent("NodeSucceeded", n)>>
             blocked == <<AttemptEvent(v, "AttemptBlocked", n), NodeEvent("NodeBlocked", n)>>
             cancelled == <<AttemptEvent(v, "AttemptCancelled", n)>>
             last == [type |-> "RunCancelled", durable |-> FALSE, control |-> None]
  <2>1. /\ Plain(AttemptEvent(v, "AttemptSucceeded", n), Quiet)
        /\ Plain(AttemptEvent(v, "AttemptBlocked", n), Quiet)
        /\ Plain(AttemptEvent(v, "AttemptCancelled", n), Quiet)
    BY TypedEvents
  <2>2. Plain(NodeEvent("NodeSucceeded", n), Quiet) /\ Plain(NodeEvent("NodeBlocked", n), Quiet)
        /\ Plain(RunEvent("RunBlocked"), Halting)
    BY TypedEvents
  <2>3. /\ Batch(succeeded, Quiet, {}, {}) /\ Batch(blocked, Halting, {}, {})
        /\ Batch(cancelled, Halting, {}, {}) /\ Batch(<<RunEvent("RunBlocked")>>, Halting, {}, {})
    BY <1>5, <2>1, <2>2, PlainEvents
  <2>4. /\ Batch(BlockOthers(v, n), Halting, {}, {}) /\ Batch(CancelNodes(v), Halting, {}, {})
    BY NodeBatches, TypeSets
  <2>5. Batch(<<last>>, Halting, {}, {})
    <3>1. Typed(last) /\ last.type = "RunCancelled" /\ last.control = None
      BY DEF Typed, RunWide
    <3>2. NamedBy(last, Asks) = {} /\ NamedBy(last, Answers) = {} /\ last.type \in Halting
      BY <3>1, TypeSets DEF NamedBy, Asks, Answers
    <3> HIDE DEF last
    <3>3. Batch(<<last>>, Halting, NamedBy(last, Asks), NamedBy(last, Answers))
      BY <3>1, <3>2, OneEvent
    <3> QED  BY <3>2, <3>3
  <2>6. \/ Commit(c, evidence \o succeeded, "succeeded")
        \/ Commit(c, evidence \o FailureBatch(v, n, FALSE), "schedule")
        \/ Commit(c, evidence \o blocked \o BlockOthers(v, n) \o <<RunEvent("RunBlocked")>>, "schedule")
        \/ Commit(c, evidence \o cancelled \o CancelNodes(v) \o <<last>>, "schedule")
    BY <1>9 DEF FinishExecution, evidence, artifact, workspace
  <2> HIDE DEF succeeded, blocked, cancelled, last
  <2>7. CASE Commit(c, evidence \o succeeded, "succeeded")
    <3>1. Batch(evidence \o succeeded, Quiet, {}, {})
      BY <1>4, <2>3, PlainThen
    <3> QED  BY <1>1, <1>2, <2>7, <3>1, FreeCommit, TypeSets, Places
  <2>8. CASE Commit(c, evidence \o FailureBatch(v, n, FALSE), "schedule")
    BY <1>6, <1>7, <2>8
  <2>9. ASSUME NEW x, NEW y, NEW z, Batch(x, Halting, {}, {}), Batch(y, Halting, {}, {}),
               Batch(z, Halting, {}, {}), Commit(c, evidence \o x \o y \o z, "schedule")
        PROVE  ControlStep
    <3>1. Batch(evidence \o x, Halting, {}, {})
      BY <1>4, <1>5, <2>9, PlainThen
    <3>2. Batch((evidence \o x) \o y, Halting, {}, {})
      BY <2>9, <3>1, PlainThen
    <3>3. Batch(((evidence \o x) \o y) \o z, Halting, {}, {})
      BY <2>9, <3>2, PlainThen
    <3> QED  BY <1>1, <1>2, <2>9, <3>3, FreeCommit
  <2> QED  BY <2>3, <2>4, <2>5, <2>6, <2>7, <2>8, <2>9
<1> QED  BY <1>8, <1>9

-----------------------------------------------------------------------------
(* Every step *)

\* Every step of a session, of its end and of whatever surrounds it keeps the controls in order.
LEMMA ControlInductive ==
    ASSUME IInv, ControlInv, [Next]_vars
    PROVE  ControlStep
<1>1. ASSUME NEW c \in Coord, Recovery(c) PROVE ControlStep
  <2>1. CASE Load(c)
    BY <2>1, LoadKnows
  <2>2. CASE Acquire(c)
    <3>1. /\ pc' = [pc EXCEPT ![c] = "recover"] /\ UNCHANGED <<store, session, ctl>>
          /\ pc[c] = "loaded"
      BY <2>2 DEF Acquire, At, task, world
    <3>2. fresh[c] => Known("recover", ctl'[c], Open, run)
      <4>1. {"loaded", "recover"} \subseteq Recovering
            /\ {"loaded", "recover"} \cap (Reconciling \cup Ending) = {}
        BY DEF Recovering, Reconciling, Ending
      <4> QED  BY <3>1, <4>1, FreshKnows, Places DEF Known
    <3>3. ctl' \in [Coord -> Control \cup {None}]
      BY <3>1 DEF ControlInv, ControlTyped
    <3> QED  BY <3>1, <3>2, <3>3, NothingStored
  <2>3. CASE Refused(c)
    BY <2>3, OutsideKnows, StillTyped DEF Refused, store, ControlInv, Distinguished
  <2> QED  BY <1>1, <2>1, <2>2, <2>3, BeginReconcilingKnows, RecoverBoundaryKnows, InspectKnows,
           OrphanKnows, FinishControlKnows, ContinueOrphanedKnows, ContinueKnows DEF Recovery
<1>2. ASSUME NEW c \in Coord, Coordination(c) PROVE ControlStep
  BY <1>2, BoundaryKnows, ScheduleKnows, AttemptKnows, CancelKnows, FinishControlKnows, FinishKnows
     DEF Coordination
<1>3. ASSUME NEW c \in Coord, HostFails(c) \/ Abandon(c) \/ SessionFails(c) PROVE ControlStep
  <2>1. /\ UNCHANGED ctl
        /\ \E place \in {"abandon", "failing"} : Moves(c, place)
    BY <1>3, StillTyped DEF HostFails, Abandon, SessionFails, Terminated, task
  <2>2. \A place \in {"abandon", "failing"} : \A k : Known(place, k, Open, run)
    BY Places DEF Known, Ending
  <2> QED  BY <2>1, <2>2, MovesKnows
<1>4. ASSUME NEW c \in Coord, Release(c) \/ Crash(c) PROVE ControlStep
  BY <1>4, OutsideKnows, StillTyped DEF Release, Crash, store, ControlInv, Distinguished
<1>5. CASE \E k \in Control : SubmitControl(k)
  <2>1. PICK k \in Control : SubmitControl(k)
    BY <1>5
  <2>2. k \notin Acknowledged
    BY <2>1 DEF SubmitControl, Acknowledged
  <2> QED  BY <2>1, <2>2, OutsideKnows, StillTyped
           DEF SubmitControl, world, task, ControlInv, Distinguished
<1>6. CASE (\E e \in Execution : Host(e)) \/ OperatorEdits \/ UNCHANGED vars
  <2>1. UNCHANGED <<store, session, pc, ctl>>
    BY <1>6 DEF Host, PrepareReturns, AuthorizeReturns, WorkerEnds, SupervisorStops,
                WorkerChangesWorkspace, OperatorEdits, vars, world, task
  <2> QED  BY <2>1, OutsideKnows, StillTyped DEF store, ControlInv, Distinguished
<1> QED  BY <1>1, <1>2, <1>3, <1>4, <1>5, <1>6 DEF Next, End

\* createOwned stores no control.
LEMMA ControlInitially == Init => ControlInv
<1> SUFFICES ASSUME Init PROVE ControlInv
  OBVIOUS
<1>1. PICK starter \in Coord \cup {None} :
        /\ pc = [c \in Coord |-> IF c = starter THEN "schedule" ELSE "idle"]
        /\ view = [c \in Coord |-> IF c = starter THEN run ELSE CreatedRun]
        /\ fresh = [c \in Coord |-> c = starter]
  BY DEF Init
<1>2. /\ run = InitialRun /\ pending = {} /\ observed = <<>> /\ completed = {}
      /\ ctl = [c \in Coord |-> None]
  BY DEF Init
<1>3. CreatedRun \in Run /\ CreatedRun.status = "running"
  BY DEF CreatedRun, Run, RunStatus, NodeState, NodeStatus, Attempt, NoAttempt
<1>4. run \in Run /\ run.status = "running"
  <2> DEFINE nodes == [n \in Node |-> IF n \in Executable(CreatedRun)
                                      THEN [CreatedRun.nodes[n] EXCEPT !.status = "ready"]
                                      ELSE CreatedRun.nodes[n]]
  <2>1. \A n \in Node : nodes[n] \in NodeState
    BY <1>3 DEF Run, NodeState, NodeStatus
  <2>2. nodes \in [Node -> NodeState]
    BY <2>1
  <2>3. run = [CreatedRun EXCEPT !.configured = TRUE, !.workspace = TRUE, !.nodes = nodes]
    BY <1>2 DEF InitialRun
  <2> HIDE DEF nodes
  <2> QED  BY <1>3, <2>2, <2>3 DEF Run
<1>5. ControlTyped
  <2>1. view \in [Coord -> Run]
    BY <1>1, <1>3, <1>4
  <2>2. <<>> \in Seq(Control)
    OBVIOUS
  <2> QED  BY <1>2, <1>4, <2>1, <2>2 DEF ControlTyped
<1>6. Acknowledged = {} /\ Open = {}
  BY <1>2 DEF Acknowledged, Open
<1>7. SessionKnows
  BY <1>1, <1>6, Places DEF SessionKnows, Known
<1> QED  BY <1>2, <1>5, <1>6, <1>7
         DEF ControlInv, Distinguished, OneOpen, KeepsNoCancel, CancelEnds

\* Both invariants hold in every state.
LEMMA ControlInvariance == Spec => [](IInv /\ ControlInv)
<1>1. IInv /\ ControlInv /\ [Next]_vars => IInv' /\ ControlInv'
  BY ControlInductive, Inductive DEF ControlStep
<1> QED  BY <1>1, Initially, ControlInitially, PTL DEF Spec

\* outstandingObservedControl: across crashes and takeovers at most one acknowledged control is not
\* completed, so that the first one found is the one to act on.
THEOREM ControlsAreFinishedInTurn == Spec => []OneOutstanding
<1>1. ControlInv => OneOutstanding
  BY DEF ControlInv, OneOpen, Open, Acknowledged, OneOutstanding
<1> QED  BY <1>1, ControlInvariance, PTL

\* finishRecoveredControl, applyBoundaryControl: an acknowledged cancel never waits in a paused run
\* that has no attempt to take up.
THEOREM CancelDoesNotWait == Spec => []PausedRunKeepsNoCancel
<1>1. ControlInv => PausedRunKeepsNoCancel
  <2> SUFFICES ASSUME ControlInv, run.status = "paused", Outstanding # None,
                      Active(run) \cup Orphaned(run) = {}
               PROVE  ActionOf[Outstanding] = "pause"
    BY DEF PausedRunKeepsNoCancel
  <2>1. Outstanding \in Open /\ Outstanding \in Control
    BY OutstandingIsOpen DEF ControlInv, ControlTyped, Open, Acknowledged
  <2>2. ActionOf[Outstanding] # "cancel"
    BY <2>1 DEF ControlInv, KeepsNoCancel
  <2> QED  BY <2>1, <2>2, CoordinatorConstants
<1> QED  BY <1>1, ControlInvariance, PTL

\* coordinateRecovered, applyBoundaryControl: from its acknowledgement to its completion a control
\* keeps every node from another attempt and every prepared attempt from its start.
THEOREM ControlOutranksWork == Spec => ControlStopsWork
<1>1. IInv /\ ControlInv /\ [Next]_vars =>
        (Outstanding # None =>
          \A n \in Node :
             /\ run'.nodes[n].attempts = run.nodes[n].attempts
             /\ run'.nodes[n].last.status = "running" => run.nodes[n].last.status = "running")
  <2> SUFFICES ASSUME IInv, ControlInv, [Next]_vars, Outstanding # None
               PROVE  StartsNothing(run, run')
    BY DEF StartsNothing
  <2>1. Open # {}
    BY OutstandingIsOpen DEF ControlInv
  <2> QED  BY <2>1, ControlInductive DEF ControlStep
<1> QED  BY <1>1, ControlInvariance, PTL DEF Spec, ControlStopsWork

-----------------------------------------------------------------------------
\* A superseded session stores nothing.
LEMMA StaleStoresNothing ==
    ASSUME NEW c \in Coord, Recovery(c) \/ Coordination(c), ~fresh[c]
    PROVE  run' = run
<1>1. \A batch, next : Commit(c, batch, next) => run' = run
  BY DEF Commit, store
<1>2. (\E next : Moves(c, next)) => run' = run
  BY DEF Moves, store
<1>3. CASE Recovery(c)
  <2>1. CASE Load(c) \/ Acquire(c) \/ Refused(c)
    BY <2>1 DEF Load, Acquire, Refused, store
  <2>2. CASE BeginReconciling(c) \/ RecoverBoundary(c)
    BY <1>1, <1>2, <2>2 DEF BeginReconciling, RecoverBoundary
  <2>3. CASE Inspect(c) \/ TerminateRecovered(c) \/ Orphan(c) \/ FinishRecoveredControl(c)
    BY <1>1, <1>2, <2>3 DEF Inspect, TerminateRecovered, Orphan, FinishRecoveredControl
  <2>4. CASE ContinueOrphaned(c) \/ PreflightFailsOrphaned(c) \/ ResumePaused(c) \/ StayStopped(c)
             \/ ContinueRunning(c) \/ Negotiate(c)
    BY <1>1, <1>2, <2>4 DEF ContinueOrphaned, PreflightFailsOrphaned, ResumePaused, StayStopped,
                            ContinueRunning, Negotiate
  <2> QED  BY <1>3, <2>1, <2>2, <2>3, <2>4 DEF Recovery
<1>4. CASE Coordination(c)
  <2>1. CASE Boundary(c) \/ Schedule(c) \/ StopCoordinating(c) \/ Preflight(c)
    BY <1>1, <1>2, <2>1 DEF Boundary, Schedule, StopCoordinating, Preflight
  <2>2. CASE PrepareAttempt(c) \/ Authorize(c) \/ Drive(c) \/ Collect(c) \/ ObserveControl(c)
    BY <1>1, <1>2, <2>2 DEF PrepareAttempt, Authorize, Drive, Collect, ObserveControl
  <2>3. CASE RequestTimeout(c) \/ Cancel(c) \/ CancelUnconfirmed(c) \/ FinishActiveControl(c)
    BY <1>1, <1>2, <2>3 DEF RequestTimeout, Cancel, CancelUnconfirmed, FinishActiveControl
  <2>4. CASE FinishExecution(c) \/ FinishTimeout(c) \/ ReadyDependents(c) \/ CompleteRun(c)
    BY <1>1, <1>2, <2>4 DEF FinishExecution, FinishTimeout, ReadyDependents, CompleteRun
  <2> QED  BY <1>4, <2>1, <2>2, <2>3, <2>4 DEF Coordination
<1> QED  BY <1>3, <1>4

\* Nothing does in a settled run. The reducer would take events of a blocked one: it is the
\* coordinator that offers none.
LEMMA SettledStays ==
    ASSUME IInv, ControlInv, [Next]_vars, Settled(run.status)
    PROVE  run' = run
<1>1. CASE run.status \in TerminalRun
  BY <1>1, ControlInductive DEF ControlStep
<1>2. CASE run.status = "blocked"
  <2>1. ASSUME NEW c \in Coord, Recovery(c) \/ Coordination(c) PROVE run' = run
    <3>1. CASE ~fresh[c]
      BY <2>1, <3>1, StaleStoresNothing
    <3>2. CASE fresh[c]
      <4>1. pc[c] \in {"schedule"} \cup Ending /\ view[c].status = "blocked"
        BY <1>2, <3>2, FreshKnows DEF Known
      <4>2. Schedule(c) \/ StopCoordinating(c) \/ Boundary(c)
        BY <2>1, <4>1
           DEF At, Ending, Recovery, Load, Acquire, Refused, BeginReconciling, RecoverBoundary, Inspect,
               TerminateRecovered, Orphan, FinishRecoveredControl, ContinueOrphaned,
               PreflightFailsOrphaned, OrphanToContinue, ResumePaused, StayStopped, ContinueRunning,
               Negotiate, Coordination, Preflight, PrepareAttempt, Authorize, Drive, Collect,
               ObserveControl, RequestTimeout, Cancel, CancelUnconfirmed, FinishActiveControl,
               FinishExecution, FinishTimeout, ReadyDependents, CompleteRun
      <4> QED  BY <4>1, <4>2 DEF Schedule, StopCoordinating, Boundary, Moves, store
    <3> QED  BY <3>1, <3>2
  <2>2. CASE \E c \in Coord : End(c) \/ SessionFails(c) \/ Crash(c)
    BY <2>2 DEF End, HostFails, Abandon, Release, SessionFails, Crash, Moves, store
  <2>3. CASE \/ \E k \in Control : SubmitControl(k)
             \/ \E e \in Execution : Host(e)
             \/ OperatorEdits
             \/ UNCHANGED vars
    BY <2>3 DEF SubmitControl, Host, PrepareReturns, AuthorizeReturns, WorkerEnds, SupervisorStops,
                WorkerChangesWorkspace, OperatorEdits, vars, store
  <2> QED  BY <2>1, <2>2, <2>3 DEF Next
<1> QED  BY <1>1, <1>2 DEF Settled

\* resume returns a settled run at once: blocked work stays blocked as surely as a finished run
\* stays finished, although the reducer would let a blocked run be cancelled.
THEOREM SettledIsFinal == Spec => [][Settled(run.status) => run' = run]_vars
<1>1. IInv /\ ControlInv /\ [Next]_vars => (Settled(run.status) => run' = run)
  BY SettledStays
<1> QED  BY <1>1, ControlInvariance, PTL DEF Spec

-----------------------------------------------------------------------------
\* OwnedRunSession.commit acknowledges a control in the mutation that stores its observation: a
\* submitted control waits or was observed, an observed one stays observed, a completed one
\* completed, whoever crashes, commits in vain or takes the run over.
THEOREM ControlsAreKept == Spec => [][ControlsRemain]_vars
<1>1. IInv /\ ControlInv /\ [Next]_vars => ControlsRemain
  BY ControlInductive DEF ControlStep
<1> QED  BY <1>1, ControlInvariance, PTL DEF Spec

\* RunCancelled: no run goes on, or ends otherwise, once its cancel is reported as completed.
THEOREM CancelIsCarriedOut == Spec => []CancelEnds
<1>1. ControlInv => CancelEnds
  BY DEF ControlInv
<1> QED  BY <1>1, ControlInvariance, PTL

-----------------------------------------------------------------------------
(* Commands *)

\* A command that submits has what it submits.
CommandSound ==
    /\ DOMAIN cmd = Coord /\ DOMAIN at = Coord /\ DOMAIN op = Coord
    /\ \A c \in Coord :
          /\ at[c] \in {"inspect", "submit"} /\ cmd[c] \in ControlCommand => op[c] \in Control
          /\ at[c] = "submit" => cmd[c] \in ControlCommand

\* A step between two reads leaves what the command is.
LEMMA GoesStep ==
    ASSUME CommandSound, NEW c \in Coord, NEW step, Goes(c, step),
           step = "inspect" => FALSE,
           step = "submit" => at[c] = "inspect" /\ cmd[c] \in ControlCommand
    PROVE  CommandSound'
BY DEF CommandSound, Goes

\* Nor does its end.
LEMMA EndsStep ==
    ASSUME CommandSound, NEW c \in Coord, NEW how, Ends(c, how)
    PROVE  CommandSound'
BY DEF CommandSound, Ends

\* A pause or cancel starts with its operation identifier.
LEMMA StartStep ==
    ASSUME CommandSound, NEW c \in Coord, Start(c)
    PROVE  CommandSound'
<1>1. PICK command \in ControlCommand \cup {"resume"}, k \in Control \cup {None} :
         /\ cmd' = [cmd EXCEPT ![c] = command] /\ op' = [op EXCEPT ![c] = k]
         /\ command \in ControlCommand => k \in Control
  BY DEF Start
<1>2. (at' = [at EXCEPT ![c] = "inspect"]) \/ (at[c] = "idle" /\ at' = at)
  BY DEF Start
<1> QED  BY <1>1, <1>2 DEF CommandSound

\* What a command does to the run is a step of its coordinator, an operator's submission or nothing.
LEMMA ProcessStep ==
    ASSUME CommandSound, NEW c \in Coord, Process(c)
    PROVE  CommandSound' /\ [Next]_vars
<1>1. CASE Start(c)
  <2>1. UNCHANGED vars
    BY <1>1 DEF Start
  <2> QED  BY <1>1, <2>1, StartStep
<1>2. CASE InspectBefore(c)
  BY <1>2, GoesStep, EndsStep DEF InspectBefore
<1>3. CASE Submit(c)
  <2>1. CommandSound'
    BY <1>3, GoesStep DEF Submit
  <2>2. op[c] \in Control
    BY <1>3 DEF Submit, CommandSound
  <2>3. SubmitControl(op[c]) \/ UNCHANGED vars
    BY <1>3 DEF Submit
  <2> QED  BY <2>1, <2>2, <2>3 DEF Next
<1>4. CASE Resume(c)
  BY <1>4, GoesStep DEF Resume, Next, Recovery
<1>5. CASE Session(c)
  <2>1. CommandSound'
    BY <1>5 DEF Session, CommandSound, cli
  <2>2. Recovery(c) \/ Coordination(c) \/ End(c) \/ SessionFails(c)
    BY <1>5 DEF Session, End
  <2> QED  BY <2>1, <2>2 DEF Next
<1>6. CASE OwnershipBlocked(c)
  BY <1>6, EndsStep DEF OwnershipBlocked, Next, Recovery
<1>7. CASE SessionOver(c)
  <2>1. CommandSound'
    BY <1>7, GoesStep, EndsStep DEF SessionOver
  <2> QED  BY <1>7, <2>1 DEF SessionOver, Next, End
<1>8. CASE Report(c)
  BY <1>8, EndsStep DEF Report
<1>9. CASE Killed(c)
  BY <1>9, EndsStep DEF Killed, Next
<1> QED  BY <1>1, <1>2, <1>3, <1>4, <1>5, <1>6, <1>7, <1>8, <1>9 DEF Process

\* So is whatever happens while commands run.
LEMMA CommandsStep == CommandSound /\ [CommandsNext]_allvars => CommandSound' /\ [Next]_vars
<1> SUFFICES ASSUME CommandSound, [CommandsNext]_allvars PROVE CommandSound' /\ [Next]_vars
  OBVIOUS
<1>1. CASE \E c \in Coord : Process(c)
  BY <1>1, ProcessStep
<1>2. CASE (\E e \in Execution : Host(e)) /\ UNCHANGED cli
  BY <1>2 DEF CommandSound, cli, Next
<1>3. CASE OperatorEdits /\ UNCHANGED cli
  BY <1>3 DEF CommandSound, cli, Next
<1>4. CASE UNCHANGED allvars
  BY <1>4 DEF CommandSound, cli, allvars
<1> QED  BY <1>1, <1>2, <1>3, <1>4 DEF CommandsNext

\* task run, pause, cancel and resume: whatever commands run against each other, the run sees
\* coordinators, operators that submit controls and nothing else.
THEOREM CommandsAreCoordinators == CommandsSpec => Spec
<1>1. CommandsInit => Init /\ CommandSound
  BY DEF CommandsInit, CommandSound
<1> QED  BY <1>1, CommandsStep, PTL DEF CommandsSpec, Spec

\* So a command, too, acts on the state the store holds while it has an execution.
THEOREM CommandsActOnCurrentState == CommandsSpec => []ExecutesOnCurrentState
BY CommandsAreCoordinators, ActsOnCurrentState, PTL

\* Where a session goes: on, or out of it because its commit is refused.
Proceeds(d, next) ==
    /\ pc'[d] \in {next, "rejected", "failing"}
    /\ \A c \in Coord : fresh'[c] => fresh[c]
    /\ \A c \in Coord \ {d} : pc'[c] = pc[c]

\* A session takes work up in one place: where it schedules.
LEMMA WorkBegins ==
    ASSUME IInv, NEW d \in Coord,
           Recovery(d) \/ Coordination(d) \/ End(d) \/ SessionFails(d) \/ Crash(d),
           NEW c \in Coord, fresh'[c], pc'[c] \in Working \cup Controlling
    PROVE  fresh[c] /\ (pc[c] \in Working \cup Controlling \/ (c = d /\ Schedule(c)))
<1> DEFINE Work == Working \cup Controlling
           Begun == fresh[c] /\ (pc[c] \in Work \/ (c = d /\ Schedule(c)))
<1> SUFFICES Begun
  OBVIOUS
<1>1. ASSUME NEW batch, NEW next, Commit(d, batch, next) PROVE Proceeds(d, next)
  BY <1>1 DEF Commit, session, Proceeds, IInv, SessionTyped
<1>2. ASSUME NEW next, Moves(d, next) PROVE Proceeds(d, next)
  BY <1>2 DEF Moves, session, Proceeds, IInv, SessionTyped
<1>3. ASSUME Gone(d) PROVE Proceeds(d, "idle")
  BY <1>3 DEF Gone, Proceeds, IInv, SessionTyped
<1>4. ASSUME NEW next, Proceeds(d, next), next \notin Work \/ pc[d] \in Work
      PROVE  Begun
  <2>1. {"rejected", "failing"} \cap Work = {}
    BY DEF Working, Controlling, Executing
  <2> QED  BY <1>4, <2>1 DEF Proceeds
<1>5. /\ {"idle", "recover", "inspect", "returning", "terminate", "capture", "orphaned", "continue",
          "schedule", "resuming", "failing", "abandon"} \cap Work = {}
      /\ Executing \cup {"preflight", "prepare"} \subseteq Work
  BY DEF Working, Controlling, Executing
<1> HIDE DEF Work, Begun
<1>6. CASE Recovery(d)
  <2>1. CASE Load(d)
    <3>1. c # d /\ fresh[c] /\ pc'[c] = pc[c]
      BY <2>1 DEF Load, IInv, SessionTyped, Working, Controlling, Executing
    <3> QED  BY <3>1 DEF Work, Begun
  <2>2. CASE Acquire(d)
    <3>1. Proceeds(d, "recover")
      BY <2>2 DEF Acquire, session, Proceeds, IInv, SessionTyped
    <3> QED  BY <1>4, <1>5, <3>1
  <2>3. CASE Refused(d)
    BY <1>3, <1>4, <1>5, <2>3 DEF Refused
  <2>4. CASE BeginReconciling(d) \/ RecoverBoundary(d)
    BY <1>1, <1>2, <1>4, <1>5, <2>4 DEF BeginReconciling, RecoverBoundary
  <2>5. CASE Inspect(d) \/ TerminateRecovered(d)
    BY <1>1, <1>2, <1>4, <1>5, <2>5 DEF Inspect, TerminateRecovered, Blocked
  <2>6. CASE Orphan(d) \/ FinishRecoveredControl(d) \/ ContinueOrphaned(d)
             \/ PreflightFailsOrphaned(d)
    BY <1>1, <1>4, <1>5, <2>6
       DEF Orphan, FinishRecoveredControl, ContinueOrphaned, PreflightFailsOrphaned
  <2>7. CASE ResumePaused(d) \/ StayStopped(d) \/ ContinueRunning(d)
    BY <1>1, <1>2, <1>4, <1>5, <2>7 DEF ResumePaused, StayStopped, ContinueRunning
  <2>8. CASE Negotiate(d)
    BY <1>1, <1>4, <1>5, <2>8 DEF Negotiate, At
  <2> QED  BY <1>6, <2>1, <2>2, <2>3, <2>4, <2>5, <2>6, <2>7, <2>8 DEF Recovery
<1>7. CASE Coordination(d)
  <2>1. CASE Boundary(d) \/ StopCoordinating(d)
    BY <1>1, <1>2, <1>4, <1>5, <2>1 DEF Boundary, StopCoordinating
  <2>2. CASE Schedule(d)
    <3>1. \E next : Proceeds(d, next)
      BY <1>1, <1>2, <2>2 DEF Schedule
    <3> QED  BY <2>2, <3>1 DEF Proceeds, Work, Begun
  <2>3. CASE Preflight(d)
    BY <1>1, <1>2, <1>4, <1>5, <2>3 DEF Preflight, At
  <2>4. CASE PrepareAttempt(d)
    BY <1>1, <1>4, <1>5, <2>4 DEF PrepareAttempt, At
  <2>5. CASE Authorize(d) \/ ObserveControl(d) \/ RequestTimeout(d)
    <3>1. pc[d] \in Executing /\ \E batch, next : Commit(d, batch, next)
      BY <2>5 DEF Authorize, ObserveControl, RequestTimeout, At, Executing
    <3> QED  BY <1>1, <1>4, <1>5, <3>1
  <2>6. CASE Drive(d) \/ Collect(d) \/ Cancel(d)
    <3>1. pc[d] \in Executing /\ \E next : Moves(d, next)
      BY <2>6 DEF Drive, Collect, Cancel, At, Executing
    <3> QED  BY <1>2, <1>4, <1>5, <3>1
  <2>7. CASE CancelUnconfirmed(d) \/ FinishActiveControl(d) \/ FinishExecution(d)
    BY <1>1, <1>4, <1>5, <2>7 DEF CancelUnconfirmed, FinishActiveControl, FinishExecution, At, Executing
  <2>8. CASE FinishTimeout(d) \/ ReadyDependents(d) \/ CompleteRun(d)
    BY <1>1, <1>2, <1>4, <1>5, <2>8 DEF FinishTimeout, ReadyDependents, CompleteRun, At, Executing
  <2> QED  BY <1>7, <2>1, <2>2, <2>3, <2>4, <2>5, <2>6, <2>7, <2>8 DEF Coordination
<1>8. CASE End(d) \/ SessionFails(d)
  <2>1. CASE HostFails(d) \/ Abandon(d) \/ SessionFails(d)
    <3>1. \E next \in {"abandon", "failing"} : Moves(d, next)
      BY <2>1 DEF HostFails, Abandon, SessionFails
    <3> QED  BY <1>2, <1>4, <1>5, <3>1
  <2>2. CASE Release(d)
    BY <1>3, <1>4, <1>5, <2>2 DEF Release
  <2> QED  BY <1>8, <2>1, <2>2 DEF End
<1>9. CASE Crash(d)
  BY <1>3, <1>4, <1>5, <1>9 DEF Crash
<1> QED  BY <1>6, <1>7, <1>8, <1>9

\* A process moves itself only.
LEMMA OthersStay ==
    ASSUME NEW d \in Coord,
           Recovery(d) \/ Coordination(d) \/ End(d) \/ SessionFails(d) \/ Crash(d)
    PROVE  \E place : pc' = [pc EXCEPT ![d] = place]
<1> DEFINE Stays == \E place : pc' = [pc EXCEPT ![d] = place]
<1> SUFFICES Stays
  OBVIOUS
<1>1. \A batch, next : Commit(d, batch, next) => Stays
  BY DEF Commit
<1>2. \A next : Moves(d, next) => Stays
  BY DEF Moves
<1>3. Gone(d) => Stays
  BY DEF Gone
<1> HIDE DEF Stays
<1>4. CASE Recovery(d)
  <2>1. CASE Load(d) \/ Acquire(d)
    BY <2>1 DEF Load, Acquire, Stays
  <2>2. CASE Refused(d)
    BY <1>3, <2>2 DEF Refused
  <2>3. CASE BeginReconciling(d) \/ RecoverBoundary(d) \/ Inspect(d)
    BY <1>1, <1>2, <2>3 DEF BeginReconciling, RecoverBoundary, Inspect
  <2>4. CASE TerminateRecovered(d) \/ Orphan(d) \/ FinishRecoveredControl(d)
    BY <1>1, <1>2, <2>4 DEF TerminateRecovered, Orphan, FinishRecoveredControl
  <2>5. CASE ContinueOrphaned(d) \/ PreflightFailsOrphaned(d) \/ ResumePaused(d)
    BY <1>1, <2>5 DEF ContinueOrphaned, PreflightFailsOrphaned, ResumePaused
  <2>6. CASE StayStopped(d) \/ ContinueRunning(d) \/ Negotiate(d)
    BY <1>1, <1>2, <2>6 DEF StayStopped, ContinueRunning, Negotiate
  <2> QED  BY <1>4, <2>1, <2>2, <2>3, <2>4, <2>5, <2>6 DEF Recovery
<1>5. CASE Coordination(d)
  <2>1. CASE Boundary(d) \/ Schedule(d) \/ StopCoordinating(d) \/ Preflight(d)
    BY <1>1, <1>2, <2>1 DEF Boundary, Schedule, StopCoordinating, Preflight
  <2>2. CASE PrepareAttempt(d) \/ Authorize(d) \/ Drive(d) \/ Collect(d) \/ ObserveControl(d)
    BY <1>1, <1>2, <2>2 DEF PrepareAttempt, Authorize, Drive, Collect, ObserveControl
  <2>3. CASE RequestTimeout(d) \/ Cancel(d) \/ CancelUnconfirmed(d) \/ FinishActiveControl(d)
    BY <1>1, <1>2, <2>3 DEF RequestTimeout, Cancel, CancelUnconfirmed, FinishActiveControl
  <2>4. CASE FinishExecution(d) \/ FinishTimeout(d) \/ ReadyDependents(d) \/ CompleteRun(d)
    BY <1>1, <1>2, <2>4 DEF FinishExecution, FinishTimeout, ReadyDependents, CompleteRun
  <2> QED  BY <1>5, <2>1, <2>2, <2>3, <2>4 DEF Coordination
<1>6. CASE End(d) \/ SessionFails(d) \/ Crash(d)
  BY <1>2, <1>3, <1>6 DEF End, HostFails, Abandon, Release, SessionFails, Crash
<1> QED  BY <1>4, <1>5, <1>6

-----------------------------------------------------------------------------
CommandTyped ==
    /\ cmd \in [Coord -> Command] /\ at \in [Coord -> Step] /\ exit \in [Coord -> Exit]
    /\ op \in [Coord -> Control \cup {None}]

\* A pause or cancel goes on to resume with its control submitted, and takes up work of the run
\* only after that control was carried out.
CommandKnows(c) ==
    /\ (pc[c] = "idle") = (at[c] # "session")
    /\ cmd[c] \in ControlCommand =>
         /\ op[c] \in Control /\ ActionOf[op[c]] = cmd[c]
         /\ at[c] \in {"resume", "session"} => op[c] \in pending \cup Acknowledged
         /\ fresh[c] /\ pc[c] \in Working \cup Controlling => op[c] \in completed
    /\ exit[c] = "refused" => Settled(run.status) /\ ~Reached(cmd[c], run.status)

CommandInv == CommandSound /\ CommandTyped /\ \A c \in Coord : CommandKnows(c)

\* Work begins with nothing pending and nothing open.
LEMMA WorkBegun ==
    ASSUME IInv, [Next]_vars, NEW c \in Coord, fresh'[c], pc'[c] \in Working \cup Controlling
    PROVE  /\ fresh[c]
           /\ pc[c] \in Working \cup Controlling \/ Schedule(c)
<1>1. CASE \E d \in Coord :
             Recovery(d) \/ Coordination(d) \/ End(d) \/ SessionFails(d) \/ Crash(d)
  BY <1>1, WorkBegins
<1>2. CASE \/ \E k \in Control : SubmitControl(k)
           \/ \E e \in Execution : Host(e)
           \/ OperatorEdits
           \/ UNCHANGED vars
  <2>1. UNCHANGED <<session, pc>>
    BY <1>2 DEF SubmitControl, Host, PrepareReturns, AuthorizeReturns, WorkerEnds, SupervisorStops,
                WorkerChangesWorkspace, OperatorEdits, vars
  <2> QED  BY <2>1 DEF session
<1> QED  BY <1>1, <1>2 DEF Next

\* A command that goes on keeps what it knows.
LEMMA KnowsStill ==
    ASSUME IInv, ControlInv, [Next]_vars, NEW c \in Coord, CommandKnows(c),
           cmd'[c] = cmd[c], op'[c] = op[c],
           (pc'[c] = "idle") = (at'[c] # "session"),
           at'[c] \in {"resume", "session"} =>
              \/ at[c] \in {"resume", "session"}
              \/ cmd[c] \notin ControlCommand
              \/ op[c] \in pending' \cup Acknowledged',
           exit'[c] = "refused" /\ exit[c] # "refused" =>
              Settled(run.status) /\ ~Reached(cmd[c], run.status)
    PROVE  CommandKnows(c)'
<1>1. ControlsRemain
  BY ControlInductive DEF ControlStep
<1>2. ASSUME cmd[c] \in ControlCommand, fresh'[c], pc'[c] \in Working \cup Controlling
      PROVE  op[c] \in completed'
  <2>1. fresh[c] /\ (pc[c] \in Working \cup Controlling \/ Schedule(c))
    BY <1>2, WorkBegun
  <2>2. CASE pc[c] \in Working \cup Controlling
    BY <1>1, <1>2, <2>1, <2>2 DEF CommandKnows, ControlsRemain
  <2>3. CASE Schedule(c)
    <3>1. pc[c] = "schedule" /\ pending = {} /\ view[c].status = "running"
      BY <2>3 DEF Schedule, At
    <3>2. Open = {}
      BY <2>1, <3>1 DEF ControlInv, SessionKnows, Known, IInv, FreshIsCurrent
    <3>3. op[c] \in Acknowledged
      BY <1>2, <3>1 DEF CommandKnows
    <3> QED  BY <1>1, <3>2, <3>3 DEF Open, ControlsRemain
  <2> QED  BY <2>1, <2>2, <2>3
<1>3. ASSUME exit'[c] = "refused" PROVE Settled(run'.status) /\ ~Reached(cmd[c], run'.status)
  <2>1. Settled(run.status) /\ ~Reached(cmd[c], run.status)
    BY <1>3 DEF CommandKnows
  <2> QED  BY <2>1, SettledStays
<1> QED  BY <1>1, <1>2, <1>3 DEF CommandKnows, ControlsRemain

\* What a process does to its own command.
Own(c) ==
    /\ cmd' = [cmd EXCEPT ![c] = cmd'[c]] /\ op' = [op EXCEPT ![c] = op'[c]]
    /\ at' = [at EXCEPT ![c] = at'[c]] /\ exit' = [exit EXCEPT ![c] = exit'[c]]
    /\ cmd'[c] \in Command /\ op'[c] \in Control \cup {None} /\ at'[c] \in Step /\ exit'[c] \in Exit

\* The next step of a command, or its end.
LEMMA GoesOwn ==
    ASSUME CommandTyped, NEW c \in Coord, NEW step \in Step, Goes(c, step)
    PROVE  Own(c) /\ cmd' = cmd /\ op' = op /\ exit' = exit /\ at'[c] = step
BY DEF CommandTyped, Goes, Own

\* A command that ends is idle.
LEMMA EndsOwn ==
    ASSUME CommandTyped, NEW c \in Coord, NEW how \in Exit, Ends(c, how)
    PROVE  Own(c) /\ cmd' = cmd /\ op' = op /\ exit'[c] = how /\ at'[c] = "idle"
<1>1. "idle" \in Step
  BY DEF Step
<1> QED  BY <1>1 DEF CommandTyped, Ends, Own

\* A command starts with an operation identifier of its own action.
LEMMA StartKnows ==
    ASSUME CommandTyped, NEW c \in Coord, CommandKnows(c), Start(c)
    PROVE  Own(c) /\ CommandKnows(c)'
<1>1. PICK command \in ControlCommand \cup {"resume"},
           k \in Control \cup {None} :
         /\ k # None => ActionOf[k] = command
         /\ cmd' = [cmd EXCEPT ![c] = command] /\ op' = [op EXCEPT ![c] = k]
         /\ (k = None) = (command \notin ControlCommand)
  BY DEF Start
<1>2. /\ at[c] = "idle" /\ pc[c] = "idle" /\ UNCHANGED vars
      /\ \/ at' = [at EXCEPT ![c] = "inspect"] /\ exit' = [exit EXCEPT ![c] = "none"]
         \/ exit' = [exit EXCEPT ![c] = "usage"] /\ at' = at
  BY DEF Start
<1>3. /\ command \in Command /\ "inspect" \in Step \ {"session", "resume"}
      /\ {"none", "usage"} \subseteq Exit
  BY <1>1 DEF Command, Step, Exit
<1>4. Own(c)
  BY <1>1, <1>2, <1>3 DEF Own, CommandTyped
<1>5. cmd'[c] = command /\ op'[c] = k /\ pc'[c] = "idle" /\ at'[c] \in {"idle", "inspect"}
      /\ exit'[c] \in {"none", "usage"}
  BY <1>1, <1>2 DEF CommandTyped, vars
<1>6. pc'[c] \notin Working \cup Controlling
  BY <1>5 DEF Working, Controlling, Executing
<1> QED  BY <1>1, <1>4, <1>5, <1>6 DEF CommandKnows

\* Every later step of the command.
LEMMA OwnKnows ==
    ASSUME IInv, ControlInv, CommandInv, [Next]_vars, NEW c \in Coord, Process(c)
    PROVE  Own(c) /\ CommandKnows(c)'
<1> USE DEF CommandInv
<1>0. CommandTyped /\ CommandKnows(c) /\ {"inspect", "submit", "resume", "session", "report"} \subseteq Step
      /\ {"none", "reached", "refused", "pending", "short", "error"} \subseteq Exit
  BY DEF Step, Exit
<1>a. DOMAIN pc = Coord
  BY DEF IInv, SessionTyped
<1>b. ASSUME UNCHANGED vars PROVE pc' = pc
  BY <1>b DEF vars
<1>1. CASE Start(c)
  BY <1>0, <1>1, StartKnows
<1>2. CASE InspectBefore(c)
  <2>1. at[c] = "inspect" /\ pc'[c] = "idle"
    BY <1>2, <1>b, <1>0 DEF InspectBefore, CommandKnows
  <2>2. ASSUME NEW step \in {"resume", "submit"}, Goes(c, step),
               step = "resume" => cmd[c] \notin ControlCommand
        PROVE  Own(c) /\ CommandKnows(c)'
    BY <1>0, <2>1, <2>2, GoesOwn, KnowsStill
  <2>3. ASSUME NEW how \in {"reached", "refused"}, Ends(c, how),
               how = "refused" => Settled(run.status) /\ ~Reached(cmd[c], run.status)
        PROVE  Own(c) /\ CommandKnows(c)'
    BY <1>0, <2>1, <2>3, EndsOwn, KnowsStill
  <2>4. CannotAcceptControl(cmd[c], run.status) => Settled(run.status)
    BY DEF CannotAcceptControl, Settled, TerminalRun
  <2> QED  BY <1>2, <2>2, <2>3, <2>4 DEF InspectBefore
<1>3. CASE Submit(c)
  <2>1. at[c] = "submit" /\ pc'[c] = "idle"
    <3>1. SubmitControl(op[c]) => pc' = pc
      BY DEF SubmitControl
    <3> QED  BY <1>3, <1>b, <1>0, <3>1 DEF Submit, CommandKnows
  <2>2. op[c] \in pending' \cup Acknowledged'
    <3>1. CASE SubmitControl(op[c])
      BY <3>1 DEF SubmitControl
    <3>2. CASE Submitted(op[c]) /\ UNCHANGED vars
      BY <3>2 DEF Submitted, Acknowledged, vars, store
    <3> QED  BY <1>3, <3>1, <3>2 DEF Submit
  <2>3. Goes(c, "resume")
    BY <1>3 DEF Submit
  <2> QED  BY <1>0, <2>1, <2>2, <2>3, GoesOwn, KnowsStill
<1>4. CASE Resume(c)
  <2>1. CASE Load(c) /\ Goes(c, "session")
    <3>1. pc'[c] = "loaded" /\ at[c] = "resume"
      BY <1>4, <1>a, <2>1 DEF Load, Resume
    <3> QED  BY <1>0, <2>1, <3>1, GoesOwn, KnowsStill
  <2>2. CASE Settled(run.status) /\ UNCHANGED vars /\ Goes(c, "report")
    <3>1. pc'[c] = "idle" /\ at[c] = "resume"
      BY <1>0, <1>4, <1>b, <2>2 DEF Resume, CommandKnows
    <3> QED  BY <1>0, <2>2, <3>1, GoesOwn, KnowsStill
  <2> QED  BY <1>4, <2>1, <2>2 DEF Resume
<1>5. CASE Session(c)
  <2>1. at[c] = "session" /\ pc'[c] # "idle" /\ UNCHANGED cli
    BY <1>5 DEF Session
  <2>2. Own(c)
    BY <1>0, <2>1 DEF Own, CommandTyped, cli
  <2> QED  BY <1>0, <2>1, <2>2, KnowsStill DEF cli
<1>6. CASE OwnershipBlocked(c)
  <2>1. pc'[c] = "idle" /\ Ends(c, "pending")
    BY <1>6, <1>a DEF OwnershipBlocked, Refused, Gone
  <2> QED  BY <1>0, <2>1, EndsOwn, KnowsStill
<1>7. CASE SessionOver(c)
  <2>1. pc'[c] = "idle" /\ at[c] = "session"
    BY <1>7, <1>a DEF SessionOver, Release, Gone
  <2>2. ASSUME NEW how \in {"error", "reached", "short"}, Ends(c, how)
        PROVE  Own(c) /\ CommandKnows(c)'
    BY <1>0, <2>1, <2>2, EndsOwn, KnowsStill
  <2>3. ASSUME Goes(c, "report") PROVE Own(c) /\ CommandKnows(c)'
    BY <1>0, <2>1, <2>3, GoesOwn, KnowsStill
  <2> QED  BY <1>7, <2>2, <2>3 DEF SessionOver, Judged
<1>8. CASE Report(c)
  <2>1. pc'[c] = "idle" /\ at[c] = "report"
    BY <1>0, <1>8, <1>b DEF Report, CommandKnows
  <2>2. \E how \in {"reached", "short"} : Ends(c, how)
    BY <1>8 DEF Report, Judged
  <2> QED  BY <1>0, <2>1, <2>2, EndsOwn, KnowsStill
<1>9. CASE Killed(c)
  <2>1. pc'[c] = "idle" /\ Ends(c, "none")
    BY <1>9, <1>a, <1>b DEF Killed, Crash, Gone
  <2> QED  BY <1>0, <2>1, EndsOwn, KnowsStill
<1> QED  BY <1>1, <1>2, <1>3, <1>4, <1>5, <1>6, <1>7, <1>8, <1>9 DEF Process

\* Whatever a command does, it is nothing to the others but what it does to the run.
LEMMA CommandInductive ==
    ASSUME IInv, ControlInv, CommandInv, [CommandsNext]_allvars
    PROVE  CommandInv' /\ [Next]_vars
<1>1. CommandSound' /\ [Next]_vars
  BY CommandsStep DEF CommandInv
<1>2. ASSUME NEW d \in Coord, Process(d) PROVE CommandInv'
  <2>1. Own(d) /\ CommandKnows(d)'
    BY <1>1, <1>2, OwnKnows
  <2>2. CommandTyped'
    BY <2>1 DEF Own, CommandInv, CommandTyped
  <2>3. ASSUME NEW c \in Coord, c # d PROVE CommandKnows(c)'
    <3>1. cmd'[c] = cmd[c] /\ op'[c] = op[c] /\ at'[c] = at[c] /\ exit'[c] = exit[c]
      BY <2>1, <2>3 DEF Own, CommandInv, CommandTyped
    <3>2. pc'[c] = pc[c]
      <4>1. CASE Recovery(d) \/ Coordination(d) \/ End(d) \/ SessionFails(d) \/ Crash(d)
        BY <2>3, <4>1, OthersStay DEF IInv, SessionTyped
      <4>2. CASE SubmitControl(op[d]) \/ UNCHANGED vars
        BY <4>2 DEF SubmitControl, vars
      <4> QED  BY <1>2, <4>1, <4>2
               DEF Process, Start, InspectBefore, Submit, Resume, Session, OwnershipBlocked,
                   SessionOver, Report, Killed, Recovery, End
    <3> QED  BY <1>1, <3>1, <3>2, KnowsStill DEF CommandInv, CommandKnows
  <2> QED  BY <1>1, <2>1, <2>2, <2>3 DEF CommandInv
<1>3. CASE UNCHANGED cli /\ UNCHANGED pc
  <2>1. ASSUME NEW c \in Coord PROVE CommandKnows(c)'
    BY <1>1, <1>3, KnowsStill DEF CommandInv, CommandKnows, cli
  <2> QED  BY <1>1, <1>3, <2>1 DEF CommandInv, CommandTyped, cli
<1>4. CASE \/ (\E e \in Execution : Host(e)) /\ UNCHANGED cli
           \/ OperatorEdits /\ UNCHANGED cli
           \/ UNCHANGED allvars
  BY <1>3, <1>4 DEF Host, PrepareReturns, AuthorizeReturns, WorkerEnds, SupervisorStops,
                    WorkerChangesWorkspace, OperatorEdits, vars, allvars, cli
<1> QED  BY <1>1, <1>2, <1>4 DEF CommandsNext

\* task run is the first command, and has no session yet.
LEMMA CommandInitially == CommandsInit => CommandInv
<1> SUFFICES ASSUME CommandsInit PROVE CommandInv
  OBVIOUS
<1>1. PICK c \in Coord : /\ cmd = [d \in Coord |-> IF d = c THEN "run" ELSE "resume"]
                         /\ at = [d \in Coord |-> IF d = c THEN "resume" ELSE "idle"]
  BY DEF CommandsInit
<1>2. op = [d \in Coord |-> None] /\ exit = [d \in Coord |-> "none"]
  BY DEF CommandsInit
<1>3. CommandTyped /\ CommandSound
  BY <1>1, <1>2 DEF CommandTyped, CommandSound, Command, ControlCommand, Step, Exit
<1>4. \A d \in Coord : pc[d] = "idle"
  BY CoordinatorConstants DEF CommandsInit, Init
<1> QED  BY <1>1, <1>2, <1>3, <1>4 DEF CommandInv, CommandKnows, ControlCommand

\* The invariants of the coordinator, and those of the commands that run it.
LEMMA CommandInvariance == CommandsSpec => [](IInv /\ ControlInv /\ CommandInv)
<1>1. CommandsInit => IInv /\ ControlInv /\ CommandInv
  BY Initially, ControlInitially, CommandInitially DEF CommandsInit
<1>2. IInv /\ ControlInv /\ CommandInv /\ [CommandsNext]_allvars => IInv' /\ ControlInv' /\ CommandInv'
  BY CommandInductive, ControlInductive, Inductive DEF ControlStep
<1> QED  BY <1>1, <1>2, PTL DEF CommandsSpec

\* cannotAcceptControl: "Control blocked" rests on an inspection that is stale when it is printed,
\* and stands all the same.
THEOREM RefusalsAreFinal == CommandsSpec => []RefusalIsFinal
<1>1. CommandInv => RefusalIsFinal
  BY DEF CommandInv, CommandKnows, RefusalIsFinal
<1> QED  BY <1>1, CommandInvariance, PTL

\* controlDurableRun: a process that resumes the run to cancel it never executes its work, one that
\* pauses it only when its own pause was already completed by another process.
THEOREM ControlCommandsRunNothing == CommandsSpec => []ControlCommandRunsNothing
<1>1. IInv /\ ControlInv /\ CommandInv => ControlCommandRunsNothing
  <2> SUFFICES ASSUME IInv, ControlInv, CommandInv, NEW c \in Coord,
                      cmd[c] \in ControlCommand, At(c, Executing)
               PROVE  cmd[c] = "pause" /\ op[c] \in completed
    BY DEF ControlCommandRunsNothing
  <2>1. pc[c] \in Working \cup Controlling /\ pc[c] \in Acting
    BY DEF At, Working, Acting
  <2>2. fresh[c] /\ run.status = "running"
    BY <2>1 DEF IInv, ActingIsFresh, ControlInv, SessionKnows, Known
  <2>3. op[c] \in completed /\ ActionOf[op[c]] = cmd[c]
    BY <2>1, <2>2 DEF CommandInv, CommandKnows
  <2>4. cmd[c] # "cancel"
    BY <2>2, <2>3 DEF ControlInv, CancelEnds
  <2> QED  BY <2>3, <2>4 DEF ControlCommand
<1> QED  BY <1>1, CommandInvariance, PTL

-----------------------------------------------------------------------------
(* Whose worker may run *)

\* The nodes whose attempt the run says is running.
Runs(r) == {n \in Node : r.nodes[n].last.status = "running"}

\* The executions whose worker may be running, or may be once a call under way arrives.
Threats == {e \in Execution : \/ host[e] \in MaybeRunning
                              \/ host[e] = "waiting" /\ <<"authorize", e>> \in inflight}

\* A node that runs has lost its attempt, and nothing came of that yet.
Parted(r, n) == r.nodes[n].status = "running" => r.nodes[n].last.status = "orphaned"

\* Only the attempt that a session would take up runs, and only in a run that is not stopped; a node
\* whose attempt does not run does not run either, but one that lost it.
RunSound(r) ==
    /\ \A n \in Runs(r) : /\ r.nodes[n].status = "running" /\ n = First(Active(r))
                          /\ r.status \in {"running", "recovery-blocked"}
    /\ \A n \in Node \ Runs(r) : Parted(r, n)

\* A run that succeeded did so with every node.
Finished(r) == r.status = "succeeded" => \A n \in Node : r.nodes[n].status = "succeeded"

\* Every such execution is of the running attempt of its node.
Owned(r, executions) == \A e \in executions : e[1] \in Runs(r) /\ r.nodes[e[1]].attempts = e[2]

\* An authorization under way is of an attempt the run has, whose preparation returned.
Sent(r, calls) ==
    \A e \in Execution : <<"authorize", e>> \in calls =>
        e[2] <= r.nodes[e[1]].attempts /\ <<"prepare", e>> \notin calls

\* Where the execution under way is known to be over, and where none is.
Over == {"capture", "finishing", "timedOut", "controlled"}
NoneRuns == {"orphaned", "resuming", "preflight", "prepare", "preparing", "succeeded", "complete"}

\* What a fresh session may rely on, by where it is.
Stands(place, r, executions) ==
    /\ place \in Over /\ Active(r) # {} => ExecutionOf(r, First(Active(r))) \notin executions
    /\ place \in NoneRuns => Runs(r) = {}
    /\ place \in {"continue", "schedule"} /\ r.status = "running" => Runs(r) = {}

WorkInv ==
    /\ host \in [Execution -> HostStatus]
    /\ RunSound(run) /\ Finished(run) /\ Owned(run, Threats) /\ Sent(run, inflight)
    /\ \A c \in Coord : fresh[c] => Stands(pc[c], run, Threats)

-----------------------------------------------------------------------------
\* At most one execution threatens to run, that of the first active attempt; none if none runs.
LEMMA OneThreat ==
    ASSUME NEW r, NEW T \in SUBSET Execution, RunSound(r), Owned(r, T)
    PROVE  /\ \A e \in T : e = ExecutionOf(r, First(Active(r))) /\ Active(r) # {}
           /\ Runs(r) = {} => T = {}
<1>1. ASSUME NEW e \in T PROVE e = ExecutionOf(r, First(Active(r))) /\ Active(r) # {}
  <2>1. e[1] \in Runs(r) /\ r.nodes[e[1]].attempts = e[2]
    BY DEF Owned
  <2>2. e[1] = First(Active(r)) /\ e[1] \in Active(r)
    BY <2>1 DEF RunSound, Runs, Active
  <2>3. e = <<e[1], e[2]>>
    BY DEF Execution
  <2> QED  BY <2>1, <2>2, <2>3 DEF ExecutionOf
<1> QED  BY <1>1 DEF Owned

\* So whatever may be running belongs to the attempt the store says is running.
LEMMA OwnedWorker == WorkInv => WorkerIsOwned
<1> SUFFICES ASSUME WorkInv, NEW e \in Execution, host[e] \in MaybeRunning
             PROVE  /\ run.nodes[e[1]].attempts = e[2]
                    /\ run.nodes[e[1]].last.status = "running"
                    /\ run.status \in {"running", "recovery-blocked"}
                    /\ \A d \in Execution \ {e} : host[d] \notin MaybeRunning
  BY DEF WorkerIsOwned
<1>1. e \in Threats /\ Threats \in SUBSET Execution
  BY DEF Threats
<1>2. e[1] \in Runs(run) /\ run.nodes[e[1]].attempts = e[2]
  BY <1>1 DEF WorkInv, Owned
<1>3. run.nodes[e[1]].last.status = "running" /\ run.status \in {"running", "recovery-blocked"}
  BY <1>2 DEF WorkInv, RunSound, Runs
<1>4. \A d \in Threats : d = e
  BY <1>1, OneThreat DEF WorkInv
<1> QED  BY <1>2, <1>3, <1>4 DEF Threats

\* A run that stops leaves no attempt running.
LEMMA QuietWhereStopped == WorkInv => StoppedRunIsQuiet
<1> SUFFICES ASSUME WorkInv, run.status \in TerminalRun \cup {"paused", "blocked"}, NEW n \in Node
             PROVE  /\ run.nodes[n].last.status # "running"
                    /\ run.nodes[n].status = "running" =>
                          /\ run.nodes[n].last.status = "orphaned"
                          /\ run.status # "succeeded"
                    /\ run.status # "succeeded" \/ run.nodes[n].status = "succeeded"
  BY DEF StoppedRunIsQuiet
<1>1. RunSound(run) /\ Finished(run)
  BY DEF WorkInv
<1>2. n \notin Runs(run)
  BY <1>1 DEF RunSound, TerminalRun
<1>3. Parted(run, n)
  BY <1>1, <1>2 DEF RunSound
<1> QED  BY <1>1, <1>2, <1>3 DEF Runs, Parted, Finished

\* What stores nothing and adds no threat.
LEMMA WorkMoves ==
    ASSUME WorkInv, UNCHANGED run, host' \in [Execution -> HostStatus], Threats' \subseteq Threats,
           inflight' \subseteq inflight,
           \A c \in Coord : fresh'[c] => Stands(pc'[c], run, Threats')
    PROVE  WorkInv'
<1>1. Owned(run, Threats') /\ Sent(run, inflight')
  BY DEF WorkInv, Owned, Sent
<1> QED  BY <1>1 DEF WorkInv

\* A place that says nothing of the work.
LEMMA Elsewhere ==
    ASSUME NEW place, place \notin Over \cup NoneRuns \cup {"continue", "schedule"}, NEW r, NEW T
    PROVE  Stands(place, r, T)
BY DEF Stands

\* With fewer threats a session knows as much.
LEMMA StandsStill ==
    ASSUME NEW place, NEW r, NEW T, NEW U \in SUBSET T, Stands(place, r, T)
    PROVE  Stands(place, r, U)
BY DEF Stands

\* A step of a session that stores nothing.
LEMMA WorkMovesOn ==
    ASSUME IInv, WorkInv, NEW c \in Coord, NEW next, pc' = [pc EXCEPT ![c] = next],
           UNCHANGED <<store, session>>,
           host' \in [Execution -> HostStatus], Threats' \subseteq Threats, inflight' \subseteq inflight,
           fresh[c] => Stands(next, run, Threats')
    PROVE  WorkInv'
<1>1. ASSUME NEW d \in Coord, fresh[d] PROVE Stands(pc'[d], run, Threats')
  <2>1. CASE d = c
    BY <1>1, <2>1 DEF IInv, SessionTyped
  <2>2. CASE d # c
    <3>1. pc'[d] = pc[d] /\ Stands(pc[d], run, Threats)
      BY <1>1, <2>2 DEF WorkInv
    <3> QED  BY <3>1, StandsStill
  <2> QED  BY <2>1, <2>2
<1> QED  BY <1>1, WorkMoves DEF store, session

\* What a commit makes of the run must leave the work in order.
Kept(c, batch, next) ==
    \A s \in Materialized(view[c], batch) \cap Run :
        RunSound(s) /\ Owned(s, Threats') /\ Sent(s, inflight') /\ Stands(next, s, Threats')

\* A run succeeds with all its nodes, and then accepts nothing.
LEMMA FinishedStays ==
    ASSUME NEW r \in Run, Finished(r), NEW batch, NEW types, NEW seen, NEW done,
           Batch(batch, types, seen, done), NEW s \in Materialized(r, batch)
    PROVE  Finished(s)
<1> DEFINE S == {t \in Run : Finished(t)}
<1>1. ASSUME NEW i \in 1..Len(batch), NEW t \in S PROVE Applied(t, batch[i]) \subseteq S
  <2> SUFFICES ASSUME NEW u \in Applied(t, batch[i]) PROVE u \in S
    OBVIOUS
  <2> PICK e : e = batch[i]
    OBVIOUS
  <2>1. Typed(e) /\ t \in Run /\ u \in Applied(t, e)
    BY DEF Batch
  <2>2. u \in Run /\ t.status # "succeeded"
    BY <2>1, EventEffect DEF Applied, TerminalRun
  <2>3. CASE e.type \notin RunWide
    BY <2>1, <2>2, <2>3, EventEffect DEF Finished
  <2>4. CASE e.type \in RunWide \ {"RunCompleted"}
    <3>1. \E status \in RunStatus \ {"succeeded"} : u = [t EXCEPT !.status = status]
      BY <2>1, <2>4 DEF Applied, RunWide, RunStatus, When, RunPaused, RunResumed, RunBlocked, RunCancelled,
                        RunRecoveryBlocked
    <3> QED  BY <2>1, <2>2, <3>1 DEF Run, Finished
  <2>5. CASE e.type = "RunCompleted"
    <3>1. /\ u = [t EXCEPT !.status = e.outcome]
          /\ e.outcome = "succeeded" => \A n \in Node : t.nodes[n].status = "succeeded"
      BY <2>1, <2>5 DEF Applied, When, RunCompleted
    <3> QED  BY <2>1, <2>2, <3>1 DEF Run, Finished
  <2> QED  BY <2>3, <2>4, <2>5
<1>2. Len(batch) \in Nat
  BY DEF Batch
<1>3. r \in S
  OBVIOUS
<1> HIDE DEF S
<1>4. Materialized(r, batch) \subseteq S
  BY <1>1, <1>2, <1>3, BatchPreserves
<1> QED  BY <1>4 DEF S

\* A commit whose session sees to that. Where it stores nothing the world must not move on.
LEMMA WorkCommit ==
    ASSUME IInv, ControlInv, WorkInv, NEW c \in Coord, NEW batch, NEW next, Commit(c, batch, next),
           NEW types, NEW seen, NEW done, fresh[c] => Batch(batch, types, seen, done),
           fresh[c] => Kept(c, batch, next),
           host' \in [Execution -> HostStatus],
           \/ Threats' \subseteq Threats /\ inflight' \subseteq inflight
           \/ (batch # <<>> /\ (pc'[c] # "rejected" /\ pc'[c] # "failing"))
    PROVE  WorkInv'
<1> USE DEF store, session, lease
<1>1. ASSUME batch # <<>>, fresh[c], run' \in Materialized(view[c], batch),
             fresh' = [d \in Coord |-> d = c], pc' = [pc EXCEPT ![c] = next]
      PROVE  WorkInv'
  <2>1. view[c] = run /\ run \in Run /\ DOMAIN pc = Coord
    BY <1>1 DEF IInv, FreshIsCurrent, ControlInv, ControlTyped, SessionTyped
  <2>2. run' \in Run
    BY <1>1, <2>1, BatchEffect
  <2>3. /\ RunSound(run') /\ Owned(run', Threats') /\ Sent(run', inflight')
        /\ Stands(next, run', Threats') /\ Finished(run')
    BY <1>1, <2>1, <2>2, FinishedStays DEF Kept, WorkInv
  <2>4. \A d \in Coord : fresh'[d] => Stands(pc'[d], run', Threats')
    BY <1>1, <2>1, <2>3
  <2> QED  BY <2>3, <2>4 DEF WorkInv
<1>2. ASSUME pc' = [pc EXCEPT ![c] = next], UNCHANGED <<store, session>>, batch = <<>>
      PROVE  WorkInv'
  <2>1. ASSUME fresh[c] PROVE Stands(next, run, Threats')
    <3>1. run \in Run /\ run \in Materialized(view[c], batch)
      BY <1>2, <2>1, EmptyBatch DEF IInv, FreshIsCurrent, ControlInv, ControlTyped
    <3> QED  BY <2>1, <3>1 DEF Kept
  <2> QED  BY <1>2, <2>1, WorkMovesOn
<1>3. ASSUME NEW place \in {"rejected", "failing"}, pc' = [pc EXCEPT ![c] = place],
             UNCHANGED <<store, session>>
      PROVE  WorkInv'
  <2>1. Stands(place, run, Threats') /\ pc'[c] = place
    BY <1>3, Elsewhere DEF Over, NoneRuns, IInv, SessionTyped
  <2> QED  BY <1>3, <2>1, WorkMovesOn
<1> QED  BY <1>1, <1>2, <1>3, Zenon DEF Commit

\* What the batch so far leads to, event by event.
LEMMA StepsLead ==
    ASSUME NEW r, NEW batch, Len(batch) \in Nat, NEW P, r \in P[0],
           \A i \in 1..Len(batch) : \A s \in P[i - 1] : Applied(s, batch[i]) \subseteq P[i]
    PROVE  Materialized(r, batch) \subseteq P[Len(batch)]
<1> DEFINE l == Len(batch)
<1>1. PICK f : Steps(f, r, batch, l) /\ Materialized(r, batch) = f[l]
  BY MaterializedSteps, Zenon
<1> DEFINE T == {k \in Nat : k <= l /\ ~(f[k] \subseteq P[k])}
<1>2. ASSUME T # {} PROVE FALSE
  <2>1. PICK k \in T : \A m \in T : k <= m
    BY <1>2, LeastNumber
  <2>2. k \in 0..l
    OBVIOUS
  <2>3. f[k] = IF k = 0 THEN {r} ELSE UNION {Applied(s, batch[k]) : s \in f[k - 1]}
    BY <1>1, <2>2, Zenon DEF Steps
  <2>4. CASE k = 0
    BY <2>1, <2>3, <2>4
  <2>5. CASE k # 0
    <3>1. k - 1 \in Nat /\ k - 1 <= l /\ k - 1 \notin T
      BY <2>1, <2>5
    <3>2. k \in 1..l /\ f[k - 1] \subseteq P[k - 1]
      BY <2>5, <3>1
    <3> QED  BY <2>1, <2>3, <2>5, <3>2
  <2> QED  BY <2>4, <2>5
<1> QED  BY <1>1, <1>2

\* Two events.
LEMMA Pair ==
    ASSUME NEW r, NEW batch, Len(batch) = 2, NEW s \in Materialized(r, batch)
    PROVE  \E t \in Applied(r, batch[1]) : s \in Applied(t, batch[2])
<1>1. Len(batch) \in Nat
  OBVIOUS
<1>2. PICK f : Steps(f, r, batch, Len(batch)) /\ Materialized(r, batch) = f[Len(batch)]
  BY <1>1, MaterializedSteps, Zenon
<1>3. /\ f[0] = {r} /\ f[1] = UNION {Applied(t, batch[1]) : t \in f[0]}
      /\ f[2] = UNION {Applied(t, batch[2]) : t \in f[1]}
  <2>1. /\ 0 \in 0..2 /\ 1 \in 0..2 /\ 2 \in 0..2 /\ 1 # 0 /\ 2 # 0 /\ 1 - 1 = 0 /\ 2 - 1 = 1
    OBVIOUS
  <2>2. Steps(f, r, batch, 2)
    BY <1>2
  <2> QED  BY <2>1, <2>2, Zenon DEF Steps
<1> QED  BY <1>2, <1>3

-----------------------------------------------------------------------------
\* Events that leave every node and attempt in its status; at most they block the run for recovery.
Steady == {"ControlRequestObserved", "ExecutionCleanupObserved", "AttemptTimeoutRequested",
           "AttemptCancellationCompleted", "RunRecoveryBlocked"}

SameWork(r, s) ==
    /\ \A n \in Node : /\ s.nodes[n].status = r.nodes[n].status
                       /\ s.nodes[n].attempts = r.nodes[n].attempts
                       /\ s.nodes[n].last.status = r.nodes[n].last.status
    /\ s.status \in {r.status, "recovery-blocked"}

\* Each of them.
LEMMA SteadyEvent ==
    ASSUME NEW r \in Run, NEW e, Typed(e), e.type \in Steady, NEW s \in Applied(r, e)
    PROVE  s \in Run /\ SameWork(r, s)
<1>1. s \in Run
  BY EventEffect
<1>2. CASE e.type \in {"ControlRequestObserved", "RunRecoveryBlocked"}
  <2>1. s = r \/ s = [r EXCEPT !.status = "recovery-blocked"]
    BY <1>2 DEF Applied, ControlRequestObserved, RunRecoveryBlocked, When
  <2> QED  BY <1>1, <2>1 DEF SameWork, Run
<1>3. CASE e.type \notin {"ControlRequestObserved", "RunRecoveryBlocked"}
  <2>1. \E last : /\ s = AttemptBecomes(r, e, last)
                  /\ e.node \in Node => last.status = NodeOf(r, e).last.status
    <3>1. ASSUME e.node \in Node PROVE NodeOf(r, e).last \in Attempt
      BY <3>1 DEF NodeOf, Run, NodeState
    <3>2. CASE e.type = "ExecutionCleanupObserved"
      <4> DEFINE last == [NodeOf(r, e).last EXCEPT !.cleanup = @ \cup {<<e.cause, e.outcome>>}]
      <4>1. s = AttemptBecomes(r, e, last)
        BY <3>2 DEF Applied, ExecutionCleanupObserved, When
      <4>2. e.node \in Node => last.status = NodeOf(r, e).last.status
        BY <3>1 DEF Attempt
      <4> QED  BY <4>1, <4>2
    <3>3. CASE e.type = "AttemptTimeoutRequested"
      <4> DEFINE last == [NodeOf(r, e).last EXCEPT !.timeout = "requested"]
      <4>1. s = AttemptBecomes(r, e, last)
        BY <3>3 DEF Applied, AttemptTimeoutRequested, When
      <4>2. e.node \in Node => last.status = NodeOf(r, e).last.status
        BY <3>1 DEF Attempt
      <4> QED  BY <4>1, <4>2
    <3>4. CASE e.type = "AttemptCancellationCompleted"
      <4> DEFINE last == [NodeOf(r, e).last EXCEPT !.timeout = e.outcome]
      <4>1. s = AttemptBecomes(r, e, last)
        BY <3>4 DEF Applied, AttemptCancellationCompleted, When
      <4>2. e.node \in Node => last.status = NodeOf(r, e).last.status
        BY <3>1 DEF Attempt
      <4> QED  BY <4>1, <4>2
    <3> QED  BY <1>3, <3>2, <3>3, <3>4 DEF Steady
  <2>2. PICK last : /\ s = AttemptBecomes(r, e, last)
                    /\ e.node \in Node => last.status = NodeOf(r, e).last.status
    BY <2>1
  <2>3. s.status = r.status
    BY <2>2 DEF AttemptBecomes, Updated, Run
  <2>4. ASSUME NEW n \in Node
        PROVE  /\ s.nodes[n].status = r.nodes[n].status
               /\ s.nodes[n].attempts = r.nodes[n].attempts
               /\ s.nodes[n].last.status = r.nodes[n].last.status
    <3>1. CASE n = e.node
      <4>1. s.nodes[n] = [r.nodes[n] EXCEPT !.last = last] /\ r.nodes[n] \in NodeState
        BY <2>2, <3>1 DEF AttemptBecomes, Updated, Run, NodeOf
      <4> QED  BY <2>2, <3>1, <4>1 DEF NodeState, NodeOf
    <3>2. CASE n # e.node
      <4>1. s.nodes[n] = r.nodes[n]
        BY <2>2, <3>2 DEF AttemptBecomes, Updated, Run
      <4> QED  BY <4>1
    <3> QED  BY <3>1, <3>2
  <2> QED  BY <1>1, <2>3, <2>4 DEF SameWork
<1> QED  BY <1>2, <1>3

\* Any number of them.
LEMMA SteadyBatch ==
    ASSUME NEW r \in Run, NEW batch, NEW seen, NEW done, Batch(batch, Steady, seen, done),
           NEW s \in Materialized(r, batch)
    PROVE  s \in Run /\ SameWork(r, s)
<1> DEFINE S == {t \in Run : SameWork(r, t)}
<1>1. r \in S
  BY DEF SameWork
<1>2. ASSUME NEW i \in 1..Len(batch), NEW t \in S PROVE Applied(t, batch[i]) \subseteq S
  <2> SUFFICES ASSUME NEW u \in Applied(t, batch[i]) PROVE u \in S
    OBVIOUS
  <2>1. Typed(batch[i]) /\ batch[i].type \in Steady
    BY DEF Batch
  <2>2. u \in Run /\ SameWork(t, u)
    BY <2>1, SteadyEvent
  <2> QED  BY <2>2 DEF SameWork
<1>3. Len(batch) \in Nat
  BY DEF Batch
<1> HIDE DEF S
<1>4. Materialized(r, batch) \subseteq S
  BY <1>1, <1>2, <1>3, BatchPreserves
<1> QED  BY <1>4 DEF S

\* The work stays in order where every status stays.
LEMMA SameWorkKept ==
    ASSUME NEW r \in Run, NEW s, SameWork(r, s), NEW T, NEW calls
    PROVE  /\ RunSound(r) => RunSound(s)
           /\ Owned(r, T) => Owned(s, T)
           /\ Sent(r, calls) => Sent(s, calls)
<1>1. Runs(s) = Runs(r) /\ Active(s) = Active(r)
  BY DEF SameWork, Runs, Active
<1>2. RunSound(r) => RunSound(s)
  BY <1>1 DEF RunSound, SameWork, Runs, Parted
<1>3. Owned(r, T) => Owned(s, T)
  BY <1>1 DEF Owned, SameWork, Runs
<1>4. Sent(r, calls) => Sent(s, calls)
  BY DEF Sent, SameWork, Execution
<1> QED  BY <1>2, <1>3, <1>4

\* Where nothing starts, nothing runs that did not, and no node has another attempt.
LEMMA NothingStarts ==
    ASSUME NEW r \in Run, NEW batch, NEW types, NEW seen, NEW done, Batch(batch, types, seen, done),
           types \cap Starting = {}, NEW s \in Materialized(r, batch)
    PROVE  /\ s \in Run /\ Runs(s) \subseteq Runs(r)
           /\ \A n \in Node : s.nodes[n].attempts = r.nodes[n].attempts
BY BatchEffect DEF StartsNothing, Runs

-----------------------------------------------------------------------------
\* The events that end an attempt.
EndsAttempt ==
    {"AttemptSucceeded", "AttemptBlocked", "AttemptCancelled", "AttemptFailed", "AttemptOrphaned"}

\* Its node runs nothing then.
LEMMA EndingEvent ==
    ASSUME NEW r \in Run, NEW e, Typed(e), e.type \in EndsAttempt, NEW s \in Applied(r, e),
           Runs(r) \subseteq {e.node}
    PROVE  s \in Run /\ Runs(s) = {}
<1>1. s \in Run /\ StartsNothing(r, s)
  BY EventEffect DEF EndsAttempt, Starting
<1>2. Runs(s) \subseteq Runs(r)
  BY <1>1 DEF StartsNothing, Runs
<1>3. ASSUME e.node \in Node PROVE s.nodes[e.node].last.status # "running"
  <2>1. NodeOf(r, e) \in NodeState /\ NodeOf(r, e).last \in Attempt
    BY <1>3 DEF NodeOf, Run, NodeState
  <2>2. \E node :
           /\ s = Updated(r, e, node)
           /\ node.last.status \in {"succeeded", "blocked", "cancelled", "failed", "orphaned"}
    <3>1. CASE e.type \in {"AttemptSucceeded", "AttemptBlocked", "AttemptCancelled", "AttemptFailed"}
      <4>1. PICK status \in {"succeeded", "blocked", "cancelled", "failed"} :
              s = AttemptBecomes(r, e, [NodeOf(r, e).last EXCEPT !.status = status])
        BY <3>1 DEF Applied, AttemptEnded, AttemptFailed, When
      <4> DEFINE last == [NodeOf(r, e).last EXCEPT !.status = status]
                 node == [NodeOf(r, e) EXCEPT !.last = last]
      <4>2. last.status = status /\ node.last = last
        BY <2>1 DEF NodeState, Attempt
      <4>3. s = Updated(r, e, node)
        BY <4>1 DEF AttemptBecomes
      <4> QED  BY <4>2, <4>3
    <3>2. CASE e.type = "AttemptOrphaned"
      <4> DEFINE last == [NodeOf(r, e).last EXCEPT !.status = "orphaned", !.differs = e.differs]
                 node == [NodeOf(r, e) EXCEPT !.status = "running", !.last = last]
      <4>1. s = Updated(r, e, node)
        BY <3>2 DEF Applied, AttemptOrphaned, When
      <4>2. last.status = "orphaned" /\ node.last = last
        BY <2>1 DEF NodeState, Attempt
      <4> QED  BY <4>1, <4>2
    <3> QED  BY <3>1, <3>2 DEF EndsAttempt
  <2>3. PICK node : s = Updated(r, e, node) /\ node.last.status # "running"
    BY <2>2
  <2>4. s.nodes[e.node] = node
    BY <1>3, <2>3 DEF Updated, Run
  <2> QED  BY <2>3, <2>4
<1> QED  BY <1>1, <1>2, <1>3 DEF Runs

\* One event of a batch.
Has(batch, e) == \E i \in 1..Len(batch) : batch[i] = e

\* A batch that ends the only attempt that may run leaves none.
LEMMA EndingBatch ==
    ASSUME NEW r \in Run, NEW batch, NEW types, NEW seen, NEW done, Batch(batch, types, seen, done),
           types \cap Starting = {}, NEW e, Has(batch, e), e.type \in EndsAttempt,
           Runs(r) \subseteq {e.node}, NEW s \in Materialized(r, batch)
    PROVE  Runs(s) = {}
<1>1. PICK i \in 1..Len(batch) : batch[i] = e
  BY DEF Has
<1> DEFINE before == {t \in Run : Runs(t) \subseteq {e.node}}
           after == {t \in Run : Runs(t) = {}}
           P == [k \in 0..Len(batch) |-> IF k < i THEN before ELSE after]
<1>2. Len(batch) \in Nat
  BY DEF Batch
<1>3. r \in P[0]
  BY <1>2
<1>4. ASSUME NEW k \in 1..Len(batch), NEW t \in P[k - 1] PROVE Applied(t, batch[k]) \subseteq P[k]
  <2> SUFFICES ASSUME NEW u \in Applied(t, batch[k]) PROVE u \in P[k]
    OBVIOUS
  <2>1. Typed(batch[k]) /\ batch[k].type \notin Starting
    BY DEF Batch
  <2>2. t \in Run /\ (k - 1 < i => t \in before) /\ (~(k - 1 < i) => t \in after)
    BY <1>2
  <2>3. u \in Run /\ Runs(u) \subseteq Runs(t)
    BY <2>1, <2>2, EventEffect DEF StartsNothing, Runs
  <2>4. CASE k = i
    <3>1. u \in after
      BY <1>1, <2>1, <2>2, <2>4, EndingEvent
    <3> QED  BY <1>2, <2>4, <3>1
  <2>5. CASE k < i
    <3>1. t \in before
      BY <2>2, <2>5
    <3>2. u \in before
      BY <2>3, <3>1
    <3> QED  BY <1>2, <2>5, <3>2
  <2>6. CASE k > i
    <3>1. t \in after
      BY <2>2, <2>6
    <3>2. u \in after
      BY <2>3, <3>1
    <3> QED  BY <1>2, <2>6, <3>2
  <2> QED  BY <2>4, <2>5, <2>6
<1>5. ~(Len(batch) < i) /\ Len(batch) \in 0..Len(batch)
  BY <1>2
<1>6. Materialized(r, batch) \subseteq P[Len(batch)]
  <2> HIDE DEF P
  <2> QED  BY <1>2, <1>3, <1>4, StepsLead
<1> QED  BY <1>5, <1>6

\* An event of a batch is one of whatever it is joined with.
LEMMA HasJoined ==
    ASSUME NEW a, NEW t1, NEW s1, NEW d1, Batch(a, t1, s1, d1),
           NEW b, NEW t2, NEW s2, NEW d2, Batch(b, t2, s2, d2), NEW e
    PROVE  Has(a, e) \/ Has(b, e) => Has(a \o b, e)
<1>1. PICK A, B : a \in Seq(A) /\ b \in Seq(B) /\ Len(a) \in Nat /\ Len(b) \in Nat
  BY DEF Batch
<1>2. /\ Len(a \o b) = Len(a) + Len(b)
      /\ \A i \in 1..Len(a) : (a \o b)[i] = a[i]
      /\ \A i \in 1..Len(b) : (a \o b)[Len(a) + i] = b[i]
  BY <1>1
<1>3. ASSUME Has(a, e) PROVE Has(a \o b, e)
  BY <1>1, <1>2, <1>3 DEF Has
<1>4. ASSUME NEW i \in 1..Len(b), b[i] = e PROVE Has(a \o b, e)
  <2>1. Len(a) + i \in 1..Len(a \o b) /\ (a \o b)[Len(a) + i] = e
    BY <1>1, <1>2, <1>4
  <2> QED  BY <2>1 DEF Has
<1> QED  BY <1>3, <1>4 DEF Has

\* The first of one or two events, the last of four.
LEMMA HasOne ==
    ASSUME NEW e, NEW a, NEW b, NEW c
    PROVE  Has(<<e>>, e) /\ Has(<<e, a>>, e) /\ Has(<<a, e>>, e) /\ Has(<<a, b, c, e>>, e)
<1>1. Has(<<e>>, e)
  <2>1. 1 \in 1..Len(<<e>>) /\ <<e>>[1] = e
    OBVIOUS
  <2> QED  BY <2>1 DEF Has
<1>2. Has(<<e, a>>, e)
  <2>1. 1 \in 1..Len(<<e, a>>) /\ <<e, a>>[1] = e
    OBVIOUS
  <2> QED  BY <2>1 DEF Has
<1>3. Has(<<a, e>>, e)
  <2>1. 2 \in 1..Len(<<a, e>>) /\ <<a, e>>[2] = e
    OBVIOUS
  <2> QED  BY <2>1 DEF Has
<1>4. Has(<<a, b, c, e>>, e)
  <2>1. 4 \in 1..Len(<<a, b, c, e>>) /\ <<a, b, c, e>>[4] = e
    OBVIOUS
  <2> QED  BY <2>1 DEF Has
<1> QED  BY <1>1, <1>2, <1>4, <1>3

-----------------------------------------------------------------------------
(* Which node runs *)

\* The events that stop a node, or leave it to its recovery.
Parting == {"NodeReady", "NodeSucceeded", "NodeFailed", "NodeBlocked", "NodePaused", "NodeCancelled",
            "AttemptOrphaned"}

\* The events that make a node run.
Launching == {"AttemptStartAuthorized", "AttemptStarted"}

\* No other event lets a node run that does not, and each of the former stops its own.
LEMMA PartedEvent ==
    ASSUME NEW r \in Run, NEW e, Typed(e), e.type \notin Launching, NEW s \in Applied(r, e),
           NEW n \in Node, Parted(r, n) \/ (e.type \in Parting /\ e.node = n)
    PROVE  Parted(s, n)
<1>1. CASE e.type \in RunWide \cup RunOnly
  <2>1. s.nodes = r.nodes
    BY <1>1, RunEffect
  <2> QED  BY <1>1, <2>1 DEF Parted, Parting, RunWide, RunOnly
<1>2. CASE e.type \in NodeOnly /\ e.node # n
  <2>1. PICK node : s = Updated(r, e, node)
    BY <1>2, NodeEffect DEF NodeMoves
  <2>2. s.nodes[n] = r.nodes[n]
    BY <1>2, <2>1 DEF Updated, Run
  <2> QED  BY <1>2, <2>2 DEF Parted
<1>3. CASE e.type \in NodeOnly /\ e.node = n
  <2> PICK old : old = NodeOf(r, e)
    OBVIOUS
  <2>1. old = r.nodes[n] /\ old \in NodeState /\ old.last \in Attempt
    BY <1>3 DEF NodeOf, Run, NodeState
  <2>2. ASSUME NEW node, s = Updated(r, e, node),
               node.status = "running" => node.last.status = "orphaned"
        PROVE  Parted(s, n)
    <3>1. s.nodes[n] = node
      BY <1>3, <2>2 DEF Updated, Run
    <3> QED  BY <2>2, <3>1 DEF Parted
  <2>3. ASSUME NEW a, s = AttemptBecomes(r, e, a), e.type \notin Parting,
               old.status = "running" => a.status = old.last.status
        PROVE  Parted(s, n)
    <3> DEFINE node == [old EXCEPT !.last = a]
    <3>1. node.status = old.status /\ node.last = a
      BY <2>1 DEF NodeState
    <3>2. s = Updated(r, e, node)
      BY <2>3 DEF AttemptBecomes
    <3> HIDE DEF node
    <3> QED  BY <2>1, <2>2, <2>3, <3>1, <3>2 DEF Parted
  <2>4. CASE e.type \in {"RuntimeEventObserved", "ExecutionCleanupObserved", "AttemptTimeoutRequested",
                         "AttemptCancellationCompleted", "LateResultObserved"}
    <3>1. \E a : s = AttemptBecomes(r, e, a) /\ a.status = old.last.status
      <4> DEFINE last == old.last
      <4>1. CASE e.type = "RuntimeEventObserved"
        <5>1. s = AttemptBecomes(r, e, [last EXCEPT !.usage = @ \/ e.usage])
          BY <4>1 DEF Applied, RuntimeEventObserved, When
        <5>2. [last EXCEPT !.usage = @ \/ e.usage].status = last.status
          BY <2>1 DEF Attempt
        <5> QED  BY <5>1, <5>2
      <4>2. CASE e.type = "ExecutionCleanupObserved"
        <5>1. s = AttemptBecomes(r, e, [last EXCEPT !.cleanup = @ \cup {<<e.cause, e.outcome>>}])
          BY <4>2 DEF Applied, ExecutionCleanupObserved, When
        <5>2. [last EXCEPT !.cleanup = @ \cup {<<e.cause, e.outcome>>}].status = last.status
          BY <2>1 DEF Attempt
        <5> QED  BY <5>1, <5>2
      <4>3. CASE e.type \in {"AttemptTimeoutRequested", "AttemptCancellationCompleted"}
        <5>1. PICK outcome : s = AttemptBecomes(r, e, [last EXCEPT !.timeout = outcome])
          BY <4>3 DEF Applied, AttemptTimeoutRequested, AttemptCancellationCompleted, When
        <5>2. [last EXCEPT !.timeout = outcome].status = last.status
          BY <2>1 DEF Attempt
        <5> QED  BY <5>1, <5>2
      <4>4. CASE e.type = "LateResultObserved"
        <5>1. s = AttemptBecomes(r, e, [last EXCEPT !.late = TRUE])
          BY <4>4 DEF Applied, LateResultObserved, When
        <5>2. [last EXCEPT !.late = TRUE].status = last.status
          BY <2>1 DEF Attempt
        <5> QED  BY <5>1, <5>2
      <4> QED  BY <2>4, <4>1, <4>2, <4>3, <4>4
    <3>2. e.type \notin Parting
      BY <2>4 DEF Parting
    <3> QED  BY <2>3, <3>1, <3>2
  <2>5. CASE e.type \in {"AttemptSucceeded", "AttemptBlocked", "AttemptCancelled", "AttemptFailed"}
    <3>1. old.status = "running" /\ old.last.status = "running"
      BY <2>5 DEF Applied, AttemptEnded, AttemptFailed, When, NodeIn, CurrentAttempt
    <3> QED  BY <2>1, <2>5, <3>1 DEF Parted, Parting
  <2>6. CASE e.type \in {"AttemptScheduled", "AttemptPrepared"}
    <3>1. old.status = "ready" /\ \E node : s = Updated(r, e, node) /\ node.status = old.status
      <4>1. CASE e.type = "AttemptScheduled"
        <5> DEFINE last == [NoAttempt EXCEPT !.status = "scheduled"]
                   node == [old EXCEPT !.attempts = e.attempt, !.last = last]
        <5>1. old.status = "ready" /\ s = Updated(r, e, node)
          BY <4>1 DEF Applied, AttemptScheduled, When, NodeIn
        <5> HIDE DEF last
        <5>2. node.status = old.status
          BY <2>1 DEF NodeState
        <5> QED  BY <5>1, <5>2
      <4>2. CASE e.type = "AttemptPrepared"
        <5> DEFINE last == [old.last EXCEPT !.status = "prepared", !.plan = TRUE]
                   node == [old EXCEPT !.last = last]
        <5>1. old.status = "ready" /\ s = Updated(r, e, node)
          BY <4>2 DEF Applied, AttemptPrepared, When, NodeIn, AttemptBecomes
        <5> HIDE DEF last
        <5>2. node.status = old.status
          BY <2>1 DEF NodeState
        <5> QED  BY <5>1, <5>2
      <4> QED  BY <2>6, <4>1, <4>2
    <3> QED  BY <2>2, <3>1
  <2>7. CASE e.type \in {"NodeSucceeded", "NodeFailed", "NodeBlocked", "NodeCancelled"}
    <3>1. PICK status \in {"succeeded", "failed", "blocked", "cancelled"} :
             s = Updated(r, e, [old EXCEPT !.status = status])
      BY <2>7 DEF Applied, NodeEnded, NodeBlocked, NodeCancelled, NodeBecomes, When
    <3> PICK node : node = [old EXCEPT !.status = status]
      OBVIOUS
    <3>2. node.status # "running"
      BY <2>1 DEF NodeState
    <3> QED  BY <2>2, <3>1, <3>2
  <2>8. CASE e.type \in {"NodeReady", "NodePaused"}
    <3>1. \E status \in {"ready", "paused"} : \E pause :
            s = Updated(r, e, [old EXCEPT !.status = status, !.pause = pause])
      <4>1. CASE e.type = "NodeReady"
        <5>1. s = Updated(r, e, [old EXCEPT !.status = "ready", !.pause = "none"])
          BY <4>1 DEF Applied, NodeReady, When
        <5> QED  BY <5>1
      <4>2. CASE e.type = "NodePaused"
        <5>1. \/ s = Updated(r, e, [old EXCEPT !.status = "paused"])
              \/ s = Updated(r, e, [old EXCEPT !.status = "paused", !.pause = e.reason])
          BY <4>2 DEF Applied, NodePaused, When, NodeBecomes
        <5>2. [old EXCEPT !.status = "paused"] = [old EXCEPT !.status = "paused", !.pause = old.pause]
          BY <2>1 DEF NodeState
        <5> QED  BY <5>1, <5>2
      <4> QED  BY <2>8, <4>1, <4>2
    <3>2. PICK status \in {"ready", "paused"} : \E pause :
            s = Updated(r, e, [old EXCEPT !.status = status, !.pause = pause])
      BY <3>1
    <3>3. PICK pause : s = Updated(r, e, [old EXCEPT !.status = status, !.pause = pause])
      BY <3>2
    <3> PICK node : node = [old EXCEPT !.status = status, !.pause = pause]
      OBVIOUS
    <3>4. node.status # "running"
      BY <2>1 DEF NodeState
    <3> QED  BY <2>2, <3>3, <3>4
  <2>9. CASE e.type = "AttemptOrphaned"
    <3> DEFINE a == [old.last EXCEPT !.status = "orphaned", !.differs = e.differs]
               node == [old EXCEPT !.status = "running", !.last = a]
    <3>1. s = Updated(r, e, node)
      BY <2>9 DEF Applied, AttemptOrphaned, When
    <3>2. a.status = "orphaned"
      BY <2>1 DEF Attempt
    <3> HIDE DEF a
    <3>3. node.last = a
      BY <2>1 DEF NodeState
    <3> HIDE DEF node
    <3> QED  BY <2>2, <3>1, <3>2, <3>3
  <2> QED  BY <1>3, <2>4, <2>5, <2>6, <2>7, <2>8, <2>9 DEF NodeOnly, Launching
<1> QED  BY <1>1, <1>2, <1>3 DEF Typed

\* A batch that stops a node, or finds it stopped, leaves it so.
Parts(batch, n) == \E e : Has(batch, e) /\ e.type \in Parting /\ e.node = n

LEMMA PartedBatch ==
    ASSUME NEW r \in Run, NEW batch, NEW types, NEW seen, NEW done, Batch(batch, types, seen, done),
           types \cap Launching = {}, NEW n \in Node, Parted(r, n) \/ Parts(batch, n),
           NEW s \in Materialized(r, batch)
    PROVE  Parted(s, n)
<1> DEFINE after == {t \in Run : Parted(t, n)}
<1>1. ASSUME NEW k \in 1..Len(batch), NEW t \in Run,
             Parted(t, n) \/ (batch[k].type \in Parting /\ batch[k].node = n)
      PROVE  Applied(t, batch[k]) \subseteq after
  <2> SUFFICES ASSUME NEW u \in Applied(t, batch[k]) PROVE u \in after
    OBVIOUS
  <2> PICK e : e = batch[k]
    OBVIOUS
  <2>1. Typed(e) /\ e.type \notin Launching
    BY DEF Batch
  <2>2. u \in Run /\ Parted(u, n)
    BY <1>1, <2>1, EventEffect, PartedEvent
  <2> QED  BY <2>2
<1>2. Len(batch) \in Nat
  BY DEF Batch
<1>3. CASE Parted(r, n)
  <2>1. r \in after /\ \A k \in 1..Len(batch) : \A t \in after : Applied(t, batch[k]) \subseteq after
    BY <1>1, <1>3
  <2> HIDE DEF after
  <2>2. Materialized(r, batch) \subseteq after
    BY <1>2, <2>1, BatchPreserves
  <2> QED  BY <2>2 DEF after
<1>4. CASE Parts(batch, n)
  <2>1. PICK i \in 1..Len(batch) : batch[i].type \in Parting /\ batch[i].node = n
    BY <1>4 DEF Parts, Has
  <2> DEFINE P == [k \in 0..Len(batch) |-> IF k < i THEN Run ELSE after]
  <2>2. r \in P[0]
    BY <1>2
  <2>3. ASSUME NEW k \in 1..Len(batch), NEW t \in P[k - 1] PROVE Applied(t, batch[k]) \subseteq P[k]
    <3>1. t \in Run /\ (~(k - 1 < i) => Parted(t, n))
      BY <1>2
    <3>2. CASE k < i
      <4>1. P[k] = Run
        BY <1>2, <3>2
      <4>2. Typed(batch[k])
        BY DEF Batch
      <4> HIDE DEF P
      <4> QED  BY <3>1, <4>1, <4>2, EventEffect
    <3>3. CASE ~(k < i)
      <4>1. P[k] = after
        BY <1>2, <3>3
      <4>2. k = i \/ ~(k - 1 < i)
        BY <1>2, <3>3
      <4> HIDE DEF P, after
      <4> QED  BY <1>1, <2>1, <3>1, <4>1, <4>2
    <3> QED  BY <3>2, <3>3
  <2>4. ~(Len(batch) < i) /\ Len(batch) \in 0..Len(batch)
    BY <1>2
  <2>5. Materialized(r, batch) \subseteq P[Len(batch)]
    <3> HIDE DEF P
    <3> QED  BY <1>2, <2>2, <2>3, StepsLead
  <2> QED  BY <2>4, <2>5
<1> QED  BY <1>3, <1>4

\* Nothing runs and no node does, so it stays.
LEMMA AllParted ==
    ASSUME NEW r, RunSound(r), Runs(r) = {}
    PROVE  \A n \in Node : Parted(r, n)
BY DEF RunSound

\* Every node of a set is among its nodes in authored order.
LEMMA InOrderCovers ==
    ASSUME NEW S, NEW n \in S \cap Node
    PROVE  \E i \in 1..Len(InOrder(S)) : InOrder(S)[i] = n
<1> DEFINE l == Len(Order)
           f == CHOOSE f : Among(f, S, l)
<1>1. l \in Nat
  BY CoordinatorConstants
<1>2. Among(f, S, l)
  BY <1>1, AmongExists, Zenon
<1>3. InOrder(S) = f[l]
  BY Zenon DEF InOrder, Among
<1>4. PICK p \in 1..l : Order[p] = n
  BY CoordinatorConstants
<1> HIDE DEF f, l
<1> DEFINE Listed(k) == f[k] \in Seq(S) /\ (p <= k => \E i \in 1..Len(f[k]) : f[k][i] = n)
           T == {k \in Nat : k <= l /\ ~Listed(k)}
<1>5. Listed(0)
  <2>1. f[0] = <<>> /\ ~(p <= 0)
    <3>1. 0 \in 0..l
      BY <1>1
    <3>2. f[0] = <<>>
      BY <1>2, <3>1, Zenon DEF Among
    <3> QED  BY <1>4, <3>2
  <2> QED  BY <2>1
<1>6. ASSUME NEW k \in 1..l, Listed(k - 1) PROVE Listed(k)
  <2> PICK a, b : a = f[k - 1] /\ b = f[k]
    OBVIOUS
  <2>1. k \in 0..l /\ k # 0
    BY <1>1
  <2>2. b = IF Order[k] \in S THEN Append(a, Order[k]) ELSE a
    BY <1>2, <2>1, Zenon DEF Among
  <2>3. a \in Seq(S) /\ (p <= k - 1 => \E i \in 1..Len(a) : a[i] = n)
    BY <1>6
  <2>4. b \in Seq(S)
    BY <2>2, <2>3
  <2>5. ASSUME p <= k PROVE \E i \in 1..Len(b) : b[i] = n
    <3>1. CASE p <= k - 1
      <4>1. PICK i \in 1..Len(a) : a[i] = n
        BY <2>3, <3>1
      <4>2. i \in 1..Len(b) /\ b[i] = n
        BY <2>2, <2>3, <4>1
      <4> QED  BY <4>2
    <3>2. CASE p = k
      <4>1. b = Append(a, n)
        BY <1>4, <2>2, <3>2
      <4>2. Len(a) + 1 \in 1..Len(b) /\ b[Len(a) + 1] = n
        BY <2>3, <4>1
      <4> QED  BY <4>2
    <3> QED  BY <1>1, <1>4, <2>5, <3>1, <3>2
  <2> QED  BY <2>4, <2>5
<1> HIDE DEF Listed
<1>7. ASSUME T # {} PROVE FALSE
  <2>1. PICK k \in T : \A m \in T : k <= m
    BY <1>7, LeastNumber
  <2>2. k # 0
    BY <1>5
  <2>3. k \in 1..l /\ k - 1 \in Nat /\ k - 1 <= l /\ k - 1 \notin T
    BY <1>1, <2>1, <2>2
  <2> QED  BY <1>6, <2>3
<1>8. Listed(l) /\ p <= l
  BY <1>1, <1>4, <1>7
<1> QED  BY <1>3, <1>8 DEF Listed

\* A cancelled run stops every node that is not settled.
LEMMA CancelParts ==
    ASSUME NEW v, NEW n \in Node, v.nodes[n].status = "running"
    PROVE  Parts(CancelNodes(v), n)
<1> PICK S : S = {m \in Node : v.nodes[m].status \notin SettledNode}
  OBVIOUS
<1> PICK b : b = CancelNodes(v)
  OBVIOUS
<1>1. n \in S \cap Node
  BY DEF SettledNode
<1>2. b = [i \in DOMAIN InOrder(S) |-> NodeEvent("NodeCancelled", InOrder(S)[i])]
  BY DEF CancelNodes, ForNodes
<1>3. PICK i \in 1..Len(InOrder(S)) : InOrder(S)[i] = n
  BY <1>1, InOrderCovers
<1>4. InOrder(S) \in Seq(S)
  BY InOrderMembers
<1>5. i \in 1..Len(b) /\ b[i] = NodeEvent("NodeCancelled", n)
  <2>1. i \in DOMAIN InOrder(S)
    BY <1>4
  <2>2. b[i] = NodeEvent("NodeCancelled", InOrder(S)[i]) /\ i \in DOMAIN b
    BY <1>2, <2>1, Zenon
  <2>3. Batch(b, Closing, {}, {})
    BY NodeBatches, TypeSets
  <2>4. DOMAIN b = 1..Len(b)
    <3>1. PICK Y : b \in Seq(Y)
      BY <2>3 DEF Batch
    <3> QED  BY <3>1
  <2> QED  BY <1>3, <2>2, <2>4, Zenon
<1>6. NodeEvent("NodeCancelled", n).type \in Parting /\ NodeEvent("NodeCancelled", n).node = n
  BY DEF NodeEvent, Parting
<1> QED  BY <1>3, <1>5, <1>6 DEF Parts, Has

\* What a part of a batch stops, the batch does.
LEMMA PartsJoined ==
    ASSUME NEW a, NEW t1, NEW s1, NEW d1, Batch(a, t1, s1, d1),
           NEW b, NEW t2, NEW s2, NEW d2, Batch(b, t2, s2, d2), NEW n
    PROVE  Parts(a, n) \/ Parts(b, n) => Parts(a \o b, n)
BY HasJoined DEF Parts

\* A node pauses with its run.
LEMMA PauseParts ==
    ASSUME NEW n, NEW reason, NEW k
    PROVE  Parts(PauseBoth(n, reason, k), n)
<1> PICK e : e = Because("NodePaused", n, reason)
  OBVIOUS
<1>1. e.type \in Parting /\ e.node = n
  BY DEF Because, Parting
<1>2. Has(PauseBoth(n, reason, k), e)
  BY HasOne DEF PauseBoth
<1> QED  BY <1>1, <1>2 DEF Parts

\* No execution comes nearer to running.
Calm == host' \in [Execution -> HostStatus] /\ Threats' \subseteq Threats /\ inflight' \subseteq inflight

\* None does by itself; and a terminate request, whatever becomes of it, starts none. One that
\* is confirmed ends the execution.
LEMMA CalmWorld ==
    ASSUME WorkInv
    PROVE  /\ UNCHANGED <<host, inflight>> => Calm
           /\ \A c \in Coord : \A observation :
                 Terminated(c, observation) =>
                    /\ Calm
                    /\ observation = "absent" =>
                          ExecutionOf(view[c], First(Active(view[c]))) \notin Threats'
<1>1. UNCHANGED <<host, inflight>> => Calm
  BY DEF Calm, Threats, WorkInv
<1>2. ASSUME NEW c \in Coord, NEW observation, Terminated(c, observation)
      PROVE  /\ Calm
             /\ observation = "absent" =>
                          ExecutionOf(view[c], First(Active(view[c]))) \notin Threats'
  <2> DEFINE e == ExecutionOf(view[c], First(Active(view[c])))
  <2>1. PICK outcome \in TerminateOutcomes(host[e]) :
          /\ outcome[1] = observation /\ host' = [host EXCEPT ![e] = outcome[2]]
          /\ inflight' = inflight
    BY <1>2 DEF Terminated
  <2> HIDE DEF e
  <2>2. e \in Execution => host'[e] = outcome[2]
    BY <2>1 DEF WorkInv
  <2>3. \A d \in Execution \ {e} : host'[d] = host[d]
    BY <2>1 DEF WorkInv
  <2>4. ASSUME e \in Execution
        PROVE  /\ outcome[2] \in HostStatus
               /\ outcome[2] \in MaybeRunning => host[e] \in MaybeRunning /\ observation # "absent"
               /\ outcome[2] = "waiting" => host[e] = "waiting" /\ observation # "absent"
    <3>1. CASE host[e] \in {"none", "absent"}
      BY <2>1, <3>1 DEF TerminateOutcomes, MaybeRunning, HostStatus, Live
    <3>2. CASE host[e] = "lost"
      BY <2>1, <3>2 DEF TerminateOutcomes, MaybeRunning, HostStatus, Live
    <3>3. CASE host[e] = "waiting"
      <4>1. outcome \in {<<"absent", "absent">>, <<"unknown", "absent">>, <<"unknown", host[e]>>}
        BY <2>1, <3>3 DEF TerminateOutcomes
      <4> QED  BY <2>1, <3>3, <4>1 DEF MaybeRunning, HostStatus, Live
    <3>4. CASE host[e] = "finished"
      <4>1. outcome \in {<<"absent", "absent">>, <<"unknown", "absent">>, <<"unknown", host[e]>>}
        BY <2>1, <3>4 DEF TerminateOutcomes
      <4> QED  BY <2>1, <3>4, <4>1 DEF MaybeRunning, HostStatus, Live
    <3>5. CASE host[e] = "active"
      <4>1. outcome \in {<<"absent", "absent">>, <<"unknown", "absent">>, <<"unknown", "uncertain">>,
                         <<"unknown", "lost">>, <<"unknown", host[e]>>}
        BY <2>1, <3>5 DEF TerminateOutcomes
      <4> QED  BY <2>1, <3>5, <4>1 DEF MaybeRunning, HostStatus, Live
    <3>6. CASE host[e] = "uncertain"
      <4>1. outcome \in {<<"unknown", "lost">>, <<"unknown", host[e]>>}
        BY <2>1, <3>6 DEF TerminateOutcomes
      <4> QED  BY <2>1, <3>6, <4>1 DEF MaybeRunning, HostStatus, Live
    <3>7. host[e] \in HostStatus
      BY <2>4 DEF WorkInv
    <3> QED  BY <3>1, <3>2, <3>3, <3>4, <3>5, <3>6, <3>7 DEF HostStatus, Live
  <2>5. host' \in [Execution -> HostStatus]
    BY <2>1, <2>4 DEF WorkInv
  <2>6. Threats' \subseteq Threats
    BY <2>1, <2>2, <2>3, <2>4 DEF Threats
  <2>7. observation = "absent" => e \notin Threats'
    BY <2>2, <2>4 DEF Threats
  <2> QED  BY <2>1, <2>5, <2>6, <2>7 DEF Calm, e
<1> QED  BY <1>1, <1>2

\* What a fresh session knows of the run it works on.
LEMMA FreshWork ==
    ASSUME IInv, ControlInv, WorkInv, NEW c \in Coord, fresh[c]
    PROVE  view[c] = run /\ run \in Run /\ Stands(pc[c], run, Threats)
BY DEF IInv, FreshIsCurrent, ControlInv, ControlTyped, WorkInv

\* A commit that changes no status.
LEMMA SteadyCommit ==
    ASSUME IInv, ControlInv, WorkInv, NEW c \in Coord, NEW batch, NEW next, Commit(c, batch, next), Calm,
           NEW seen, NEW done, Batch(batch, Steady, seen, done),
           \/ next \notin Over \cup NoneRuns \cup {"continue", "schedule"}
           \/ next \notin Over \cup NoneRuns /\ \E e : EndsIn(batch, e) /\ e.type = "RunRecoveryBlocked"
    PROVE  WorkInv'
<1>1. ASSUME fresh[c] PROVE Kept(c, batch, next)
  <2> SUFFICES ASSUME NEW s \in Materialized(run, batch) \cap Run
               PROVE  RunSound(s) /\ Owned(s, Threats') /\ Sent(s, inflight') /\ Stands(next, s, Threats')
    BY <1>1, FreshWork DEF Kept
  <2>1. run \in Run /\ SameWork(run, s)
    BY <1>1, FreshWork, SteadyBatch
  <2>2. RunSound(s) /\ Owned(s, Threats) /\ Sent(s, inflight)
    BY <2>1, SameWorkKept DEF WorkInv
  <2>3. Owned(s, Threats') /\ Sent(s, inflight')
    BY <2>2 DEF Calm, Owned, Sent
  <2>4. Stands(next, s, Threats')
    <3>1. CASE next \notin Over \cup NoneRuns \cup {"continue", "schedule"}
      BY <3>1, Elsewhere
    <3>2. ASSUME NEW e, EndsIn(batch, e), e.type = "RunRecoveryBlocked", next \notin Over \cup NoneRuns
          PROVE  Stands(next, s, Threats')
      <4>1. PICK t \in Run : s \in Applied(t, e)
        BY <2>1, <3>2, LastOfBatch
      <4>2. s.status = "recovery-blocked"
        BY <3>2, <4>1 DEF Applied, RunRecoveryBlocked, When, Run
      <4> QED  BY <3>2, <4>2 DEF Stands
    <3> QED  BY <3>1, <3>2
  <2> QED  BY <2>2, <2>3, <2>4
<1> QED  BY <1>1, WorkCommit DEF Calm

\* Where nothing runs after a commit, nothing did that the commit did not end.
LEMMA NothingRuns ==
    ASSUME IInv, ControlInv, WorkInv, NEW c \in Coord, NEW batch, NEW next, Commit(c, batch, next), Calm,
           NEW types, NEW seen, NEW done, Batch(batch, types, seen, done), types \cap Starting = {},
           fresh[c] => \A s \in Materialized(run, batch) :
                          Threats = {} /\ Runs(s) = {} /\ \A n \in Node : Parted(s, n)
    PROVE  WorkInv'
<1>1. ASSUME fresh[c] PROVE Kept(c, batch, next)
  <2> SUFFICES ASSUME NEW s \in Materialized(run, batch) \cap Run
               PROVE  RunSound(s) /\ Owned(s, Threats') /\ Sent(s, inflight') /\ Stands(next, s, Threats')
    BY <1>1, FreshWork DEF Kept
  <2>1. Threats' = {} /\ Runs(s) = {} /\ \A n \in Node : Parted(s, n)
    BY <1>1 DEF Calm
  <2>2. \A n \in Node : s.nodes[n].attempts = run.nodes[n].attempts
    BY <1>1, FreshWork, NothingStarts
  <2>3. Sent(s, inflight')
    BY <2>2 DEF Calm, WorkInv, Sent, Execution
  <2> QED  BY <2>1, <2>3 DEF RunSound, Owned, Stands
<1> QED  BY <1>1, WorkCommit DEF Calm

\* A commit that starts nothing in a run where nothing runs.
LEMMA QuietCommit ==
    ASSUME IInv, ControlInv, WorkInv, NEW c \in Coord, NEW batch, NEW next, Commit(c, batch, next), Calm,
           NEW types, NEW seen, NEW done, Batch(batch, types, seen, done), types \cap Starting = {},
           fresh[c] /\ Materialized(run, batch) # {} => Runs(run) = {}
    PROVE  WorkInv'
<1>1. ASSUME fresh[c], NEW s \in Materialized(run, batch)
      PROVE  Threats = {} /\ Runs(s) = {} /\ \A n \in Node : Parted(s, n)
  <2>1. Runs(run) = {} /\ run \in Run /\ RunSound(run)
    BY <1>1, FreshWork DEF WorkInv
  <2>2. types \cap Launching = {}
    BY DEF Starting, Launching
  <2>3. \A n \in Node : Parted(s, n)
    BY <1>1, <2>1, <2>2, AllParted, PartedBatch
  <2> QED  BY <1>1, <2>1, <2>3, OneThreat, NothingStarts DEF WorkInv, Threats
<1> QED  BY <1>1, NothingRuns

\* A commit that records the end of the attempt whose execution is known to be over, and stops its
\* node.
LEMMA EndingCommit ==
    ASSUME IInv, ControlInv, WorkInv, NEW c \in Coord, NEW batch, NEW next, Commit(c, batch, next), Calm,
           NEW types, NEW seen, NEW done, Batch(batch, types, seen, done), types \cap Starting = {},
           pc[c] \in Over, NEW e, Has(batch, e), e.type \in EndsAttempt, e.node = First(Active(view[c])),
           fresh[c] /\ e.node \in Node => Parted(run, e.node) \/ Parts(batch, e.node)
    PROVE  WorkInv'
<1>1. ASSUME fresh[c]
      PROVE  /\ Threats = {}
             /\ \A s \in Materialized(run, batch) : Runs(s) = {} /\ \A n \in Node : Parted(s, n)
  <2>1. view[c] = run /\ run \in Run /\ Stands(pc[c], run, Threats)
    BY <1>1, FreshWork
  <2>2. Runs(run) \subseteq {e.node}
    BY <2>1 DEF WorkInv, RunSound
  <2>3. Threats = {}
    <3>1. \A d \in Threats : d = ExecutionOf(run, First(Active(run))) /\ Active(run) # {}
      BY OneThreat DEF WorkInv, Threats
    <3> QED  BY <2>1, <3>1 DEF Stands
  <2>4. \A s \in Materialized(run, batch) : Runs(s) = {}
    BY <2>1, <2>2, EndingBatch
  <2>5. types \cap Launching = {}
    BY DEF Starting, Launching
  <2>6. \A n \in Node : Parted(run, n) \/ Parts(batch, n)
    BY <1>1, <2>2 DEF WorkInv, RunSound
  <2>7. \A s \in Materialized(run, batch) : \A n \in Node : Parted(s, n)
    BY <2>1, <2>5, <2>6, PartedBatch
  <2> QED  BY <2>3, <2>4, <2>7
<1> QED  BY <1>1, NothingRuns

\* A step of a session that stores nothing.
LEMMA MovesOn ==
    ASSUME IInv, ControlInv, WorkInv, NEW c \in Coord, NEW next, Moves(c, next), Calm,
           \/ next \notin Over \cup NoneRuns \cup {"continue", "schedule"}
           \/ fresh[c] => Stands(next, run, Threats')
    PROVE  WorkInv'
<1>1. fresh[c] => Stands(next, run, Threats')
  BY Elsewhere
<1> QED  BY <1>1, WorkMovesOn DEF Moves, Calm

-----------------------------------------------------------------------------
(* Recovery and the work *)

\* Evidence, an observed control and the block of a run are steady.
LEMMA SteadyEvents ==
    ASSUME NEW v, NEW n
    PROVE  /\ \A cause \in Cause, outcome \in CleanupOutcome : Plain(Cleanup(v, n, cause, outcome), Steady)
           /\ \A outcome \in CancellationOutcome : Plain(CancellationCompleted(v, n, outcome), Steady)
           /\ Plain(AttemptEvent(v, "AttemptTimeoutRequested", n), Steady)
           /\ \A kind : /\ Plain(RecoveryBlocked(v, n, kind), Steady)
                        /\ RecoveryBlocked(v, n, kind).type = "RunRecoveryBlocked"
           /\ \A k \in Control : Batch(<<Observed(k)>>, Steady, {k} \ {None}, {})
<1>1. \A k \in Control : Batch(<<Observed(k)>>, Steady, {k} \ {None}, {})
  BY StoppingBatches DEF Steady, PauseKind
<1>2. \A cause \in Cause, outcome \in CleanupOutcome : Plain(Cleanup(v, n, cause, outcome), Steady)
  BY TypedEvents DEF Cleanup, Plain, Steady
<1>3. \A outcome \in CancellationOutcome : Plain(CancellationCompleted(v, n, outcome), Steady)
  BY TypedEvents DEF CancellationCompleted, Plain, Steady
<1>4. Plain(AttemptEvent(v, "AttemptTimeoutRequested", n), Steady)
  BY TypedEvents DEF AttemptEvent, Plain, Steady
<1>5. \A kind : /\ Plain(RecoveryBlocked(v, n, kind), Steady)
                /\ RecoveryBlocked(v, n, kind).type = "RunRecoveryBlocked"
  BY TypedEvents DEF RecoveryBlocked, Plain, Steady
<1> QED  BY <1>1, <1>2, <1>3, <1>4, <1>5

\* A commit of steady evidence that ends with the block of the run.
LEMMA BlocksWork ==
    ASSUME IInv, ControlInv, WorkInv, NEW c \in Coord, NEW v, NEW n, NEW kind, NEW a,
           NEW next \in {"continue", "schedule", "returning"},
           Commit(c, a \o <<RecoveryBlocked(v, n, kind)>>, next), Calm, Batch(a, Steady, {}, {})
    PROVE  WorkInv'
<1> PICK e : e = RecoveryBlocked(v, n, kind)
  OBVIOUS
<1>1. Plain(e, Steady) /\ e.type = "RunRecoveryBlocked"
  BY SteadyEvents
<1>2. Batch(<<e>>, Steady, {}, {})
  BY <1>1, PlainEvents
<1>3. Batch(a \o <<e>>, Steady, {}, {}) /\ EndsIn(a \o <<e>>, e)
  BY <1>2, PlainThen, EndOfOne, EndOfJoined
<1>4. next \notin Over \cup NoneRuns
  BY DEF Over, NoneRuns
<1> QED  BY <1>1, <1>3, <1>4, SteadyCommit

\* coordinateRecovered observes a control and reconciles.
LEMMA BeginReconcilingWorks ==
    ASSUME IInv, ControlInv, WorkInv, NEW c \in Coord, BeginReconciling(c)
    PROVE  WorkInv'
<1>1. Calm
  BY CalmWorld DEF BeginReconciling, world
<1>2. "inspect" \notin Over \cup NoneRuns \cup {"continue", "schedule"}
  BY DEF Over, NoneRuns
<1>3. CASE Moves(c, "inspect")
  BY <1>1, <1>2, <1>3, MovesOn
<1>4. ASSUME NEW k \in Control, Commit(c, <<Observed(k)>>, "inspect") PROVE WorkInv'
  BY <1>1, <1>2, <1>4, SteadyEvents, SteadyCommit
<1>5. \A k \in NextControl : k # None => k \in Control
  BY DEF NextControl, ControlInv, ControlTyped
<1> QED  BY <1>3, <1>4, <1>5 DEF BeginReconciling

\* applyBoundaryControl of a recovered run without an attempt under way.
LEMMA RecoverBoundaryWorks ==
    ASSUME IInv, ControlInv, WorkInv, NEW c \in Coord, RecoverBoundary(c)
    PROVE  WorkInv'
<1>1. Calm
  BY CalmWorld DEF RecoverBoundary, world
<1>2. fresh[c] => Runs(run) = {}
  BY FreshWork DEF RecoverBoundary, Runs, Active
<1>3. PICK k \in IF ctl[c] = None THEN NextControl ELSE {ctl[c]} :
        IF k = None THEN Moves(c, "continue")
        ELSE Commit(c, BoundaryBatch(view[c], k, ctl[c] = None), "returning")
  BY DEF RecoverBoundary
<1>4. CASE k = None
  <2>1. fresh[c] => Stands("continue", run, Threats')
    BY <1>2 DEF Stands, Over
  <2> QED  BY <1>1, <1>3, <1>4, <2>1, MovesOn
<1>5. CASE k # None
  <2>1. k \in Control /\ (ctl[c] = None) \in BOOLEAN
    BY <1>3, <1>5 DEF NextControl, ControlInv, ControlTyped
  <2>2. PICK seen, done : Batch(BoundaryBatch(view[c], k, ctl[c] = None), Closing, seen, done)
    BY <2>1, BoundaryEvents
  <2> QED  BY <1>1, <1>2, <1>3, <1>5, <2>2, QuietCommit, TypeSets
<1> QED  BY <1>4, <1>5

\* establishRecoveredAbsence finds the execution absent, live or of unknown fate.
LEMMA InspectWorks ==
    ASSUME IInv, ControlInv, WorkInv, NEW c \in Coord, Inspect(c) \/ TerminateRecovered(c)
    PROVE  WorkInv'
<1> DEFINE v == view[c]
           n == First(Active(v))
           e == ExecutionOf(v, n)
           next == Blocked(c)
<1>1. next \in {"continue", "schedule", "returning"}
  BY DEF Blocked
<1>2. "terminate" \notin Over \cup NoneRuns \cup {"continue", "schedule"}
  BY DEF Over, NoneRuns
<1>3. ASSUME Moves(c, "capture"), Calm, e \notin Threats' PROVE WorkInv'
  <2>1. fresh[c] => Stands("capture", run, Threats')
    BY <1>3, FreshWork DEF Stands, NoneRuns
  <2> QED  BY <1>3, <2>1, MovesOn
<1> HIDE DEF next
<1>4. CASE Inspect(c)
  <2>1. Calm /\ UNCHANGED <<host, inflight>>
    BY <1>4, CalmWorld DEF Inspect, world
  <2>2. CASE host[e] \in {"none", "absent"} /\ Moves(c, "capture")
    <3>1. e \notin Threats'
      BY <2>1, <2>2 DEF Threats, MaybeRunning
    <3> QED  BY <1>3, <2>1, <2>2, <3>1
  <2>3. CASE Moves(c, "terminate")
    BY <1>2, <2>1, <2>3, MovesOn
  <2>4. CASE Commit(c, <<RecoveryBlocked(v, n, "execution-unknown")>>, next)
    <3>1. <<RecoveryBlocked(v, n, "execution-unknown")>>
            = <<>> \o <<RecoveryBlocked(v, n, "execution-unknown")>>
      OBVIOUS
    <3>2. Batch(<<>>, Steady, {}, {})
      BY NoEvent
    <3> HIDE DEF n, v
    <3> QED  BY <1>1, <2>1, <2>4, <3>1, <3>2, BlocksWork
  <2> QED  BY <1>4, <2>2, <2>3, <2>4 DEF Inspect, next
<1>5. CASE TerminateRecovered(c)
  <2>1. CASE Terminated(c, "absent") /\ Moves(c, "capture")
    BY <1>3, <2>1, CalmWorld
  <2>2. CASE Terminated(c, "unknown") /\ Commit(c, CleanupUnknown(v, n, CauseOf(ctl[c])), next)
    <3> DEFINE cause == CauseOf(ctl[c])
               a == IF CleanupRecorded(v, n, cause) THEN <<>> ELSE <<Cleanup(v, n, cause, "unknown")>>
    <3>1. cause \in Cause
      BY CoordinatorConstants DEF CauseOf, Cause, ControlInv, ControlTyped
    <3>2. Plain(Cleanup(v, n, cause, "unknown"), Steady)
      BY <3>1, SteadyEvents DEF CleanupOutcome
    <3>3. Batch(a, Steady, {}, {})
      BY <3>2, NoEvent, PlainEvents
    <3>4. Commit(c, a \o <<RecoveryBlocked(v, n, "cleanup-unknown")>>, next)
      BY <2>2 DEF CleanupUnknown
    <3>5. Calm
      BY <2>2, CalmWorld
    <3> HIDE DEF a, n, v
    <3> QED  BY <1>1, <3>3, <3>4, <3>5, BlocksWork
  <2> QED  BY <1>5, <2>1, <2>2 DEF TerminateRecovered, next
<1> QED  BY <1>4, <1>5

\* reconcileOwnedAttempt: the attempt is orphaned once its execution is absent.
LEMMA OrphanWorks ==
    ASSUME IInv, ControlInv, WorkInv, NEW c \in Coord, Orphan(c)
    PROVE  WorkInv'
<1> DEFINE v == view[c]
           n == First(Active(v))
           cause == CauseOf(ctl[c])
           e == [type |-> "AttemptOrphaned", node |-> n, attempt |-> v.nodes[n].attempts,
                 differs |-> Changed(n)]
           p == IF CleanupRecorded(v, n, cause) THEN <<>> ELSE <<Cleanup(v, n, cause, "confirmed")>>
           a == <<AttemptEvent(v, "ArtifactProduced", n)>> \o p
           batch == a \o <<e>>
<1>1. pc[c] \in Over /\ Commit(c, batch, "orphaned") /\ Calm
  BY CalmWorld DEF Orphan, At, Over, world
<1>2. cause \in Cause
  BY CoordinatorConstants DEF CauseOf, Cause, ControlInv, ControlTyped
<1>3. Plain(e, Quiet) /\ e.type \in EndsAttempt /\ e.node = First(Active(view[c]))
  <2>1. Changed(n) \in BOOLEAN
    BY DEF Changed
  <2> QED  BY <2>1, TypedEvents DEF EndsAttempt
<1>4. Batch(<<AttemptEvent(v, "ArtifactProduced", n)>>, Quiet, {}, {}) /\ Batch(p, Quiet, {}, {})
  <2>1. Plain(AttemptEvent(v, "ArtifactProduced", n), Quiet)
    BY TypedEvents
  <2>2. Plain(Cleanup(v, n, cause, "confirmed"), Quiet)
    BY <1>2, TypedEvents DEF CleanupOutcome
  <2> QED  BY <2>1, <2>2, NoEvent, PlainEvents
<1>5. e.type \in Parting
  BY DEF Parting
<1> HIDE DEF e, p, cause
<1>6. Batch(a, Quiet, {}, {})
  BY <1>4, PlainThen
<1> HIDE DEF a
<1>7. Batch(<<e>>, Quiet, {}, {}) /\ Has(<<e>>, e)
  BY <1>3, PlainEvents, HasOne
<1>8. Batch(batch, Quiet, {}, {}) /\ Has(batch, e)
  BY <1>6, <1>7, PlainThen, HasJoined
<1> HIDE DEF batch
<1>9. Parts(batch, e.node)
  BY <1>8, <1>5 DEF Parts
<1> QED  BY <1>1, <1>3, <1>8, <1>9, EndingCommit, TypeSets

\* finishRecoveredControl: the attempt is orphaned.
LEMMA FinishRecoveredControlWorks ==
    ASSUME IInv, ControlInv, WorkInv, NEW c \in Coord, FinishRecoveredControl(c)
    PROVE  WorkInv'
<1> DEFINE v == view[c]
           k == ctl[c]
           b == IF ActionOf[k] = "pause" THEN PauseBoth(orphan[c], "operator", k)
                ELSE CancelNodes(v) \o <<Cancelled(k)>>
<1>1. pc[c] = "orphaned" /\ Commit(c, b, "returning") /\ Calm
  BY CalmWorld DEF FinishRecoveredControl, At, world
<1>2. fresh[c] => Runs(run) = {}
  BY <1>1, FreshWork DEF Stands, NoneRuns
<1>3. PICK done : Batch(b, Closing, {}, done)
  <2> PICK done : done = {k} \ {None}
    OBVIOUS
  <2>1. k \in Control \cup {None} /\ "operator" \in PauseKind
    BY DEF PauseKind, ControlInv, ControlTyped
  <2>2. /\ Batch(PauseBoth(orphan[c], "operator", k), Closing, {}, done)
        /\ Batch(<<Cancelled(k)>>, Closing, {}, done)
    BY <2>1, StoppingBatches, TypeSets
  <2>3. Batch(CancelNodes(v), Closing, {}, {})
    BY NodeBatches, TypeSets
  <2>4. Batch(CancelNodes(v) \o <<Cancelled(k)>>, Closing, {}, done)
    BY <2>2, <2>3, PlainThen
  <2> QED  BY <2>2, <2>4
<1> HIDE DEF b
<1> QED  BY <1>1, <1>2, <1>3, QuietCommit, TypeSets

\* finishActiveControl: its cancellation is confirmed.
LEMMA FinishActiveControlWorks ==
    ASSUME IInv, ControlInv, WorkInv, NEW c \in Coord, FinishActiveControl(c)
    PROVE  WorkInv'
<1> DEFINE v == view[c]
           n == First(Active(v))
           k == ctl[c]
           e == AttemptEvent(v, "AttemptCancelled", n)
           a == <<AttemptEvent(v, "ArtifactProduced", n), AttemptEvent(v, "WorkspaceObserved", n),
                  Cleanup(v, n, ActionOf[k], "confirmed"), e>>
           b == IF ActionOf[k] = "pause" THEN PauseBoth(n, "operator", k)
                ELSE CancelNodes(v) \o <<Cancelled(k)>>
<1>1. pc[c] = "controlled" /\ Commit(c, a \o b, "schedule") /\ Calm
  BY CalmWorld DEF FinishActiveControl, At, world
<1>2. k \in Control /\ ActionOf[k] \in Cause
  <2>1. pc[c] \in Controlling
    BY <1>1 DEF Controlling
  <2>2. fresh[c]
    BY <2>1 DEF IInv, ActingIsFresh, Acting, Executing, Controlling
  <2>3. k # None
    BY <2>1, <2>2, FreshKnows DEF Known
  <2> QED  BY <2>3, CoordinatorConstants DEF ControlInv, ControlTyped, Cause
<1>3. Batch(a, Closing, {}, {})
  <2>1. Plain(AttemptEvent(v, "ArtifactProduced", n), Quiet)
        /\ Plain(AttemptEvent(v, "WorkspaceObserved", n), Quiet) /\ Plain(e, Quiet)
    BY TypedEvents
  <2>2. Plain(Cleanup(v, n, ActionOf[k], "confirmed"), Quiet)
    BY <1>2, TypedEvents DEF CleanupOutcome
  <2>3. Batch(a, Quiet, {}, {})
    BY <2>1, <2>2, PlainEvents
  <2> HIDE DEF a
  <2> QED  BY <2>3, TypeSets, Wider
<1>4. PICK done : Batch(b, Closing, {}, done)
  <2> PICK done : done = {k} \ {None}
    OBVIOUS
  <2>1. k \in Control \cup {None} /\ "operator" \in PauseKind
    BY <1>2 DEF PauseKind
  <2>2. /\ Batch(PauseBoth(n, "operator", k), Closing, {}, done)
        /\ Batch(<<Cancelled(k)>>, Closing, {}, done)
    BY <2>1, StoppingBatches, TypeSets
  <2>3. Batch(CancelNodes(v), Closing, {}, {})
    BY NodeBatches, TypeSets
  <2>4. Batch(CancelNodes(v) \o <<Cancelled(k)>>, Closing, {}, done)
    BY <2>2, <2>3, PlainThen
  <2> QED  BY <2>2, <2>4
<1>5. Has(a, e) /\ e.type \in EndsAttempt /\ e.node = First(Active(view[c]))
  BY HasOne DEF AttemptEvent, EndsAttempt
<1>6. ASSUME n \in Node, v.nodes[n].status = "running" PROVE Parts(b, n)
  <2>1. CASE ActionOf[k] = "pause"
    BY <2>1, PauseParts
  <2>2. CASE ActionOf[k] # "pause"
    <3>1. Batch(CancelNodes(v), Closing, {}, {})
      BY NodeBatches, TypeSets
    <3>2. \E ended : Batch(<<Cancelled(k)>>, Closing, {}, ended)
      <4> PICK ended : ended = {k} \ {None}
        OBVIOUS
      <4>1. k \in Control \cup {None} /\ "operator" \in PauseKind
        BY <1>2 DEF PauseKind
      <4> QED  BY <4>1, StoppingBatches, TypeSets
    <3>3. Parts(CancelNodes(v), n)
      BY <1>6, CancelParts
    <3>4. b = CancelNodes(v) \o <<Cancelled(k)>>
      BY <2>2
    <3> HIDE DEF b, n, v
    <3> QED  BY <3>1, <3>2, <3>3, <3>4, PartsJoined
  <2> QED  BY <2>1, <2>2
<1> HIDE DEF a, b, e
<1>7. Batch(a \o b, Closing, {}, done) /\ Has(a \o b, e)
  BY <1>3, <1>4, <1>5, PlainThen, HasJoined
<1>8. fresh[c] /\ n \in Node => Parted(run, n) \/ Parts(a \o b, n)
  BY <1>3, <1>4, <1>6, FreshWork, PartsJoined DEF Parted
<1>9. pc[c] \in Over
  BY <1>1 DEF Over
<1> QED  BY <1>1, <1>5, <1>7, <1>9, <1>8, EndingCommit, TypeSets

\* A node is set aside, or made schedulable again, only in a run where nothing runs: RunPaused
\* refuses a running node, RunResumed an attempt that is not recovered.
LEMMA SetAside ==
    ASSUME NEW r \in Run, RunSound(r), NEW n, NEW reason \in PauseKind, NEW batch,
           \/ batch = PauseBoth(n, reason, None)
           \/ /\ r.status = "recovery-blocked"
              /\ batch = <<Because("NodeReady", n, "recovered")>> \o <<Resumed>>,
           Materialized(r, batch) # {}
    PROVE  Runs(r) = {}
<1>1. PICK s : s \in Materialized(r, batch)
  OBVIOUS
<1>2. ASSUME NEW a, NEW t \in Applied(r, a), NEW m \in Runs(r), a.node = n,
             \/ a.type = "NodePaused" /\ a.reason \in PauseKind
             \/ a.type = "NodeReady" /\ a.reason = "recovered"
      PROVE  t.nodes[m] = r.nodes[m] /\ t.status = r.status
  <2>1. m \in Node /\ r.nodes[m].status = "running" /\ r.nodes[m].last.status = "running"
    BY DEF RunSound, Runs
  <2>2. PICK node : t = Updated(r, a, node)
    <3>1. CASE a.type = "NodePaused"
      BY <1>2, <3>1 DEF Applied, NodePaused, When, PauseKind
    <3>2. CASE a.type = "NodeReady"
      BY <1>2, <3>2 DEF Applied, NodeReady, When
    <3> QED  BY <1>2, <3>1, <3>2
  <2>3. n # m
    <3>1. CASE a.type = "NodePaused"
      BY <1>2, <2>1, <3>1 DEF Applied, NodePaused, When, PauseKind, ActiveAttemptStopped, NodeIn, NodeOf
    <3>2. CASE a.type = "NodeReady"
      BY <1>2, <2>1, <3>2 DEF Applied, NodeReady, When, NodeIn, NodeOf
    <3> QED  BY <1>2, <3>1, <3>2
  <2> QED  BY <1>2, <2>1, <2>2, <2>3 DEF Updated, Run
<1>3. CASE batch = PauseBoth(n, reason, None)
  <2> DEFINE a == Because("NodePaused", n, reason)
  <2>1. PICK t \in Applied(r, a) : s \in Applied(t, Paused(None))
    <3>1. Len(batch) = 2 /\ batch[1] = a /\ batch[2] = Paused(None)
      BY <1>3 DEF PauseBoth
    <3> QED  BY <1>1, <3>1, Pair
  <2>2. \A m \in Runs(r) : t.nodes[m] = r.nodes[m] /\ t.status = r.status
    <3>1. a.type = "NodePaused" /\ a.reason \in PauseKind /\ a.node = n
      BY DEF Because
    <3> HIDE DEF a
    <3> QED  BY <1>2, <3>1
  <2>3. \A m \in Node : t.nodes[m].status # "running"
    BY <2>1 DEF Applied, RunPaused, When, Paused
  <2> QED  BY <2>2, <2>3 DEF RunSound, Runs
<1>4. CASE r.status = "recovery-blocked" /\ batch = <<Because("NodeReady", n, "recovered")>> \o <<Resumed>>
  <2> DEFINE a == Because("NodeReady", n, "recovered")
  <2>1. PICK t \in Applied(r, a) : s \in Applied(t, Resumed)
    <3>1. Len(batch) = 2 /\ batch[1] = a /\ batch[2] = Resumed
      BY <1>4
    <3> QED  BY <1>1, <3>1, Pair
  <2>2. \A m \in Runs(r) : t.nodes[m] = r.nodes[m] /\ t.status = r.status
    <3>1. a.type = "NodeReady" /\ a.reason = "recovered" /\ a.node = n
      BY DEF Because
    <3> HIDE DEF a
    <3> QED  BY <1>2, <3>1
  <2>3. t.status = "paused" \/ \A m \in Node : Recovered(t.nodes[m])
    BY <2>1 DEF Applied, RunResumed, When, Resumed
  <2> QED  BY <1>4, <2>2, <2>3 DEF Recovered, Runs
<1> QED  BY <1>3, <1>4

\* continueOrphaned, for the attempt just orphaned or for one of a blocked run.
LEMMA ContinueOrphanedWorks ==
    ASSUME IInv, ControlInv, WorkInv, NEW c \in Coord, ContinueOrphaned(c) \/ PreflightFailsOrphaned(c)
    PROVE  WorkInv'
<1> DEFINE v == view[c]
           n == NodeToContinue(c)
           ready == <<Because("NodeReady", n, "recovered")>>
<1>1. /\ pc[c] = "orphaned" \/ (pc[c] = "continue" /\ v.status = "recovery-blocked")
      /\ Calm
  BY CalmWorld DEF ContinueOrphaned, PreflightFailsOrphaned, OrphanToContinue, At, world
<1>2. PICK batch :
        /\ Commit(c, batch, "continue")
        /\ \/ \E reason \in PauseKind : batch = PauseBoth(n, reason, None)
           \/ batch = ready \o ResumeBlocked(v)
  BY DEF ContinueOrphaned, PreflightFailsOrphaned, PreflightFailure, PauseKind
<1>3. Batch(batch, Closing, {}, {})
  <2>1. Plain(Because("NodeReady", n, "recovered"), Quiet) /\ Plain(Resumed, Closing)
    BY TypedEvents
  <2>2. Plain(Because("NodeReady", n, "recovered"), Closing)
    BY <2>1, TypeSets, Wider
  <2>3. Batch(ready, Closing, {}, {}) /\ Batch(ResumeBlocked(v), Closing, {}, {})
    BY <2>1, <2>2, PlainEvents, NoEvent DEF ResumeBlocked
  <2>4. Batch(ready \o ResumeBlocked(v), Closing, {}, {})
    BY <2>3, PlainThen
  <2> HIDE DEF n, ready
  <2> QED  BY <1>2, <2>4, PausingEvents
<1>4. ASSUME fresh[c], Materialized(run, batch) # {} PROVE Runs(run) = {}
  <2>1. v = run /\ run \in Run /\ RunSound(run) /\ Stands(pc[c], run, Threats)
    BY <1>4, FreshWork DEF WorkInv
  <2>2. CASE pc[c] = "orphaned"
    BY <2>1, <2>2 DEF Stands, NoneRuns
  <2>3. CASE run.status = "recovery-blocked"
    <3>1. ResumeBlocked(v) = <<Resumed>>
      BY <2>1, <2>3 DEF ResumeBlocked
    <3>2. "operator" \in PauseKind
      BY DEF PauseKind
    <3> HIDE DEF n
    <3> QED  BY <1>2, <1>4, <2>1, <2>3, <3>1, <3>2, SetAside
  <2> QED  BY <1>1, <2>1, <2>2, <2>3
<1> QED  BY <1>1, <1>2, <1>3, <1>4, QuietCommit, TypeSets

\* A stopped run resumes, stays as it is or goes on, and its runtime is negotiated.
LEMMA ContinueWorks ==
    ASSUME IInv, ControlInv, WorkInv, NEW c \in Coord,
           ResumePaused(c) \/ StayStopped(c) \/ ContinueRunning(c) \/ Negotiate(c)
    PROVE  WorkInv'
<1> DEFINE v == view[c]
<1>1. Calm
  BY CalmWorld DEF ResumePaused, StayStopped, ContinueRunning, Negotiate, world
<1>2. ASSUME fresh[c], pc[c] \in {"resuming", "preflight"} \/ (pc[c] = "continue" /\ MayResume(v))
      PROVE  Runs(run) = {}
  <2>1. v = run /\ RunSound(run) /\ Stands(pc[c], run, Threats)
    BY <1>2, FreshWork DEF WorkInv
  <2>2. CASE pc[c] \in {"resuming", "preflight"}
    BY <2>1, <2>2 DEF Stands, NoneRuns
  <2>3. CASE MayResume(v)
    BY <2>1, <2>3 DEF MayResume, RunSound
  <2> QED  BY <1>2, <2>2, <2>3
<1>3. CASE ResumePaused(c)
  <2>1. /\ pc[c] = "resuming" \/ (pc[c] = "continue" /\ MayResume(v))
        /\ Commit(c, ReadyBatch(PausedNodes(v), "resumed") \o <<Resumed>>, "schedule")
    BY <1>3 DEF ResumePaused, At
  <2>2. Batch(ReadyBatch(PausedNodes(v), "resumed"), Closing, {}, {})
    BY NodeBatches, TypeSets
  <2>3. Batch(<<Resumed>>, Closing, {}, {})
    <3>1. Plain(Resumed, Closing)
      BY TypedEvents
    <3> QED  BY <3>1, PlainEvents
  <2>4. Batch(ReadyBatch(PausedNodes(v), "resumed") \o <<Resumed>>, Closing, {}, {})
    BY <2>2, <2>3, PlainThen
  <2> QED  BY <1>1, <1>2, <2>1, <2>4, QuietCommit, TypeSets
<1>4. CASE StayStopped(c)
  <2>1. Moves(c, "returning")
    BY <1>4 DEF StayStopped
  <2> QED  BY <1>1, <2>1, MovesOn DEF Over, NoneRuns
<1>5. CASE ContinueRunning(c)
  <2>1. pc[c] = "continue" /\ v.status = "running" /\ Moves(c, "schedule")
    BY <1>5 DEF ContinueRunning, At
  <2>2. fresh[c] => Stands("schedule", run, Threats')
    BY <2>1, FreshWork DEF Stands, Over, NoneRuns
  <2> QED  BY <1>1, <2>1, <2>2, MovesOn
<1>6. CASE Negotiate(c)
  <2>1. Batch(<<RunEvent("RuntimeNegotiated")>>, Quiet, {}, {})
    <3>1. Plain(RunEvent("RuntimeNegotiated"), Quiet)
      BY TypedEvents
    <3> QED  BY <3>1, PlainEvents
  <2>2. \/ pc[c] = "preflight" /\ Commit(c, <<RunEvent("RuntimeNegotiated")>>, "prepare")
        \/ /\ pc[c] = "continue" /\ MayResume(v)
           /\ Commit(c, <<RunEvent("RuntimeNegotiated")>>, "resuming")
    BY <1>6 DEF Negotiate, At
  <2> QED  BY <1>1, <1>2, <2>1, <2>2, QuietCommit, TypeSets
<1> QED  BY <1>3, <1>4, <1>5, <1>6

-----------------------------------------------------------------------------
(* Coordination and the work *)

\* A control at a boundary; the next node, or none; its budget and its preflight; the end of a run
\* that succeeded. Nothing runs there.
LEMMA ScheduleWorks ==
    ASSUME IInv, ControlInv, WorkInv, NEW c \in Coord,
           \/ Boundary(c) \/ Schedule(c) \/ StopCoordinating(c) \/ Preflight(c)
           \/ ReadyDependents(c) \/ CompleteRun(c)
    PROVE  WorkInv'
<1> DEFINE v == view[c]
<1>1. Calm
  BY CalmWorld DEF Boundary, Schedule, StopCoordinating, Preflight, ReadyDependents, CompleteRun, world
<1>2. ASSUME Moves(c, "returning") PROVE WorkInv'
  BY <1>1, <1>2, MovesOn DEF Over, NoneRuns
<1>3. CASE StopCoordinating(c)
  BY <1>2, <1>3 DEF StopCoordinating
<1>4. CASE ~StopCoordinating(c)
  <2>1. \/ pc[c] \in NoneRuns
        \/ pc[c] = "schedule" /\ v.status = "running"
    BY <1>4 DEF Boundary, Schedule, Preflight, ReadyDependents, CompleteRun, At, NoneRuns
  <2>2. fresh[c] => Runs(run) = {}
    BY <2>1, FreshWork DEF Stands
  <2>3. ASSUME NEW next \in {"preflight", "prepare", "schedule"}, Moves(c, next) PROVE WorkInv'
    <3>1. fresh[c] => Stands(next, run, Threats')
      BY <2>2, <2>3 DEF Stands, Over
    <3> QED  BY <1>1, <2>3, <3>1, MovesOn
  <2>4. ASSUME NEW batch, NEW next, NEW seen, NEW done, Batch(batch, Closing, seen, done),
               Commit(c, batch, next)
        PROVE  WorkInv'
    BY <1>1, <2>2, <2>4, QuietCommit, TypeSets
  <2>5. \A S, reason : Batch(ReadyBatch(S, reason), Closing, {}, {})
    BY NodeBatches, TypeSets
  <2>6. CASE Boundary(c)
    <3>1. PICK k \in pending : Commit(c, BoundaryBatch(v, k, TRUE), "schedule")
      BY <2>6 DEF Boundary
    <3>2. k \in Control /\ TRUE \in BOOLEAN
      BY DEF ControlInv, ControlTyped
    <3>3. PICK seen, done : Batch(BoundaryBatch(v, k, TRUE), Closing, seen, done)
      BY <3>2, BoundaryEvents
    <3> QED  BY <2>4, <3>1, <3>3
  <2>7. CASE Schedule(c)
    <3>1. \/ Moves(c, "preflight") \/ Moves(c, "returning")
          \/ Commit(c, ReadyBatch(Executable(v), "dependencies-satisfied"), "preflight")
      BY <2>7 DEF Schedule
    <3> QED  BY <1>2, <2>3, <2>4, <2>5, <3>1
  <2>8. CASE Preflight(c)
    <3> DEFINE n == First(Ready(v))
    <3>1. \/ Commit(c, PauseBoth(n, "attempt-budget-exhausted", None), "schedule")
          \/ Moves(c, "prepare") \/ Commit(c, <<Paused(None)>>, "schedule")
      BY <2>8 DEF Preflight
    <3>2. /\ Batch(PauseBoth(n, "attempt-budget-exhausted", None), Closing, {}, {})
          /\ Batch(<<Paused(None)>>, Closing, {}, {})
      BY PausingEvents DEF PauseKind
    <3> HIDE DEF n
    <3> QED  BY <2>3, <2>4, <3>1, <3>2
  <2>9. CASE ReadyDependents(c)
    BY <2>4, <2>5, <2>9 DEF ReadyDependents
  <2>10. CASE CompleteRun(c)
    <3>1. Batch(<<[type |-> "RunCompleted", outcome |-> "succeeded"]>>, Closing, {}, {})
      BY TypedEvents, PlainEvents
    <3> QED  BY <2>3, <2>4, <2>10, <3>1 DEF CompleteRun
  <2> QED  BY <1>4, <2>6, <2>7, <2>8, <2>9, <2>10
<1> QED  BY <1>3, <1>4

\* The events that prepare an attempt run nothing, and take no attempt away.
Preparing == {"AttemptScheduled", "ArtifactProduced", "AttemptPrepared"}

LeadsOn(r, s) ==
    /\ Runs(r) = {} => Runs(s) = {}
    /\ \A n \in Node : r.nodes[n].attempts <= s.nodes[n].attempts

\* Each of them.
LEMMA PreparingEvent ==
    ASSUME NEW r \in Run, NEW e, Typed(e), e.type \in Preparing, NEW s \in Applied(r, e)
    PROVE  s \in Run /\ LeadsOn(r, s)
<1>1. s \in Run /\ \A n \in Node : r.nodes[n].attempts \in Nat /\ s.nodes[n].attempts \in Nat
  BY EventEffect DEF Run, NodeState
<1>2. CASE e.type # "AttemptScheduled"
  <2>1. StartsNothing(r, s)
    BY <1>2, EventEffect DEF Preparing, Starting
  <2> QED  BY <1>1, <2>1 DEF StartsNothing, LeadsOn, Runs
<1>3. CASE e.type = "AttemptScheduled"
  <2> DEFINE last == [NoAttempt EXCEPT !.status = "scheduled"]
             node == [NodeOf(r, e) EXCEPT !.attempts = e.attempt, !.last = last]
  <2>1. s = Updated(r, e, node) /\ e.attempt = NodeOf(r, e).attempts + 1
    BY <1>3 DEF Applied, AttemptScheduled, When
  <2>2. ASSUME e.node \in Node
        PROVE  node.attempts = e.attempt /\ node.last.status = "scheduled"
    <3>1. PICK old \in NodeState : old = NodeOf(r, e)
      BY <2>2 DEF NodeOf, Run
    <3>2. last.status = "scheduled"
      BY DEF NoAttempt
    <3> HIDE DEF last
    <3>3. node = [old EXCEPT !.attempts = e.attempt, !.last = last]
      BY <3>1
    <3> HIDE DEF node
    <3> QED  BY <3>2, <3>3 DEF NodeState
  <2> HIDE DEF node
  <2>3. \A n \in Node : s.nodes[n] = IF n = e.node THEN node ELSE r.nodes[n]
    BY <2>1 DEF Updated, Run
  <2>4. ASSUME NEW n \in Node PROVE r.nodes[n].attempts <= s.nodes[n].attempts
    <3>1. r.nodes[n].attempts \in Nat
      BY <1>1
    <3>2. CASE n = e.node
      <4>1. s.nodes[n].attempts = r.nodes[n].attempts + 1
        BY <2>1, <2>2, <2>3, <3>2 DEF NodeOf
      <4> QED  BY <3>1, <4>1
    <3>3. CASE n # e.node
      BY <2>3, <3>1, <3>3
    <3> QED  BY <3>2, <3>3
  <2>5. Runs(s) \subseteq Runs(r)
    BY <2>2, <2>3 DEF Runs
  <2> QED  BY <1>1, <2>4, <2>5 DEF LeadsOn
<1> QED  BY <1>2, <1>3

\* All three.
LEMMA PreparingBatch ==
    ASSUME NEW r \in Run, NEW batch, NEW seen, NEW done, Batch(batch, Preparing, seen, done),
           NEW s \in Materialized(r, batch)
    PROVE  LeadsOn(r, s)
<1> DEFINE S == {t \in Run : LeadsOn(r, t)}
<1>1. r \in S
  BY DEF LeadsOn, Run, NodeState
<1>2. ASSUME NEW i \in 1..Len(batch), NEW t \in S PROVE Applied(t, batch[i]) \subseteq S
  <2> SUFFICES ASSUME NEW u \in Applied(t, batch[i]) PROVE u \in S
    OBVIOUS
  <2>1. Typed(batch[i]) /\ batch[i].type \in Preparing
    BY DEF Batch
  <2>2. u \in Run /\ LeadsOn(t, u) /\ t \in Run /\ LeadsOn(r, t)
    BY <2>1, PreparingEvent
  <2>3. \A n \in Node : /\ r.nodes[n].attempts \in Nat /\ t.nodes[n].attempts \in Nat
                        /\ u.nodes[n].attempts \in Nat
    BY <2>2 DEF Run, NodeState
  <2> QED  BY <2>2, <2>3 DEF LeadsOn
<1>3. Len(batch) \in Nat
  BY DEF Batch
<1> HIDE DEF S
<1>4. Materialized(r, batch) \subseteq S
  BY <1>1, <1>2, <1>3, BatchPreserves
<1> QED  BY <1>4 DEF S

\* prepareAttempt: the execution that is prepared is of a new attempt, for which no authorization
\* can be under way.
LEMMA PrepareAttemptWorks ==
    ASSUME IInv, ControlInv, WorkInv, NEW c \in Coord, PrepareAttempt(c)
    PROVE  WorkInv'
<1> DEFINE v == view[c]
           n == First(Ready(v))
           k == v.nodes[n].attempts + 1
           Numbered(type) == [type |-> type, node |-> n, attempt |-> k]
           batch == <<Numbered("AttemptScheduled"), Numbered("ArtifactProduced"),
                      Numbered("AttemptPrepared")>>
<1>1. /\ pc[c] = "prepare" /\ Commit(c, batch, "preparing") /\ UNCHANGED host
      /\ \/ inflight' = inflight \cup {<<"prepare", <<n, k>>>>} /\ pc'[c] = "preparing"
         \/ inflight' = inflight
  BY DEF PrepareAttempt, At, world
<1>2. Batch(batch, Preparing, {}, {})
  <2>1. \A type \in Preparing : Plain(Numbered(type), Preparing)
    BY DEF Plain, Typed, Preparing, RunWide, RunOnly, NodeOnly, Asks, Answers
  <2>2. Plain(Numbered("AttemptScheduled"), Preparing) /\ Plain(Numbered("ArtifactProduced"), Preparing)
        /\ Plain(Numbered("AttemptPrepared"), Preparing)
    BY <2>1 DEF Preparing
  <2> HIDE DEF Numbered
  <2> QED  BY <2>2, PlainEvents
<1>3. batch # <<>>
  OBVIOUS
<1> HIDE DEF batch
<1>4. /\ host' \in [Execution -> HostStatus] /\ Threats' = Threats
      /\ \A e : <<"authorize", e>> \in inflight' => <<"authorize", e>> \in inflight
  BY <1>1 DEF WorkInv, Threats
<1>5. Preparing \cap Launching = {}
  BY DEF Preparing, Launching
<1>6. ASSUME fresh[c] PROVE Kept(c, batch, "preparing")
  <2> SUFFICES ASSUME NEW s \in Materialized(run, batch) \cap Run
               PROVE  /\ RunSound(s) /\ Owned(s, Threats') /\ Sent(s, inflight')
                      /\ Stands("preparing", s, Threats')
    BY <1>6, FreshWork DEF Kept
  <2>1. v = run /\ run \in Run /\ Runs(run) = {}
    BY <1>1, <1>6, FreshWork DEF Stands, NoneRuns
  <2>2. Threats = {}
    BY <2>1, OneThreat DEF WorkInv, Threats
  <2>3. LeadsOn(run, s) /\ Runs(s) = {}
    BY <1>2, <2>1, PreparingBatch DEF LeadsOn
  <2>4. Sent(s, inflight')
    <3> SUFFICES ASSUME NEW e \in Execution, <<"authorize", e>> \in inflight'
                 PROVE  e[2] <= s.nodes[e[1]].attempts /\ <<"prepare", e>> \notin inflight'
      BY DEF Sent
    <3>1. e[2] <= run.nodes[e[1]].attempts /\ <<"prepare", e>> \notin inflight
      BY <1>4 DEF WorkInv, Sent
    <3>2. e[1] \in Node /\ e[2] \in Nat
      BY CoordinatorConstants DEF Execution
    <3>3. run.nodes[e[1]].attempts \in Nat /\ s.nodes[e[1]].attempts \in Nat
      BY <2>1, <3>2 DEF Run, NodeState
    <3>4. e[2] <= s.nodes[e[1]].attempts
      BY <2>3, <3>1, <3>2, <3>3 DEF LeadsOn
    <3>5. e # <<n, k>>
      BY <2>1, <3>1, <3>2, <3>3
    <3> QED  BY <1>1, <3>1, <3>4, <3>5
  <2>5. \A m \in Node : Parted(s, m)
    BY <1>2, <1>5, <2>1, AllParted, PartedBatch DEF WorkInv
  <2> QED  BY <1>4, <2>2, <2>3, <2>4, <2>5 DEF RunSound, Owned, Stands, Over
<1>7. \/ Threats' \subseteq Threats /\ inflight' \subseteq inflight
      \/ (batch # <<>> /\ (pc'[c] # "rejected" /\ pc'[c] # "failing"))
  BY <1>1, <1>3, <1>4
<1> QED  BY <1>1, <1>2, <1>4, <1>6, <1>7, WorkCommit

\* AttemptStartAuthorized makes the first active attempt the running one.
LEMMA StartEvent ==
    ASSUME NEW r \in Run, RunSound(r), Runs(r) = {}, r.status = "running",
           NEW n, n = First(Active(r)),
           NEW s \in Applied(r, AttemptEvent(r, "AttemptStartAuthorized", n))
    PROVE  /\ RunSound(s)
           /\ n \in Node => n \in Runs(s)
           /\ \A m \in Node : s.nodes[m].attempts = r.nodes[m].attempts
<1> DEFINE e == AttemptEvent(r, "AttemptStartAuthorized", n)
           last == [NodeOf(r, e).last EXCEPT !.status = "running"]
           node == [NodeOf(r, e) EXCEPT !.status = "running", !.last = last]
<1>1. e.type = "AttemptStartAuthorized" /\ e.node = n
  BY DEF AttemptEvent
<1>2. s = Updated(r, e, node) /\ NodeOf(r, e).last.status = "prepared"
  <2> HIDE DEF e
  <2>1. s \in AttemptStartAuthorized(r, e)
    BY <1>1 DEF Applied, AttemptEvent, e
  <2>2. s = Started(r, e) /\ CurrentAttempt(r, e, {"prepared"})
    BY <2>1 DEF AttemptStartAuthorized, When
  <2> QED  BY <2>2 DEF Started, CurrentAttempt
<1>3. ASSUME n \in Node
      PROVE  /\ node.status = "running" /\ node.last.status = "running"
             /\ node.attempts = r.nodes[n].attempts /\ r.nodes[n].last.status = "prepared"
  <2>1. r.nodes[n] \in NodeState /\ r.nodes[n].last \in Attempt /\ NodeOf(r, e) = r.nodes[n]
    BY <1>1, <1>3 DEF NodeOf, Run, NodeState
  <2>2. last.status = "running"
    BY <2>1 DEF Attempt
  <2> HIDE DEF last, e
  <2> QED  BY <1>2, <2>1, <2>2 DEF NodeState
<1> HIDE DEF node, last, e
<1>4. s.status = r.status /\ \A m \in Node : s.nodes[m] = IF m = n THEN node ELSE r.nodes[m]
  BY <1>1, <1>2 DEF Updated, Run
<1>5. Active(s) = Active(r)
  BY <1>3, <1>4 DEF Active
<1>6. ASSUME NEW m \in Runs(s) PROVE m = n
  BY <1>4, <1>6 DEF Runs
<1>7. n \in Node => n \in Runs(s)
  BY <1>3, <1>4 DEF Runs
<1>8. RunSound(s)
  <2>1. ASSUME NEW m \in Node \ Runs(s) PROVE Parted(s, m)
    BY <1>4, <1>7, AllParted DEF Parted
  <2> QED  BY <1>3, <1>4, <1>5, <1>6, <2>1 DEF RunSound, Runs
<1>9. \A m \in Node : s.nodes[m].attempts = r.nodes[m].attempts
  BY <1>3, <1>4
<1> QED  BY <1>8, <1>7, <1>9

\* Its start is authorized in the store, then at the supervisor: the only step that lets a worker run.
LEMMA AuthorizeWorks ==
    ASSUME IInv, ControlInv, WorkInv, NEW c \in Coord, Authorize(c)
    PROVE  WorkInv'
<1> DEFINE v == view[c]
           n == First(Active(v))
           d == Current(c)
           batch == <<AttemptEvent(v, "AttemptStartAuthorized", n)>>
<1>1. /\ pc[c] = "preparing" /\ Commit(c, batch, "starting") /\ UNCHANGED host
      /\ <<"prepare", d>> \notin inflight
      /\ inflight' = IF pc'[c] = "starting" THEN inflight \cup {<<"authorize", d>>} ELSE inflight
  BY DEF Authorize, At
<1>2. Batch(batch, Loud, {}, {})
  <2>1. Plain(AttemptEvent(v, "AttemptStartAuthorized", n), Loud)
    BY TypedEvents
  <2> QED  BY <2>1, PlainEvents
<1>3. batch # <<>> /\ d = <<n, v.nodes[n].attempts>>
  BY DEF Current, ExecutionOf
<1>4. /\ host' \in [Execution -> HostStatus]
      /\ Threats' \subseteq Threats \cup {d}
      /\ inflight' \subseteq inflight \cup {<<"authorize", d>>}
  BY <1>1 DEF WorkInv, Threats
<1>5. ASSUME fresh[c] PROVE Kept(c, batch, "starting")
  <2> SUFFICES ASSUME NEW s \in Materialized(run, batch) \cap Run
               PROVE  /\ RunSound(s) /\ Owned(s, Threats') /\ Sent(s, inflight')
                      /\ Stands("starting", s, Threats')
    BY <1>5, FreshWork DEF Kept
  <2>1. v = run /\ run \in Run /\ Runs(run) = {} /\ run.status = "running"
    <3>1. pc[c] \in Working
      BY <1>1, Places
    <3> QED  BY <1>1, <1>5, <3>1, FreshWork, FreshKnows DEF Stands, NoneRuns
  <2>2. s \in Applied(run, AttemptEvent(run, "AttemptStartAuthorized", n))
    BY <2>1, Single
  <2>3. /\ RunSound(s) /\ (n \in Node => n \in Runs(s))
        /\ \A m \in Node : s.nodes[m].attempts = run.nodes[m].attempts
    BY <2>1, <2>2, StartEvent DEF WorkInv
  <2>4. Threats' \subseteq {d} \cap Execution
    <3>1. Threats = {}
      BY <2>1, OneThreat DEF WorkInv, Threats
    <3> QED  BY <1>4, <3>1 DEF Threats
  <2>5. \A e \in Execution : e[1] \in Node
    BY DEF Execution
  <2>6. Owned(s, Threats')
    <3>1. ASSUME NEW e \in Threats' PROVE e[1] \in Runs(s) /\ s.nodes[e[1]].attempts = e[2]
      <4>1. e = <<n, run.nodes[n].attempts>> /\ e[1] \in Node
        BY <1>3, <2>1, <2>4, <2>5
      <4> QED  BY <2>3, <4>1
    <3> QED  BY <3>1 DEF Owned
  <2>7. Sent(s, inflight')
    <3> SUFFICES ASSUME NEW e \in Execution, <<"authorize", e>> \in inflight'
                 PROVE  e[2] <= s.nodes[e[1]].attempts /\ <<"prepare", e>> \notin inflight'
      BY DEF Sent
    <3>1. <<"prepare", e>> \in inflight' => <<"prepare", e>> \in inflight
      BY <1>4
    <3>2. e[1] \in Node /\ run.nodes[e[1]].attempts \in Nat
      BY <2>1, <2>5 DEF Run, NodeState
    <3>3. CASE <<"authorize", e>> \in inflight
      BY <2>3, <3>1, <3>2, <3>3 DEF WorkInv, Sent
    <3>4. CASE e = d
      <4>1. e[1] = n /\ e[2] = run.nodes[n].attempts
        BY <1>3, <2>1, <3>4
      <4> QED  BY <1>1, <2>3, <3>1, <3>2, <3>4, <4>1
    <3> QED  BY <1>4, <3>3, <3>4
  <2>8. Stands("starting", s, Threats')
    BY Elsewhere DEF Over, NoneRuns
  <2> QED  BY <2>3, <2>6, <2>7, <2>8
<1>6. \/ Threats' \subseteq Threats /\ inflight' \subseteq inflight
      \/ (batch # <<>> /\ (pc'[c] # "rejected" /\ pc'[c] # "failing"))
  BY <1>1, <1>3 DEF Threats
<1> HIDE DEF batch
<1> QED  BY <1>1, <1>2, <1>4, <1>5, <1>6, WorkCommit

\* The attempt is driven, its deadline passes, a control is observed: it stays as it is.
LEMMA DriveWorks ==
    ASSUME IInv, ControlInv, WorkInv, NEW c \in Coord, Drive(c) \/ ObserveControl(c) \/ RequestTimeout(c)
    PROVE  WorkInv'
<1>1. Calm
  BY CalmWorld DEF Drive, ObserveControl, RequestTimeout, world
<1>2. {"driving", "control", "timeout"} \cap (Over \cup NoneRuns \cup {"continue", "schedule"}) = {}
  BY DEF Over, NoneRuns
<1>3. CASE Drive(c)
  BY <1>1, <1>2, <1>3, MovesOn DEF Drive
<1>4. CASE ObserveControl(c)
  <2>1. PICK k \in pending : Commit(c, <<Observed(k)>>, "control")
    BY <1>4 DEF ObserveControl
  <2>2. k \in Control
    BY DEF ControlInv, ControlTyped
  <2> QED  BY <1>1, <1>2, <2>1, <2>2, SteadyEvents, SteadyCommit
<1>5. CASE RequestTimeout(c)
  <2> DEFINE n == First(Active(view[c]))
  <2>1. Commit(c, <<AttemptEvent(view[c], "AttemptTimeoutRequested", n)>>, "timeout")
    BY <1>5 DEF RequestTimeout
  <2>2. Batch(<<AttemptEvent(view[c], "AttemptTimeoutRequested", n)>>, Steady, {}, {})
    BY SteadyEvents, PlainEvents
  <2> HIDE DEF n
  <2> QED  BY <1>1, <1>2, <2>1, <2>2, SteadyCommit
<1> QED  BY <1>3, <1>4, <1>5

\* The execution is collected, or cancelled; a confirmation ends it.
LEMMA StopsWorks ==
    ASSUME IInv, ControlInv, WorkInv, NEW c \in Coord, Collect(c) \/ Cancel(c)
    PROVE  WorkInv'
<1> DEFINE e == ExecutionOf(view[c], First(Active(view[c])))
<1>1. ASSUME NEW next \in {"finishing", "timedOut", "controlled"}, Moves(c, next), Calm, e \notin Threats'
      PROVE  WorkInv'
  <2>1. fresh[c] => Stands(next, run, Threats')
    BY <1>1, FreshWork DEF Stands, NoneRuns
  <2> QED  BY <1>1, <2>1, MovesOn
<1>2. CASE Collect(c)
  <2>1. /\ Moves(c, "finishing") /\ host' = [host EXCEPT ![e] = "absent"] /\ inflight' = inflight
    BY <1>2 DEF Collect, Current
  <2> HIDE DEF e
  <2>2. host' \in [Execution -> HostStatus]
    BY <2>1 DEF WorkInv, HostStatus
  <2>3. Threats' \subseteq Threats \ {e}
    BY <2>1 DEF WorkInv, Threats, MaybeRunning
  <2> QED  BY <1>1, <2>1, <2>2, <2>3 DEF Calm
<1>3. CASE Cancel(c)
  BY <1>1, <1>3, CalmWorld DEF Cancel
<1> QED  BY <1>2, <1>3

\* A cancellation that is not confirmed blocks the run.
LEMMA CancelUnconfirmedWorks ==
    ASSUME IInv, ControlInv, WorkInv, NEW c \in Coord, CancelUnconfirmed(c)
    PROVE  WorkInv'
<1> DEFINE v == view[c]
           n == First(Active(v))
           action == ActionOf[ctl[c]]
           late == <<CancellationCompleted(v, n, "failed"), Cleanup(v, n, "timeout", "unknown")>>
<1>1. Calm
  BY CalmWorld DEF CancelUnconfirmed
<1>2. \/ Commit(c, late \o <<RecoveryBlocked(v, n, "cleanup-unknown")>>, "schedule")
      \/ /\ pc[c] = "control"
         /\ Commit(c, <<Cleanup(v, n, action, "unknown")>> \o <<RecoveryBlocked(v, n, "cleanup-unknown")>>,
                   "schedule")
  BY DEF CancelUnconfirmed, At
<1>3. Batch(late, Steady, {}, {})
  <2>1. /\ Plain(CancellationCompleted(v, n, "failed"), Steady)
        /\ Plain(Cleanup(v, n, "timeout", "unknown"), Steady)
    BY SteadyEvents DEF Cause, CleanupOutcome, CancellationOutcome
  <2> QED  BY <2>1, PlainEvents
<1>4. ASSUME pc[c] = "control" PROVE Batch(<<Cleanup(v, n, action, "unknown")>>, Steady, {}, {})
  <2>1. pc[c] \in Controlling
    BY <1>4 DEF Controlling
  <2>2. fresh[c]
    BY <2>1 DEF IInv, ActingIsFresh, Acting, Executing, Controlling
  <2>3. ctl[c] # None
    BY <2>1, <2>2, FreshKnows DEF Known
  <2>4. action \in Cause
    BY <2>3, CoordinatorConstants DEF ControlInv, ControlTyped, Cause
  <2>5. Plain(Cleanup(v, n, action, "unknown"), Steady)
    BY <2>4, SteadyEvents DEF CleanupOutcome
  <2> QED  BY <2>5, PlainEvents
<1> HIDE DEF late, v, n, action
<1> QED  BY <1>1, <1>2, <1>3, <1>4, BlocksWork

\* The result or the confirmed timeout of the attempt is recorded, with its end.
LEMMA FinishWorks ==
    ASSUME IInv, ControlInv, WorkInv, NEW c \in Coord, FinishExecution(c) \/ FinishTimeout(c)
    PROVE  WorkInv'
<1> DEFINE v == view[c]
           n == First(Active(v))
           artifact == AttemptEvent(v, "ArtifactProduced", n)
           workspace == AttemptEvent(v, "WorkspaceObserved", n)
           evidence == <<artifact, workspace>>
           Halts(batch) == n \in Node /\ v.nodes[n].status = "running" => Parts(batch, n)
<1>1. Calm /\ pc[c] \in Over
  BY CalmWorld DEF FinishExecution, FinishTimeout, At, world, Over
<1>2. Plain(artifact, Quiet) /\ Plain(workspace, Quiet)
  BY TypedEvents
<1> HIDE DEF artifact, workspace
<1>3. Batch(evidence, Quiet, {}, {})
  BY <1>2, PlainEvents
<1> HIDE DEF evidence
<1>4. \A batch : Batch(batch, Quiet, {}, {}) => Batch(batch, Halting, {}, {})
  BY TypeSets, Wider
<1>5. ASSUME NEW batch, NEW next, Batch(batch, Halting, {}, {}), Commit(c, batch, next),
             NEW e, Has(batch, e), e.type \in EndsAttempt, e.node = n,
             Halts(batch)
      PROVE  WorkInv'
  <2>1. fresh[c] /\ n \in Node => Parted(run, n) \/ Parts(batch, n)
    BY <1>5, FreshWork DEF Parted
  <2> HIDE DEF n
  <2> QED  BY <1>1, <1>5, <2>1, EndingCommit, TypeSets DEF n
<1>6. ASSUME NEW a, Batch(a, Quiet, {}, {}), NEW x, Batch(x, Halting, {}, {}),
             NEW e, Has(x, e), e.type \in EndsAttempt, e.node = n, Halts(x),
             NEW next, Commit(c, a \o x, next)
      PROVE  WorkInv'
  <2>1. Batch(a \o x, Halting, {}, {})
    BY <1>4, <1>6, PlainThen
  <2>2. Has(a \o x, e)
    BY <1>6, HasJoined
  <2>3. Halts(a \o x)
    BY <1>6, PartsJoined
  <2> HIDE DEF Halts
  <2> QED  BY <1>5, <1>6, <2>1, <2>2, <2>3
<1>7. \A exhausted : Batch(FailureBatch(v, n, exhausted), Halting, {}, {})
  BY FailureEvents, TypeSets, Wider
<1>8. ASSUME NEW exhausted
      PROVE  /\ \E e : Has(FailureBatch(v, n, exhausted), e) /\ e.type \in EndsAttempt /\ e.node = n
             /\ Parts(FailureBatch(v, n, exhausted), n)
  <2> DEFINE e == [type |-> "AttemptFailed", node |-> n, attempt |-> v.nodes[n].attempts,
                   exhausted |-> exhausted]
             rest == IF Changed(n) THEN PauseBoth(n, "workspace-conflict", None)
                     ELSE IF BudgetLeft(v, n) THEN <<Because("NodeReady", n, "retry")>>
                     ELSE <<NodeEvent("NodeFailed", n)>> \o BlockOthers(v, n)
                          \o <<[type |-> "RunCompleted", outcome |-> "failed"]>>
  <2>1. e.type \in EndsAttempt /\ e.node = n
    BY DEF EndsAttempt
  <2>2. FailureBatch(v, n, exhausted) = <<e>> \o rest
    BY DEF FailureBatch
  <2>3. \E Y : rest \in Seq(Y)
    <3>1. PICK Y : BlockOthers(v, n) \in Seq(Y)
      <4>1. Batch(BlockOthers(v, n), Closing, {}, {})
        BY NodeBatches, TypeSets
      <4> QED  BY <4>1 DEF Batch
    <3> DEFINE Z == Y \cup {NodeEvent("NodeFailed", n), [type |-> "RunCompleted", outcome |-> "failed"]}
    <3>2. <<NodeEvent("NodeFailed", n)>> \o BlockOthers(v, n)
            \o <<[type |-> "RunCompleted", outcome |-> "failed"]>> \in Seq(Z)
      <4> HIDE DEF n
      <4>1. PICK x, z, y : /\ x = NodeEvent("NodeFailed", n) /\ y = BlockOthers(v, n)
                           /\ z = [type |-> "RunCompleted", outcome |-> "failed"]
        OBVIOUS
      <4>2. y \in Seq(Z) /\ x \in Z /\ z \in Z
        BY <3>1, <4>1
      <4> HIDE DEF Z
      <4>3. <<x>> \o y \o <<z>> \in Seq(Z)
        BY <4>2
      <4> QED  BY <4>1, <4>3
    <3>3. PauseBoth(n, "workspace-conflict", None)
            \in Seq({Because("NodePaused", n, "workspace-conflict"), Paused(None)})
      BY DEF PauseBoth
    <3>4. <<Because("NodeReady", n, "retry")>> \in Seq({Because("NodeReady", n, "retry")})
      OBVIOUS
    <3> QED  BY <3>2, <3>3, <3>4
  <2>4. \E stop : Has(rest, stop) /\ stop.type \in Parting /\ stop.node = n
    <3>1. CASE Changed(n)
      <4>1. Parts(PauseBoth(n, "workspace-conflict", None), n)
        BY PauseParts
      <4>2. rest = PauseBoth(n, "workspace-conflict", None)
        BY <3>1
      <4> HIDE DEF rest, n
      <4> QED  BY <4>1, <4>2 DEF Parts
    <3>2. CASE ~Changed(n) /\ BudgetLeft(v, n)
      <4>1. PICK stop : stop = Because("NodeReady", n, "retry")
        OBVIOUS
      <4>2. stop.type \in Parting /\ stop.node = n /\ rest = <<stop>>
        BY <3>2, <4>1 DEF Because, Parting
      <4> HIDE DEF rest, n
      <4> QED  BY <4>2, HasOne
    <3>3. CASE ~Changed(n) /\ ~BudgetLeft(v, n)
      <4>1. PICK stop, others, z : /\ stop = NodeEvent("NodeFailed", n) /\ others = BlockOthers(v, n)
                                   /\ z = [type |-> "RunCompleted", outcome |-> "failed"]
        OBVIOUS
      <4>2. stop.type \in Parting /\ stop.node = n /\ rest = <<stop>> \o others \o <<z>>
        BY <3>3, <4>1 DEF NodeEvent, Parting
      <4>3. PICK Y : others \in Seq(Y)
        <5>1. Batch(BlockOthers(v, n), Closing, {}, {})
          BY NodeBatches, TypeSets
        <5> QED  BY <4>1, <5>1 DEF Batch
      <4> HIDE DEF rest, n
      <4>4. others \in Seq(Y \cup {stop, z}) /\ Len(others) \in Nat
        BY <4>3
      <4>5. /\ (<<stop>> \o others \o <<z>>)[1] = stop
            /\ Len(<<stop>> \o others \o <<z>>) = Len(others) + 2
        BY <4>4
      <4>6. Has(rest, stop)
        BY <4>2, <4>4, <4>5 DEF Has
      <4> QED  BY <4>2, <4>6
    <3> QED  BY <3>1, <3>2, <3>3
  <2> HIDE DEF e, rest, n
  <2>5. ASSUME NEW Y, rest \in Seq(Y) PROVE Has(<<e>> \o rest, e)
    <3>1. Len(<<e>> \o rest) = 1 + Len(rest) /\ Len(rest) \in Nat /\ (<<e>> \o rest)[1] = e
      BY <2>5
    <3> QED  BY <3>1 DEF Has
  <2>6. ASSUME NEW Y, rest \in Seq(Y), NEW stop, Has(rest, stop) PROVE Has(<<e>> \o rest, stop)
    <3>1. PICK i \in 1..Len(rest) : rest[i] = stop
      BY <2>6 DEF Has
    <3>2. Len(<<e>> \o rest) = 1 + Len(rest) /\ Len(rest) \in Nat /\ (<<e>> \o rest)[i + 1] = rest[i]
      BY <2>6
    <3>3. i + 1 \in 1..Len(<<e>> \o rest)
      BY <3>2
    <3> QED  BY <3>1, <3>2, <3>3 DEF Has
  <2>7. Parts(FailureBatch(v, n, exhausted), n)
    BY <2>2, <2>3, <2>4, <2>6 DEF Parts
  <2> QED  BY <2>1, <2>2, <2>3, <2>5, <2>7
<1>9. CASE FinishTimeout(c)
  <2> DEFINE a == <<CancellationCompleted(v, n, "succeeded"), Cleanup(v, n, "timeout", "confirmed"),
                    artifact, workspace>>
  <2>1. Plain(CancellationCompleted(v, n, "succeeded"), Quiet)
        /\ Plain(Cleanup(v, n, "timeout", "confirmed"), Quiet)
    BY TypedEvents DEF Cause, CleanupOutcome, CancellationOutcome
  <2>2. Batch(a, Quiet, {}, {})
    BY <1>2, <2>1, PlainEvents
  <2>3. Commit(c, a \o FailureBatch(v, n, TRUE), "schedule")
    BY <1>9 DEF FinishTimeout, artifact, workspace
  <2> HIDE DEF a
  <2>4. PICK e : Has(FailureBatch(v, n, TRUE), e) /\ e.type \in EndsAttempt /\ e.node = n
    BY <1>8
  <2>5. Halts(FailureBatch(v, n, TRUE))
    BY <1>8
  <2> HIDE DEF Halts
  <2> QED  BY <1>6, <1>7, <2>2, <2>3, <2>4, <2>5
<1>10. CASE FinishExecution(c)
  <2> DEFINE x(type) == AttemptEvent(v, type, n)
             succeeded == <<x("AttemptSucceeded"), NodeEvent("NodeSucceeded", n)>>
             blocked == <<x("AttemptBlocked"), NodeEvent("NodeBlocked", n)>>
             cancelled == <<x("AttemptCancelled")>>
             last == [type |-> "RunCancelled", durable |-> FALSE, control |-> None]
  <2>1. \/ Commit(c, evidence \o succeeded, "succeeded")
        \/ Commit(c, evidence \o FailureBatch(v, n, FALSE), "schedule")
        \/ Commit(c, evidence \o blocked \o BlockOthers(v, n) \o <<RunEvent("RunBlocked")>>, "schedule")
        \/ Commit(c, evidence \o cancelled \o CancelNodes(v) \o <<last>>, "schedule")
    BY <1>10 DEF FinishExecution, evidence, artifact, workspace
  <2>2. \A type \in {"AttemptSucceeded", "AttemptBlocked", "AttemptCancelled"} :
           Plain(x(type), Quiet) /\ x(type).type \in EndsAttempt /\ x(type).node = n
    BY TypedEvents DEF AttemptEvent, EndsAttempt
  <2>3. Plain(NodeEvent("NodeSucceeded", n), Quiet) /\ Plain(NodeEvent("NodeBlocked", n), Quiet)
        /\ Plain(RunEvent("RunBlocked"), Halting)
    BY TypedEvents
  <2> HIDE DEF x
  <2>4. /\ Has(succeeded, x("AttemptSucceeded")) /\ Has(blocked, x("AttemptBlocked"))
        /\ Has(cancelled, x("AttemptCancelled"))
    BY HasOne
  <2>5. /\ Batch(succeeded, Quiet, {}, {}) /\ Batch(blocked, Quiet, {}, {})
        /\ Batch(cancelled, Quiet, {}, {}) /\ Batch(<<RunEvent("RunBlocked")>>, Halting, {}, {})
    BY <2>2, <2>3, PlainEvents
  <2>6. /\ Batch(BlockOthers(v, n), Halting, {}, {}) /\ Batch(CancelNodes(v), Halting, {}, {})
    BY NodeBatches, TypeSets
  <2>7. Batch(<<last>>, Halting, {}, {})
    <3>1. Typed(last) /\ last.type = "RunCancelled" /\ last.control = None
      BY DEF Typed, RunWide
    <3>2. NamedBy(last, Asks) = {} /\ NamedBy(last, Answers) = {} /\ last.type \in Halting
      BY <3>1, TypeSets DEF NamedBy, Asks, Answers
    <3> HIDE DEF last
    <3>3. Batch(<<last>>, Halting, NamedBy(last, Asks), NamedBy(last, Answers))
      BY <3>1, <3>2, OneEvent
    <3> QED  BY <3>2, <3>3
  <2>8. Halts(succeeded) /\ Halts(blocked)
    <3>1. /\ Has(succeeded, NodeEvent("NodeSucceeded", n))
          /\ Has(blocked, NodeEvent("NodeBlocked", n))
      BY HasOne
    <3>2. \A type \in {"NodeSucceeded", "NodeBlocked"} :
             NodeEvent(type, n).type \in Parting /\ NodeEvent(type, n).node = n
      BY DEF NodeEvent, Parting
    <3> HIDE DEF succeeded, blocked, n
    <3> QED  BY <3>1, <3>2 DEF Parts
  <2>9. Halts(CancelNodes(v))
    BY CancelParts
  <2> HIDE DEF succeeded, blocked, cancelled, last, Halts
  <2>10. CASE Commit(c, evidence \o succeeded, "succeeded")
    BY <1>3, <1>4, <1>6, <2>2, <2>4, <2>5, <2>10, <2>8
  <2>11. CASE Commit(c, evidence \o FailureBatch(v, n, FALSE), "schedule")
    <3>1. PICK e : Has(FailureBatch(v, n, FALSE), e) /\ e.type \in EndsAttempt /\ e.node = n
      BY <1>8
    <3>2. Halts(FailureBatch(v, n, FALSE))
      BY <1>8 DEF Halts
    <3> QED  BY <1>3, <1>6, <1>7, <2>11, <3>1, <3>2
  <2>12. ASSUME NEW y, NEW z, NEW w, Batch(y, Quiet, {}, {}), Batch(z, Halting, {}, {}),
                Batch(w, Halting, {}, {}), Commit(c, evidence \o y \o z \o w, "schedule"),
                NEW e, Has(y, e), e.type \in EndsAttempt, e.node = n, Halts(y) \/ Halts(z)
         PROVE  WorkInv'
    <3>1. Batch(evidence \o y, Halting, {}, {}) /\ Has(evidence \o y, e)
      BY <1>3, <1>4, <2>12, PlainThen, HasJoined
    <3>2. Batch((evidence \o y) \o z, Halting, {}, {}) /\ Has((evidence \o y) \o z, e)
      BY <2>12, <3>1, PlainThen, HasJoined
    <3>3. Batch(((evidence \o y) \o z) \o w, Halting, {}, {}) /\ Has(((evidence \o y) \o z) \o w, e)
      BY <2>12, <3>2, PlainThen, HasJoined
    <3>4. Halts((evidence \o y) \o z)
      <4>1. Parts(y, n) => Parts(evidence \o y, n)
        BY <1>3, <2>12, PartsJoined
      <4>2. Parts(evidence \o y, n) \/ Parts(z, n) => Parts((evidence \o y) \o z, n)
        BY <2>12, <3>1, PartsJoined
      <4> QED  BY <2>12, <4>1, <4>2 DEF Halts
    <3>5. Halts(((evidence \o y) \o z) \o w)
      BY <2>12, <3>2, <3>4, PartsJoined DEF Halts
    <3> HIDE DEF Halts
    <3> QED  BY <1>5, <2>12, <3>3, <3>5
  <2> QED  BY <2>1, <2>2, <2>4, <2>5, <2>6, <2>7, <2>10, <2>11, <2>12, <2>8, <2>9
<1> QED  BY <1>9, <1>10

-----------------------------------------------------------------------------
(* Every step and the work *)

\* Who leaves takes nothing along; what was under way goes on.
LEMMA GoneWorks ==
    ASSUME IInv, WorkInv, NEW c \in Coord, Gone(c), UNCHANGED <<run, host, inflight>>
    PROVE  WorkInv'
<1>1. Threats' = Threats /\ host' \in [Execution -> HostStatus]
  BY DEF Threats, WorkInv
<1>2. ASSUME NEW d \in Coord, fresh'[d] PROVE Stands(pc'[d], run, Threats')
  <2>1. d # c /\ fresh[d] /\ pc'[d] = pc[d]
    BY <1>2 DEF Gone, IInv, SessionTyped
  <2> QED  BY <1>1, <2>1 DEF WorkInv
<1> QED  BY <1>1, <1>2, WorkMoves

\* A supervisor starts what it was authorized to start, once it is prepared; nothing else starts.
LEMMA HostWorks ==
    ASSUME IInv, WorkInv, NEW e \in Execution, Host(e)
    PROVE  WorkInv'
<1>1. UNCHANGED <<run, session, pc>> /\ inflight' \subseteq inflight
  BY DEF Host, PrepareReturns, AuthorizeReturns, WorkerEnds, SupervisorStops, WorkerChangesWorkspace, store
<1>2. host \in [Execution -> HostStatus]
  BY DEF WorkInv
<1>3. host' \in [Execution -> HostStatus] /\ Threats' \subseteq Threats
  <2>1. CASE PrepareReturns(e)
    <3>1. <<"authorize", e>> \notin inflight /\ inflight' \subseteq inflight
      BY <2>1 DEF PrepareReturns, WorkInv, Sent
    <3> QED  BY <1>2, <2>1, <3>1 DEF PrepareReturns, SetHost, Threats, HostStatus, Live, MaybeRunning
  <2>2. CASE AuthorizeReturns(e)
    BY <1>2, <2>2 DEF AuthorizeReturns, SetHost, Threats, HostStatus, Live, MaybeRunning
  <2>3. CASE WorkerEnds(e)
    BY <1>2, <2>3 DEF WorkerEnds, SetHost, Threats, HostStatus, Live, MaybeRunning
  <2>4. CASE SupervisorStops(e)
    BY <1>2, <2>4 DEF SupervisorStops, SetHost, Threats, HostStatus, Live, MaybeRunning
  <2>5. CASE WorkerChangesWorkspace(e)
    BY <1>2, <2>5 DEF WorkerChangesWorkspace, Threats
  <2> QED  BY <2>1, <2>2, <2>3, <2>4, <2>5 DEF Host
<1>4. ASSUME NEW d \in Coord, fresh'[d] PROVE Stands(pc'[d], run, Threats')
  <2>1. fresh[d] /\ pc'[d] = pc[d] /\ Stands(pc[d], run, Threats)
    BY <1>1, <1>4 DEF session, WorkInv
  <2> QED  BY <1>3, <2>1, StandsStill
<1> QED  BY <1>1, <1>3, <1>4, WorkMoves

\* Every step keeps the work in order.
LEMMA WorkInductive ==
    ASSUME IInv, ControlInv, WorkInv, [Next]_vars
    PROVE  WorkInv'
<1>1. ASSUME NEW c \in Coord, Recovery(c) PROVE WorkInv'
  <2>1. CASE Load(c)
    <3>1. /\ UNCHANGED <<run, host, inflight>> /\ pc' = [pc EXCEPT ![c] = "loaded"]
          /\ fresh' = [fresh EXCEPT ![c] = TRUE]
      BY <2>1 DEF Load, store, world
    <3>2. Threats' = Threats /\ host' \in [Execution -> HostStatus]
      BY <3>1 DEF Threats, WorkInv
    <3>3. ASSUME NEW d \in Coord, fresh'[d] PROVE Stands(pc'[d], run, Threats')
      <4>1. CASE d = c
        BY <3>1, <4>1, Elsewhere DEF Over, NoneRuns, IInv, SessionTyped
      <4>2. CASE d # c
        BY <3>1, <3>2, <3>3, <4>2 DEF WorkInv, IInv, SessionTyped
      <4> QED  BY <4>1, <4>2
    <3> QED  BY <3>1, <3>2, <3>3, WorkMoves
  <2>2. CASE Acquire(c)
    <3>1. /\ UNCHANGED <<store, session, host, inflight>> /\ pc' = [pc EXCEPT ![c] = "recover"]
      BY <2>2 DEF Acquire, world
    <3>2. Threats' \subseteq Threats /\ host' \in [Execution -> HostStatus]
      BY <3>1 DEF Threats, WorkInv
    <3>3. Stands("recover", run, Threats')
      BY Elsewhere DEF Over, NoneRuns
    <3> QED  BY <3>1, <3>2, <3>3, WorkMovesOn
  <2>3. CASE Refused(c)
    BY <2>3, GoneWorks DEF Refused, store, world
  <2> QED  BY <1>1, <2>1, <2>2, <2>3, BeginReconcilingWorks, RecoverBoundaryWorks, InspectWorks,
           OrphanWorks, FinishRecoveredControlWorks, ContinueOrphanedWorks, ContinueWorks DEF Recovery
<1>2. ASSUME NEW c \in Coord, Coordination(c) PROVE WorkInv'
  BY <1>2, ScheduleWorks, PrepareAttemptWorks, AuthorizeWorks, DriveWorks, StopsWorks,
     CancelUnconfirmedWorks, FinishActiveControlWorks, FinishWorks DEF Coordination
<1>3. ASSUME NEW c \in Coord, HostFails(c) \/ Abandon(c) \/ SessionFails(c) PROVE WorkInv'
  <2>1. Calm
    BY <1>3, CalmWorld DEF HostFails, Abandon, SessionFails, world
  <2>2. \E place \in {"abandon", "failing"} : Moves(c, place)
    BY <1>3 DEF HostFails, Abandon, SessionFails
  <2> QED  BY <2>1, <2>2, MovesOn DEF Over, NoneRuns
<1>4. ASSUME NEW c \in Coord, Release(c) \/ Crash(c) PROVE WorkInv'
  BY <1>4, GoneWorks DEF Release, Crash, store, world
<1>5. CASE (\E k \in Control : SubmitControl(k)) \/ OperatorEdits \/ UNCHANGED vars
  <2>1. UNCHANGED <<run, session, pc, host, inflight>>
    BY <1>5 DEF SubmitControl, OperatorEdits, vars, world, store
  <2>2. Threats' = Threats /\ host' \in [Execution -> HostStatus]
    BY <2>1 DEF Threats, WorkInv
  <2>3. \A d \in Coord : fresh'[d] => Stands(pc'[d], run, Threats')
    BY <2>1, <2>2 DEF WorkInv, session
  <2> QED  BY <2>1, <2>2, <2>3, WorkMoves
<1> QED  BY <1>1, <1>2, <1>3, <1>4, <1>5, HostWorks DEF Next, End

\* createOwned stores a run without attempts, and no execution.
LEMMA WorkInitially == Init => WorkInv
<1> SUFFICES ASSUME Init PROVE WorkInv
  OBVIOUS
<1>1. /\ run = InitialRun /\ host = [e \in Execution |-> "none"] /\ inflight = {}
  BY DEF Init
<1>2. ASSUME NEW n \in Node
      PROVE  run.nodes[n].last.status = "none" /\ run.nodes[n].status # "running"
  <2>1. CreatedRun.nodes[n].last.status = "none"
    BY DEF CreatedRun, NoAttempt
  <2>2. run.nodes[n].last = CreatedRun.nodes[n].last /\ run.nodes[n].status \in {"pending", "ready"}
    BY <1>1 DEF InitialRun, CreatedRun
  <2> QED  BY <2>1, <2>2
<1>3. Runs(run) = {} /\ Active(run) = {}
  BY <1>2 DEF Runs, Active
<1>4. Threats = {}
  BY <1>1 DEF Threats, MaybeRunning
<1>5. Finished(run) /\ \A n \in Node : Parted(run, n)
  <2>1. run.status = "running"
    BY <1>1 DEF InitialRun, CreatedRun
  <2> QED  BY <1>2, <2>1 DEF Finished, Parted
<1> QED  BY <1>1, <1>3, <1>4, <1>5 DEF WorkInv, RunSound, Owned, Sent, Stands, HostStatus

\* The three invariants hold in every state.
LEMMA WorkInvariance == Spec => [](IInv /\ ControlInv /\ WorkInv)
<1>1. IInv /\ ControlInv /\ WorkInv /\ [Next]_vars => (IInv /\ ControlInv /\ WorkInv)'
  BY Inductive, ControlInductive, WorkInductive DEF ControlStep
<1> QED  BY <1>1, Initially, ControlInitially, WorkInitially, PTL DEF Spec

\* executeReadyNode, reconcileOwnedAttempt: no crash, failed session, late authorization or takeover
\* leaves a worker beside that of the attempt the store says is running, and none may be running in
\* a run that is paused, blocked or settled.
THEOREM WorkersAreOwned == Spec => []WorkerIsOwned
<1>1. WorkInv => WorkerIsOwned
  BY OwnedWorker
<1> QED  BY <1>1, WorkInvariance, PTL

\* RunPaused, RunBlocked, RunCompleted, RunCancelled: whoever stops a run, and whatever it crashed
\* over before, the run keeps no attempt running and no node running but one that lost its attempt;
\* and a run succeeds only with all its nodes.
THEOREM StoppedRunsAreQuiet == Spec => []StoppedRunIsQuiet
<1>1. WorkInv => StoppedRunIsQuiet
  BY QuietWhereStopped
<1> QED  BY <1>1, WorkInvariance, PTL

-----------------------------------------------------------------------------
(* Batches that are accepted *)

\* A batch is accepted, and what it makes of a run is known, if each of its events is accepted by
\* whatever is known after the one before.
LEMMA BatchAccepted ==
    ASSUME NEW r, NEW batch, Len(batch) \in Nat, NEW P, r \in P[0],
           \A i \in 1..Len(batch) : \A s \in P[i - 1] : \E u \in Applied(s, batch[i]) : u \in P[i]
    PROVE  \E t \in Materialized(r, batch) : t \in P[Len(batch)]
<1> DEFINE n == Len(batch)
<1>1. PICK f : Steps(f, r, batch, n) /\ Materialized(r, batch) = f[n]
  BY MaterializedSteps, Zenon
<1> DEFINE T == {k \in Nat : k <= n /\ ~ \E t \in f[k] : t \in P[k]}
<1>2. ASSUME T # {} PROVE FALSE
  <2>1. PICK k \in T : \A m \in T : k <= m
    BY <1>2, LeastNumber
  <2>2. k \in 0..n
    OBVIOUS
  <2>3. f[k] = IF k = 0 THEN {r} ELSE UNION {Applied(s, batch[k]) : s \in f[k - 1]}
    BY <1>1, <2>2, Zenon DEF Steps
  <2>4. k # 0
    BY <2>1, <2>3
  <2>5. k - 1 \in Nat /\ k - 1 <= n /\ k - 1 \notin T /\ k \in 1..n
    BY <2>1, <2>4
  <2>6. PICK s \in f[k - 1] : s \in P[k - 1]
    BY <2>5
  <2>7. PICK u \in Applied(s, batch[k]) : u \in P[k]
    BY <2>5, <2>6
  <2>8. u \in f[k]
    BY <2>3, <2>4, <2>6, <2>7
  <2> QED  BY <2>1, <2>7, <2>8
<1>3. n \in Nat /\ n <= n /\ n \notin T
  BY <1>2
<1> QED  BY <1>1, <1>3

\* What a second batch makes of what a first one made, the two make together.
LEMMA BatchesJoined ==
    ASSUME NEW r, NEW a, NEW b, NEW A, NEW B, a \in Seq(A), b \in Seq(B),
           NEW t \in Materialized(r, a), NEW u \in Materialized(t, b)
    PROVE  u \in Materialized(r, a \o b)
<1>1. /\ Len(a) \in Nat /\ Len(b) \in Nat /\ Len(a \o b) = Len(a) + Len(b)
      /\ \A i \in 1..Len(a) : (a \o b)[i] = a[i]
      /\ \A i \in 1..Len(b) : (a \o b)[Len(a) + i] = b[i]
  OBVIOUS
<1>2. PICK ab : ab = a \o b
  OBVIOUS
<1>3. PICK n, m : n = Len(a) /\ m = Len(b)
  OBVIOUS
<1>4. /\ n \in Nat /\ m \in Nat /\ Len(ab) = n + m
      /\ \A i \in 1..n : ab[i] = a[i]
      /\ \A i \in 1..m : ab[n + i] = b[i]
  BY <1>1, <1>2, <1>3
<1>5. PICK g : Steps(g, r, a, n) /\ Materialized(r, a) = g[n]
  BY <1>1, <1>3, MaterializedSteps
<1>6. PICK h : Steps(h, t, b, m) /\ Materialized(t, b) = h[m]
  BY <1>1, <1>3, MaterializedSteps
<1>7. PICK f : Steps(f, r, ab, n + m) /\ Materialized(r, ab) = f[n + m]
  <2>1. Len(ab) \in Nat
    BY <1>4
  <2> QED  BY <1>4, <2>1, MaterializedSteps, Zenon
<1>8. g[n] \subseteq f[n]
  <2> DEFINE T == {k \in Nat : k <= n /\ ~(g[k] \subseteq f[k])}
  <2>1. ASSUME T # {} PROVE FALSE
    <3>1. PICK k \in T : \A j \in T : k <= j
      BY <2>1, LeastNumber
    <3>2. k \in 0..n /\ k \in 0..(n + m)
      BY <1>4
    <3>3. /\ g[k] = IF k = 0 THEN {r} ELSE UNION {Applied(s, a[k]) : s \in g[k - 1]}
          /\ f[k] = IF k = 0 THEN {r} ELSE UNION {Applied(s, ab[k]) : s \in f[k - 1]}
      BY <1>5, <1>7, <3>2, Zenon DEF Steps
    <3>4. k # 0
      BY <3>1, <3>3
    <3>5. k - 1 \in Nat /\ k - 1 <= n /\ k - 1 \notin T /\ k \in 1..n
      BY <1>4, <3>1, <3>4
    <3>6. g[k - 1] \subseteq f[k - 1] /\ ab[k] = a[k]
      BY <1>4, <3>5
    <3>7. g[k] \subseteq f[k]
      BY <3>3, <3>4, <3>6, Zenon
    <3> QED  BY <3>1, <3>7
  <2>2. n \in Nat /\ n <= n /\ n \notin T
    BY <1>4, <2>1
  <2> QED  BY <2>2
<1>9. h[m] \subseteq f[n + m]
  <2> DEFINE T == {k \in Nat : k <= m /\ ~(h[k] \subseteq f[n + k])}
  <2>1. ASSUME T # {} PROVE FALSE
    <3>1. PICK k \in T : \A j \in T : k <= j
      BY <2>1, LeastNumber
    <3>2. k \in 0..m /\ n + k \in 0..(n + m) /\ n + 0 = n
      BY <1>4
    <3>3. /\ h[k] = IF k = 0 THEN {t} ELSE UNION {Applied(s, b[k]) : s \in h[k - 1]}
          /\ f[n + k] = IF n + k = 0 THEN {r} ELSE UNION {Applied(s, ab[n + k]) : s \in f[(n + k) - 1]}
      BY <1>6, <1>7, <3>2, Zenon DEF Steps
    <3>4. t \in f[n]
      BY <1>5, <1>8
    <3>5. CASE k = 0
      BY <3>1, <3>2, <3>3, <3>4, <3>5
    <3>6. CASE k # 0
      <4>1. k - 1 \in Nat /\ k - 1 <= m /\ k - 1 \notin T /\ k \in 1..m /\ n + k # 0 /\ (n + k) - 1 = n + (k - 1)
        BY <1>4, <3>1, <3>6
      <4>2. h[k - 1] \subseteq f[(n + k) - 1] /\ ab[n + k] = b[k]
        BY <1>4, <4>1
      <4>3. h[k] \subseteq f[n + k]
        BY <3>3, <3>6, <4>1, <4>2, Zenon
      <4> QED  BY <3>1, <4>3
    <3> QED  BY <3>5, <3>6
  <2>2. m \in Nat /\ m <= m
    BY <1>4
  <2>3. m \notin T
    BY <2>1
  <2> QED  BY <2>2, <2>3
<1> QED  BY <1>2, <1>6, <1>7, <1>9

\* The nodes of a set in authored order are listed once each.
LEMMA InOrderDistinct ==
    ASSUME NEW S
    PROVE  \A i, j \in 1..Len(InOrder(S)) : InOrder(S)[i] = InOrder(S)[j] => i = j
<1> DEFINE n == Len(Order)
           f == CHOOSE f : Among(f, S, n)
<1>1. n \in Nat /\ \A i, j \in 1..n : Order[i] = Order[j] => i = j
  BY CoordinatorConstants, OrderOnce
<1>2. Among(f, S, n)
  BY <1>1, AmongExists, Zenon
<1>3. InOrder(S) = f[n]
  BY Zenon DEF InOrder, Among
<1> HIDE DEF f, n
<1> DEFINE Good(k) == /\ f[k] \in Seq(S)
                      /\ \A i \in 1..Len(f[k]) : \E j \in 1..k : f[k][i] = Order[j]
                      /\ \A i, j \in 1..Len(f[k]) : f[k][i] = f[k][j] => i = j
           T == {k \in Nat : k <= n /\ ~Good(k)}
<1>4. Good(0)
  <2>1. 0 \in 0..n
    BY <1>1
  <2>2. f[0] = <<>>
    BY <1>2, <2>1, Zenon DEF Among
  <2> QED  BY <2>2
<1>5. ASSUME NEW k \in 1..n, Good(k - 1) PROVE Good(k)
  <2>1. k \in 0..n /\ k # 0 /\ k \in 1..k /\ \A j \in 1..(k - 1) : j \in 1..k /\ j \in 1..n /\ j # k
    BY <1>1
  <2>2. f[k] = IF Order[k] \in S THEN Append(f[k - 1], Order[k]) ELSE f[k - 1]
    BY <1>2, <2>1, Zenon DEF Among
  <2>3. CASE Order[k] \notin S
    BY <1>5, <2>1, <2>2, <2>3
  <2>4. CASE Order[k] \in S
    <3>1. PICK g, x : g = f[k - 1] /\ x = Order[k]
      OBVIOUS
    <3>2. /\ g \in Seq(S) /\ x \in S
          /\ \A i \in 1..Len(g) : \E j \in 1..(k - 1) : g[i] = Order[j]
          /\ \A i, j \in 1..Len(g) : g[i] = g[j] => i = j
      BY <1>5, <2>4, <3>1
    <3>3. /\ f[k] \in Seq(S) /\ Len(g) \in Nat /\ Len(f[k]) = Len(g) + 1 /\ f[k][Len(g) + 1] = x
          /\ \A i \in 1..Len(g) : f[k][i] = g[i]
      BY <2>2, <2>4, <3>1, <3>2
    <3>4. \A i \in 1..Len(f[k]) : i \in 1..Len(g) \/ i = Len(g) + 1
      BY <3>3
    <3>5. \A i \in 1..Len(g) : g[i] # x
      <4> SUFFICES ASSUME NEW i \in 1..Len(g), g[i] = x PROVE FALSE
        OBVIOUS
      <4>1. PICK j \in 1..(k - 1) : g[i] = Order[j]
        BY <3>2
      <4> QED  BY <1>1, <2>1, <3>1, <4>1
    <3>6. \A i \in 1..Len(f[k]) : \E j \in 1..k : f[k][i] = Order[j]
      <4> SUFFICES ASSUME NEW i \in 1..Len(f[k]) PROVE \E j \in 1..k : f[k][i] = Order[j]
        OBVIOUS
      <4>1. CASE i = Len(g) + 1
        BY <2>1, <3>1, <3>3, <4>1
      <4>2. CASE i \in 1..Len(g)
        BY <2>1, <3>2, <3>3, <4>2
      <4> QED  BY <3>4, <4>1, <4>2
    <3>7. \A i, j \in 1..Len(f[k]) : f[k][i] = f[k][j] => i = j
      BY <3>2, <3>3, <3>4, <3>5
    <3> QED  BY <3>3, <3>6, <3>7
  <2> QED  BY <2>3, <2>4
<1> HIDE DEF Good
<1>6. ASSUME T # {} PROVE FALSE
  <2>1. PICK k \in T : \A m \in T : k <= m
    BY <1>6, LeastNumber
  <2>2. k # 0
    BY <1>4
  <2>3. k \in 1..n /\ k - 1 \in Nat /\ k - 1 <= n /\ k - 1 \notin T
    BY <1>1, <2>1, <2>2
  <2> QED  BY <1>5, <2>3
<1> QED  BY <1>1, <1>3, <1>6 DEF Good

\* A batch leads a run to another.
Leads(r, batch, t) == (\E A : batch \in Seq(A)) /\ t \in Materialized(r, batch)

\* By one event, by none, and by one batch after the other.
LEMMA LeadsEvent == ASSUME NEW r, NEW e, NEW t \in Applied(r, e) PROVE Leads(r, <<e>>, t)
<1>1. <<e>> \in Seq({e}) /\ Len(<<e>>) = 1 /\ <<e>>[1] = e
  OBVIOUS
<1>2. PICK b : b = <<e>>
  OBVIOUS
<1>3. PICK f : Steps(f, r, b, 1) /\ Materialized(r, b) = f[1]
  <2>1. Len(b) = 1 /\ Len(b) \in Nat
    BY <1>1, <1>2
  <2> QED  BY <2>1, MaterializedSteps
<1>4. f[0] = {r} /\ f[1] = UNION {Applied(s, b[1]) : s \in f[0]}
  <2>1. 0 \in 0..1 /\ 1 \in 0..1 /\ 1 # 0 /\ 1 - 1 = 0
    OBVIOUS
  <2> QED  BY <1>3, <2>1, Zenon DEF Steps
<1>5. t \in Materialized(r, b)
  BY <1>1, <1>2, <1>3, <1>4
<1> QED  BY <1>1, <1>2, <1>5 DEF Leads

\* The empty batch leads nowhere else.
LEMMA LeadsNowhere == ASSUME NEW r PROVE Leads(r, <<>>, r)
<1>1. <<>> \in Seq({})
  OBVIOUS
<1> QED  BY <1>1, EmptyBatch DEF Leads

\* One batch after the other.
LEMMA LeadsOnward ==
    ASSUME NEW r, NEW a, NEW t, Leads(r, a, t), NEW b, NEW u, Leads(t, b, u)
    PROVE  Leads(r, a \o b, u)
<1>1. PICK A, B : a \in Seq(A) /\ b \in Seq(B)
  BY DEF Leads
<1>2. u \in Materialized(r, a \o b)
  BY <1>1, BatchesJoined DEF Leads
<1>3. a \o b \in Seq(A \cup B)
  <2>1. a \in Seq(A \cup B) /\ b \in Seq(A \cup B)
    BY <1>1
  <2> QED  BY <2>1
<1> QED  BY <1>2, <1>3 DEF Leads

\* Up to four events.
LEMMA LeadsBy ==
    ASSUME NEW r, NEW a, NEW s \in Applied(r, a), NEW b, NEW t \in Applied(s, b)
    PROVE  /\ Leads(r, <<a, b>>, t)
           /\ \A c, u : u \in Applied(t, c) => Leads(r, <<a, b, c>>, u)
           /\ \A c, u, d, w : u \in Applied(t, c) /\ w \in Applied(u, d) => Leads(r, <<a, b, c, d>>, w)
<1>1. <<a, b>> = <<a>> \o <<b>>
  OBVIOUS
<1>2. Leads(r, <<a, b>>, t)
  <2>1. Leads(r, <<a>> \o <<b>>, t)
    BY LeadsEvent, LeadsOnward
  <2> QED  BY <1>1, <2>1
<1>3. ASSUME NEW c, NEW u \in Applied(t, c) PROVE Leads(r, <<a, b, c>>, u)
  <2>1. <<a, b, c>> = <<a, b>> \o <<c>>
    OBVIOUS
  <2>2. Leads(r, <<a, b>> \o <<c>>, u)
    BY <1>2, LeadsEvent, LeadsOnward
  <2> QED  BY <2>1, <2>2
<1>4. ASSUME NEW c, NEW u \in Applied(t, c), NEW d, NEW w \in Applied(u, d)
      PROVE  Leads(r, <<a, b, c, d>>, w)
  <2>1. <<a, b, c, d>> = <<a, b, c>> \o <<d>>
    OBVIOUS
  <2>2. Leads(r, <<a, b, c>> \o <<d>>, w)
    BY <1>3, LeadsEvent, LeadsOnward
  <2> QED  BY <2>1, <2>2
<1> QED  BY <1>2, <1>3, <1>4

\* Nothing but some nodes differs, and the run goes on as it was.
Beyond(r, t, S) ==
    /\ t \in Run /\ t.status = r.status /\ t.configured = r.configured
    /\ \A n \in Node \ S : t.nodes[n] = r.nodes[n]

\* An event is accepted as long as its node is as it was, and gives it a status.
Fine(r, e, status) ==
    \A s \in Run :
        s.status = r.status /\ s.configured = r.configured /\ s.nodes[e.node] = r.nodes[e.node] =>
           \E u \in Applied(s, e) : Beyond(s, u, {e.node}) /\ u.nodes[e.node].status = status

\* An event for each of some nodes, and what the batch of them leads to.
EachFine(r, b, S, status) ==
    /\ \E T : b \in Seq(T)
    /\ Len(b) = Len(InOrder(S)) /\ \A i \in 1..Len(b) : b[i].node = InOrder(S)[i]
    /\ \A i \in 1..Len(b) : Fine(r, b[i], status)
LeadsNodes(r, b, S, status) ==
    \E t : Leads(r, b, t) /\ Beyond(r, t, S) /\ \A n \in S : t.nodes[n].status = status

\* The batch is accepted if each event is while its node is as it was.
LEMMA NodesAccepted ==
    ASSUME NEW r \in Run, NEW S \in SUBSET Node, NEW b, NEW status, EachFine(r, b, S, status)
    PROVE  LeadsNodes(r, b, S, status)
<1>1. PICK T : b \in Seq(T)
  BY DEF EachFine
<1>2. Len(b) = Len(InOrder(S)) /\ \A i \in 1..Len(b) : b[i].node = InOrder(S)[i]
  BY DEF EachFine
<1>3. \A i \in 1..Len(b) : Fine(r, b[i], status)
  BY DEF EachFine
<1> DEFINE P == [k \in 0..Len(b) |->
                    {s \in Run : /\ Beyond(r, s, S)
                                 /\ \A j \in 1..Len(b) : j > k => s.nodes[b[j].node] = r.nodes[b[j].node]
                                 /\ \A j \in 1..k : s.nodes[b[j].node].status = status}]
<1>4. Len(b) \in Nat
  BY <1>1
<1>5. \A i \in 1..Len(b) : b[i].node \in S
  BY <1>2, InOrderMembers
<1>6. r \in P[0]
  <2>1. 0 \in 0..Len(b) /\ \A j \in 1..0 : FALSE
    BY <1>4
  <2> QED  BY <2>1 DEF Beyond
<1>7. ASSUME NEW i \in 1..Len(b), NEW s \in P[i - 1] PROVE \E u \in Applied(s, b[i]) : u \in P[i]
  <2>1. i - 1 \in 0..Len(b) /\ i \in 0..Len(b) /\ i > i - 1
    BY <1>4
  <2>2. /\ s \in Run /\ Beyond(r, s, S)
        /\ \A j \in 1..Len(b) : j > i - 1 => s.nodes[b[j].node] = r.nodes[b[j].node]
        /\ \A j \in 1..(i - 1) : s.nodes[b[j].node].status = status
    BY <1>7, <2>1
  <2>3. PICK u \in Applied(s, b[i]) : Beyond(s, u, {b[i].node}) /\ u.nodes[b[i].node].status = status
    <3>1. Fine(r, b[i], status) /\ s.status = r.status /\ s.configured = r.configured
          /\ s.nodes[b[i].node] = r.nodes[b[i].node]
      BY <1>3, <2>1, <2>2 DEF Beyond
    <3> QED  BY <2>2, <3>1 DEF Fine
  <2>4. Beyond(r, u, S)
    BY <1>5, <2>2, <2>3 DEF Beyond
  <2>5. ASSUME NEW j \in 1..Len(b), j > i PROVE u.nodes[b[j].node] = r.nodes[b[j].node]
    <3>1. b[j].node # b[i].node
      BY <1>2, <2>5, InOrderDistinct
    <3>2. s.nodes[b[j].node] = r.nodes[b[j].node]
      BY <2>2, <2>5, <1>4
    <3> QED  BY <1>5, <2>3, <3>1, <3>2 DEF Beyond
  <2>6. ASSUME NEW j \in 1..i PROVE u.nodes[b[j].node].status = status
    <3>1. CASE j = i
      BY <2>3, <3>1
    <3>2. CASE j # i
      <4>1. j \in 1..(i - 1) /\ j \in 1..Len(b)
        BY <1>4, <3>2
      <4>2. b[j].node # b[i].node /\ b[j].node \in Node
        BY <1>2, <1>5, <3>2, <4>1, InOrderDistinct
      <4> QED  BY <2>2, <2>3, <4>1, <4>2 DEF Beyond
    <3> QED  BY <3>1, <3>2
  <2>7. u \in P[i]
    <3>1. u \in Run
      BY <2>3 DEF Beyond
    <3> QED  BY <2>1, <2>4, <2>5, <2>6, <3>1
  <2> QED  BY <2>3, <2>7
<1>8. \E t \in Materialized(r, b) : t \in P[Len(b)]
  <2> HIDE DEF P
  <2> QED  BY <1>4, <1>6, <1>7, BatchAccepted
<1>9. Len(b) \in 0..Len(b)
  BY <1>4
<1>10. PICK t \in Materialized(r, b) : Beyond(r, t, S) /\ \A j \in 1..Len(b) : t.nodes[b[j].node].status = status
  BY <1>8, <1>9
<1>11. ASSUME NEW n \in S PROVE t.nodes[n].status = status
  <2>1. PICK i \in 1..Len(InOrder(S)) : InOrder(S)[i] = n
    <3>1. n \in S \cap Node
      OBVIOUS
    <3> QED  BY <3>1, InOrderCovers
  <2> QED  BY <1>10, <2>1, <1>2
<1> QED  BY <1>1, <1>10, <1>11 DEF Leads, LeadsNodes

\* A run with one of its nodes as given.
Put(r, n, x) == [r EXCEPT !.nodes[n] = x]

\* It is a run, and the other nodes stay.
LEMMA PutRun ==
    ASSUME NEW r \in Run, NEW n \in Node, NEW x \in NodeState
    PROVE  /\ Put(r, n, x) \in Run
           /\ Put(r, n, x).status = r.status /\ Put(r, n, x).configured = r.configured
           /\ Put(r, n, x).nodes[n] = x
           /\ \A m \in Node \ {n} : Put(r, n, x).nodes[m] = r.nodes[m]
           /\ Put(r, n, r.nodes[n]) = r
           /\ \A y \in NodeState : Put(Put(r, n, x), n, y) = Put(r, n, y)
           /\ r.nodes[n] \in NodeState
  BY DEF Put, Run

\* The reducer takes a node from one state to another, whatever the rest of a run that goes on.
Takes(x, e, y) ==
    /\ y \in NodeState
    /\ \A r \in Run : r.status \notin TerminalRun /\ r.configured =>
          Put(r, e.node, y) \in Applied(Put(r, e.node, x), e)

\* A node and its latest attempt, whose execution plan was prepared.
Stage(x, k, status, attempt, timeout, cleanup) ==
    /\ x \in NodeState /\ x.attempts = k /\ x.status = status /\ x.last.plan
    /\ x.last.status = attempt /\ x.last.timeout = timeout /\ x.last.cleanup = cleanup

\* What an event makes of its node, if the reducer accepts it of a run with the node as it was.
LEMMA TakesUpdate ==
    ASSUME NEW x \in NodeState, NEW e, e.node \in Node, NEW y \in NodeState,
           \A r \in Run : r.nodes[e.node] = x /\ r.status \notin TerminalRun /\ r.configured =>
              Updated(r, e, y) \in Applied(r, e)
    PROVE  Takes(x, e, y)
<1> SUFFICES ASSUME NEW r \in Run, r.status \notin TerminalRun, r.configured
             PROVE  Put(r, e.node, y) \in Applied(Put(r, e.node, x), e)
  BY DEF Takes
<1>1. PICK s : s = Put(r, e.node, x)
  OBVIOUS
<1>2. s \in Run /\ s.nodes[e.node] = x /\ s.status \notin TerminalRun /\ s.configured
      /\ Updated(s, e, y) = Put(r, e.node, y)
  <2>1. Updated(s, e, y) = Put(s, e.node, y)
    BY DEF Updated, Put
  <2> QED  BY <1>1, <2>1, PutRun
<1>3. Updated(s, e, y) \in Applied(s, e)
  BY <1>2
<1> QED  BY <1>1, <1>2, <1>3

\* Evidence leaves it as it is.
LEMMA TakesEvidence ==
    ASSUME NEW x \in NodeState, NEW e, e.node \in Node, e.attempt = x.attempts,
           \/ /\ e.type \in {"ArtifactProduced", "WorkspaceObserved"}
              /\ x.status = "running" /\ x.last.status = "running"
           \/ /\ e.type = "ArtifactProduced"
              /\ x.status = "ready" /\ x.last.status \in {"scheduled", "prepared"}
    PROVE  Takes(x, e, x)
<1> SUFFICES ASSUME NEW r \in Run, r.nodes[e.node] = x, r.status \notin TerminalRun, r.configured
             PROVE  Updated(r, e, x) \in Applied(r, e)
  BY TakesUpdate
<1>1. Updated(r, e, x) = r
  BY DEF Updated, Run
<1>2. CASE e.type = "ArtifactProduced"
  BY <1>1, <1>2 DEF Applied, ArtifactProduced, When, NodeIn, NodeOf, CurrentAttempt
<1>3. CASE e.type = "WorkspaceObserved"
  BY <1>1, <1>3 DEF Applied, ResultEvidence, When, NodeIn, NodeOf, CurrentAttempt
<1> QED  BY <1>2, <1>3

\* The evidence of a cleanup is added, if its cause has none yet.
FirstOf(e, cleanup) == \A c \in cleanup : c[1] # e.cause
WithEvidence(e, cleanup) == cleanup \cup {<<e.cause, e.outcome>>}
LEMMA TakesCleanup ==
    ASSUME NEW x, NEW e, e.node \in Node, e.type = "ExecutionCleanupObserved",
           e.cause \in Cause, e.outcome \in CleanupOutcome,
           NEW status, NEW attempt \in {"prepared", "running", "orphaned"}, NEW timeout, NEW cleanup,
           Stage(x, e.attempt, status, attempt, timeout, cleanup),
           FirstOf(e, cleanup)
    PROVE  \E y : Takes(x, e, y) /\ Stage(y, e.attempt, status, attempt, timeout, WithEvidence(e, cleanup))
<1>1. PICK l : l = [x.last EXCEPT !.cleanup = @ \cup {<<e.cause, e.outcome>>}]
  OBVIOUS
<1>2. PICK y : y = [x EXCEPT !.last = l]
  OBVIOUS
<1>3. l \in Attempt /\ l.plan /\ l.status = attempt /\ l.timeout = timeout
      /\ l.cleanup = WithEvidence(e, cleanup)
  BY <1>1 DEF Stage, NodeState, Attempt, WithEvidence
<1>4. Stage(y, e.attempt, status, attempt, timeout, WithEvidence(e, cleanup))
  BY <1>2, <1>3 DEF Stage, NodeState
<1>5. Takes(x, e, y)
  <2>1. x \in NodeState /\ y \in NodeState
    BY <1>4 DEF Stage
  <2> SUFFICES ASSUME NEW r \in Run, r.nodes[e.node] = x, r.status \notin TerminalRun, r.configured
               PROVE  Updated(r, e, y) \in Applied(r, e)
    BY <2>1, TakesUpdate
  <2> QED  BY <1>1, <1>2
           DEF Applied, ExecutionCleanupObserved, When, NodeOf, CurrentAttempt, AttemptBecomes, Stage, FirstOf
<1> QED  BY <1>4, <1>5

\* The deadline passes, and the cancellation it asks for is reported.
LEMMA TakesTimeout ==
    ASSUME NEW x, NEW e, e.node \in Node, NEW cleanup, NEW timeout, NEW after,
           \/ e.type = "AttemptTimeoutRequested" /\ timeout = "none" /\ after = "requested"
           \/ /\ e.type = "AttemptCancellationCompleted" /\ timeout = "requested" /\ after = e.outcome
              /\ e.outcome \in CancellationOutcome,
           Stage(x, e.attempt, "running", "running", timeout, cleanup)
    PROVE  \E y : Takes(x, e, y) /\ Stage(y, e.attempt, "running", "running", after, cleanup)
<1>1. PICK l : l = [x.last EXCEPT !.timeout = after]
  OBVIOUS
<1>2. PICK y : y = [x EXCEPT !.last = l]
  OBVIOUS
<1>3. l \in Attempt /\ l.plan /\ l.status = "running" /\ l.timeout = after /\ l.cleanup = cleanup
  BY <1>1 DEF Stage, NodeState, Attempt
<1>4. Stage(y, e.attempt, "running", "running", after, cleanup)
  BY <1>2, <1>3 DEF Stage, NodeState
<1>5. Takes(x, e, y)
  <2>1. x \in NodeState /\ y \in NodeState
    BY <1>4 DEF Stage
  <2> SUFFICES ASSUME NEW r \in Run, r.nodes[e.node] = x, r.status \notin TerminalRun, r.configured
               PROVE  Updated(r, e, y) \in Applied(r, e)
    BY <2>1, TakesUpdate
  <2>2. CASE e.type = "AttemptTimeoutRequested"
    BY <1>1, <1>2, <2>2
       DEF Applied, AttemptTimeoutRequested, When, NodeOf, NodeIn, CurrentAttempt, AttemptBecomes, Stage
  <2>3. CASE e.type = "AttemptCancellationCompleted"
    BY <1>1, <1>2, <2>3
       DEF Applied, AttemptCancellationCompleted, When, NodeOf, CurrentAttempt, AttemptBecomes, Stage
  <2> QED  BY <2>2, <2>3
<1> QED  BY <1>4, <1>5

\* The attempt ends; after a timeout it can only fail.
LEMMA TakesEnd ==
    ASSUME NEW x, NEW e, e.node \in Node, NEW cleanup, NEW timeout, NEW result,
           \/ e.type = "AttemptSucceeded" /\ result = "succeeded" /\ timeout = "none"
           \/ e.type = "AttemptBlocked" /\ result = "blocked" /\ timeout = "none"
           \/ e.type = "AttemptCancelled" /\ result = "cancelled" /\ timeout = "none"
           \/ e.type = "AttemptFailed" /\ result = "failed" /\ timeout = "none"
           \/ /\ e.type = "AttemptFailed" /\ result = "failed" /\ timeout \in CancellationOutcome
              /\ e.exhausted,
           Stage(x, e.attempt, "running", "running", timeout, cleanup)
    PROVE  \E y : Takes(x, e, y) /\ Stage(y, e.attempt, "running", result, timeout, cleanup)
<1>1. PICK l : l = [x.last EXCEPT !.status = result]
  OBVIOUS
<1>2. PICK y : y = [x EXCEPT !.last = l]
  OBVIOUS
<1>3. l \in Attempt /\ l.plan /\ l.status = result /\ l.timeout = timeout /\ l.cleanup = cleanup
  BY <1>1 DEF Stage, NodeState, Attempt, AttemptStatus
<1>4. Stage(y, e.attempt, "running", result, timeout, cleanup)
  BY <1>2, <1>3 DEF Stage, NodeState
<1>5. Takes(x, e, y)
  <2>1. x \in NodeState /\ y \in NodeState
    BY <1>4 DEF Stage
  <2> SUFFICES ASSUME NEW r \in Run, r.nodes[e.node] = x, r.status \notin TerminalRun, r.configured
               PROVE  Updated(r, e, y) \in Applied(r, e)
    BY <2>1, TakesUpdate
  <2>2. CASE e.type \in {"AttemptSucceeded", "AttemptBlocked", "AttemptCancelled"}
    <3>1. Applied(r, e) = AttemptEnded(r, e, result)
      BY <2>2 DEF Applied
    <3>2. timeout = "none"
      BY <2>2
    <3> QED  BY <1>1, <1>2, <3>1, <3>2
             DEF AttemptEnded, When, NodeOf, NodeIn, CurrentAttempt, AttemptBecomes, Stage
  <2>3. CASE e.type = "AttemptFailed"
    <3>1. Applied(r, e) = AttemptFailed(r, e) /\ result = "failed"
      BY <2>3 DEF Applied
    <3>2. timeout = "none" \/ (e.exhausted /\ timeout \in CancellationOutcome)
      BY <2>3
    <3> QED  BY <1>1, <1>2, <3>1, <3>2
             DEF AttemptFailed, When, NodeOf, NodeIn, CurrentAttempt, AttemptBecomes, Stage
  <2> QED  BY <2>2, <2>3
<1> QED  BY <1>4, <1>5

\* Its node ends with it, is tried again, or pauses once the attempt was cancelled.
LEMMA TakesNode ==
    ASSUME NEW x, NEW k, NEW e, e.node \in Node, NEW cleanup, NEW timeout, NEW result, NEW status,
           \/ e.type = "NodeSucceeded" /\ result = "succeeded" /\ status = "succeeded"
           \/ e.type = "NodeFailed" /\ result = "failed" /\ status = "failed"
           \/ e.type = "NodeBlocked" /\ result = "blocked" /\ status = "blocked"
           \/ e.type = "NodeReady" /\ e.reason = "retry" /\ result = "failed" /\ status = "ready"
           \/ /\ e.type = "NodePaused" /\ e.reason \in PauseKind
              /\ result = "cancelled" /\ status = "paused",
           Stage(x, k, "running", result, timeout, cleanup)
    PROVE  \E y : Takes(x, e, y) /\ Stage(y, k, status, result, timeout, cleanup)
<1>1. PICK pause \in PauseKind \cup {"none"} :
         pause = IF e.type = "NodePaused" THEN e.reason ELSE IF e.type = "NodeReady" THEN "none" ELSE x.pause
  BY DEF Stage, NodeState
<1>2. PICK y : y = [x EXCEPT !.status = status, !.pause = pause]
  OBVIOUS
<1>3. Stage(y, k, status, result, timeout, cleanup)
  BY <1>1, <1>2 DEF Stage, NodeState, NodeStatus
<1>4. Takes(x, e, y)
  <2>1. x \in NodeState /\ y \in NodeState
    BY <1>3 DEF Stage
  <2> SUFFICES ASSUME NEW r \in Run, r.nodes[e.node] = x, r.status \notin TerminalRun, r.configured
               PROVE  Updated(r, e, y) \in Applied(r, e)
    BY <2>1, TakesUpdate
  <2>2. e.type \notin {"NodePaused", "NodeReady"} => y = [x EXCEPT !.status = status]
    BY <1>1, <1>2, <2>1 DEF NodeState
  <2>3. CASE e.type = "NodeSucceeded"
    BY <2>2, <2>3 DEF Applied, NodeEnded, When, NodeOf, NodeIn, NodeBecomes, Stage
  <2>4. CASE e.type = "NodeFailed"
    BY <2>2, <2>4 DEF Applied, NodeEnded, When, NodeOf, NodeIn, NodeBecomes, Stage
  <2>5. CASE e.type = "NodeBlocked"
    BY <2>2, <2>5 DEF Applied, NodeBlocked, When, NodeOf, NodeIn, NodeBecomes, Stage
  <2>6. CASE e.type = "NodeReady"
    BY <1>1, <1>2, <2>6 DEF Applied, NodeReady, When, NodeOf, NodeIn, Stage
  <2>7. CASE e.type = "NodePaused"
    <3>1. e.reason # "none" /\ pause = e.reason
      BY <1>1, <2>7 DEF PauseKind
    <3> QED  BY <1>1, <1>2, <2>7, <3>1
             DEF Applied, NodePaused, When, NodeOf, NodeIn, ActiveAttemptStopped, Stage
  <2> QED  BY <2>3, <2>4, <2>5, <2>6, <2>7
<1> QED  BY <1>3, <1>4

\* The attempt that was prepared is started, or is lost, started or not.
LEMMA TakesStart ==
    ASSUME NEW x, NEW e, e.node \in Node, e.type = "AttemptStartAuthorized", NEW cleanup, NEW timeout,
           Stage(x, e.attempt, "ready", "prepared", timeout, cleanup)
    PROVE  \E y : Takes(x, e, y) /\ Stage(y, e.attempt, "running", "running", timeout, cleanup)
<1>1. PICK l : l = [x.last EXCEPT !.status = "running"]
  OBVIOUS
<1>2. PICK y : y = [x EXCEPT !.status = "running", !.last = l]
  OBVIOUS
<1>3. l \in Attempt /\ l.plan /\ l.status = "running" /\ l.timeout = timeout /\ l.cleanup = cleanup
  BY <1>1 DEF Stage, NodeState, Attempt, AttemptStatus
<1>4. Stage(y, e.attempt, "running", "running", timeout, cleanup)
  BY <1>2, <1>3 DEF Stage, NodeState, NodeStatus
<1>5. Takes(x, e, y)
  <2>1. x \in NodeState /\ y \in NodeState
    BY <1>4 DEF Stage
  <2> SUFFICES ASSUME NEW r \in Run, r.nodes[e.node] = x, r.status \notin TerminalRun, r.configured
               PROVE  Updated(r, e, y) \in Applied(r, e)
    BY <2>1, TakesUpdate
  <2> QED  BY <1>1, <1>2
           DEF Applied, AttemptStartAuthorized, Started, When, NodeOf, NodeIn, CurrentAttempt, Stage
<1> QED  BY <1>4, <1>5

\* An attempt that is lost.
LEMMA TakesOrphan ==
    ASSUME NEW x, NEW e, e.node \in Node, e.type = "AttemptOrphaned", e.differs \in BOOLEAN,
           NEW status \in {"ready", "running"}, NEW attempt \in {"prepared", "running"}, NEW cleanup,
           NEW timeout, Stage(x, e.attempt, status, attempt, timeout, cleanup)
    PROVE  \E y : Takes(x, e, y)
<1>1. PICK l : l = [x.last EXCEPT !.status = "orphaned", !.differs = e.differs]
  OBVIOUS
<1>2. PICK y : y = [x EXCEPT !.status = "running", !.last = l]
  OBVIOUS
<1>3. l \in Attempt
  BY <1>1 DEF Stage, NodeState, Attempt, AttemptStatus
<1>4. x \in NodeState /\ y \in NodeState
  BY <1>2, <1>3 DEF Stage, NodeState, NodeStatus
<1>5. Takes(x, e, y)
  <2> SUFFICES ASSUME NEW r \in Run, r.nodes[e.node] = x, r.status \notin TerminalRun, r.configured
               PROVE  Updated(r, e, y) \in Applied(r, e)
    BY <1>4, TakesUpdate
  <2> QED  BY <1>1, <1>2
           DEF Applied, AttemptOrphaned, When, NodeOf, NodeIn, CurrentAttempt, Stage
<1> QED  BY <1>5

\* A ready node gets another attempt.
LEMMA TakesAttempt ==
    ASSUME NEW x \in NodeState, x.status = "ready", NEW a, NEW b, NEW c,
           a.type = "AttemptScheduled" /\ b.type = "ArtifactProduced" /\ c.type = "AttemptPrepared",
           NEW n \in Node, a.node = n /\ b.node = n /\ c.node = n,
           NEW k, k = x.attempts + 1, a.attempt = k /\ b.attempt = k /\ c.attempt = k
    PROVE  \E y, z : /\ Takes(x, a, y) /\ Takes(y, b, y) /\ Takes(y, c, z)
                     /\ Stage(z, k, "ready", "prepared", "none", {})
<1>1. PICK l : l = [NoAttempt EXCEPT !.status = "scheduled"]
  OBVIOUS
<1>2. PICK y : y = [x EXCEPT !.attempts = k, !.last = l]
  OBVIOUS
<1>3. PICK m : m = [l EXCEPT !.status = "prepared", !.plan = TRUE]
  OBVIOUS
<1>4. PICK z : z = [y EXCEPT !.last = m]
  OBVIOUS
<1>5. l \in Attempt /\ l.status = "scheduled"
  BY <1>1 DEF NoAttempt, Attempt, AttemptStatus
<1>6. m \in Attempt /\ m.status = "prepared" /\ m.timeout = "none" /\ m.cleanup = {} /\ m.plan
  BY <1>1, <1>3 DEF NoAttempt, Attempt, AttemptStatus
<1>7. k \in Nat
  <2> DEFINE p == x.attempts
  <2>1. p \in Nat
    BY DEF NodeState
  <2> HIDE DEF p
  <2>2. k = p + 1
    BY DEF p
  <2> QED  BY <2>1, <2>2
<1>8. y \in NodeState /\ y.attempts = k /\ y.status = "ready" /\ y.last = l
  BY <1>2, <1>5, <1>7 DEF NodeState
<1>9. Stage(z, k, "ready", "prepared", "none", {})
  BY <1>4, <1>6, <1>8 DEF Stage, NodeState
<1>10. Takes(x, a, y)
  <2> SUFFICES ASSUME NEW r \in Run, r.nodes[a.node] = x, r.status \notin TerminalRun, r.configured
               PROVE  Updated(r, a, y) \in Applied(r, a)
    BY <1>8, TakesUpdate
  <2> QED  BY <1>1, <1>2 DEF Applied, AttemptScheduled, When, NodeOf, NodeIn
<1>11. Takes(y, b, y)
  BY <1>5, <1>8, TakesEvidence
<1>12. Takes(y, c, z)
  <2> SUFFICES ASSUME NEW r \in Run, r.nodes[c.node] = y, r.status \notin TerminalRun, r.configured
               PROVE  Updated(r, c, z) \in Applied(r, c)
    BY <1>8, <1>9, TakesUpdate DEF Stage
  <2> QED  BY <1>3, <1>4, <1>5, <1>8
           DEF Applied, AttemptPrepared, When, NodeOf, NodeIn, CurrentAttempt, AttemptBecomes
<1> QED  BY <1>9, <1>10, <1>11, <1>12

\* A node that is ready may pause.
LEMMA TakesPause ==
    ASSUME NEW x \in NodeState, x.status = "ready", NEW e, e.node \in Node, e.type = "NodePaused",
           e.reason \in PauseKind
    PROVE  \E y : Takes(x, e, y) /\ y.status = "paused"
<1>1. PICK y : y = [x EXCEPT !.status = "paused", !.pause = e.reason]
  OBVIOUS
<1>2. y \in NodeState /\ y.status = "paused" /\ e.reason # "none"
  BY <1>1 DEF NodeState, NodeStatus, PauseKind
<1>3. Takes(x, e, y)
  <2> SUFFICES ASSUME NEW r \in Run, r.nodes[e.node] = x, r.status \notin TerminalRun, r.configured
               PROVE  Updated(r, e, y) \in Applied(r, e)
    BY <1>2, TakesUpdate
  <2> QED  BY <1>1, <1>2 DEF Applied, NodePaused, When, NodeOf, NodeIn, ActiveAttemptStopped
<1> QED  BY <1>2, <1>3

\* Such an event leads a run on.
LEMMA TakesLeads ==
    ASSUME NEW r \in Run, r.status \notin TerminalRun, r.configured, NEW x, NEW e, NEW y, Takes(x, e, y)
    PROVE  Leads(Put(r, e.node, x), <<e>>, Put(r, e.node, y))
<1>1. Put(r, e.node, y) \in Applied(Put(r, e.node, x), e)
  BY DEF Takes
<1> QED  BY <1>1, LeadsEvent

\* A node of such a batch is one the reducer accepts the event of.
Welcome(x, e, status) ==
    \/ e.type = "NodeReady" /\ e.reason = "dependencies-satisfied" /\ x.status = "pending" /\ status = "ready"
    \/ e.type = "NodeReady" /\ e.reason = "resumed" /\ x.status = "paused" /\ status = "ready"
    \/ e.type = "NodeBlocked" /\ x.status \in {"pending", "ready"} /\ status = "blocked"
    \/ /\ e.type = "NodeCancelled" /\ x.status \notin SettledNode /\ status = "cancelled"
       /\ x.status = "running" => x.last.status \in {"cancelled", "orphaned"}

\* It does.
LEMMA WelcomeFine ==
    ASSUME NEW r \in Run, r.status \notin TerminalRun, NEW e, e.node \in Node, NEW status,
           Welcome(r.nodes[e.node], e, status)
    PROVE  Fine(r, e, status)
<1> SUFFICES ASSUME NEW s \in Run, s.status = r.status, s.configured = r.configured,
                    s.nodes[e.node] = r.nodes[e.node]
             PROVE  \E u \in Applied(s, e) : Beyond(s, u, {e.node}) /\ u.nodes[e.node].status = status
  BY DEF Fine
<1>1. PICK x : x = s.nodes[e.node]
  OBVIOUS
<1>2. x \in NodeState /\ Welcome(x, e, status) /\ s.status \notin TerminalRun
  BY <1>1 DEF Run
<1>3. PICK pause \in PauseKind \cup {"none"} : pause = IF e.type = "NodeReady" THEN "none" ELSE x.pause
  BY <1>2 DEF NodeState
<1>4. PICK y : y = [x EXCEPT !.status = status, !.pause = pause]
  OBVIOUS
<1>5. y \in NodeState /\ y.status = status /\ (e.type # "NodeReady" => y = [x EXCEPT !.status = status])
  BY <1>2, <1>3, <1>4 DEF NodeState, NodeStatus, Welcome
<1>6. Updated(s, e, y) \in Applied(s, e)
  <2>1. CASE e.type = "NodeReady"
    BY <1>1, <1>2, <1>3, <1>4, <2>1 DEF Applied, NodeReady, When, NodeOf, NodeIn, Welcome
  <2>2. CASE e.type = "NodeBlocked"
    BY <1>1, <1>2, <1>5, <2>2 DEF Applied, NodeBlocked, When, NodeOf, NodeIn, NodeBecomes, Welcome
  <2>3. CASE e.type = "NodeCancelled"
    <3>1. x.status \in {"pending", "ready", "running", "blocked", "paused"}
      BY <1>2, <2>3 DEF Welcome, NodeState, NodeStatus, SettledNode
    <3> QED  BY <1>1, <1>2, <1>5, <2>3, <3>1
             DEF Applied, NodeCancelled, When, NodeOf, NodeIn, NodeBecomes, ActiveAttemptStopped, Welcome
  <2> QED  BY <1>2, <2>1, <2>2, <2>3 DEF Welcome
<1>7. PICK u : u = Updated(s, e, y)
  OBVIOUS
<1>8. u \in Run /\ u.status = s.status /\ \A n \in Node : u.nodes[n] = IF n = e.node THEN y ELSE s.nodes[n]
  BY <1>5, <1>7, UpdatedRun
<1>9. u.configured = s.configured
  BY <1>7 DEF Updated, Run
<1> QED  BY <1>5, <1>6, <1>7, <1>8, <1>9 DEF Beyond

\* So the batch is accepted.
EachWelcome(r, b, S, status) ==
    /\ b = [i \in DOMAIN InOrder(S) |-> b[i]]
    /\ \A i \in DOMAIN InOrder(S) : b[i].node = InOrder(S)[i]
    /\ \A i \in DOMAIN InOrder(S) : b[i].node \in S => Welcome(r.nodes[b[i].node], b[i], status)
LEMMA NodesLead ==
    ASSUME NEW r \in Run, r.status \notin TerminalRun, NEW S \in SUBSET Node, NEW b, NEW status,
           EachWelcome(r, b, S, status)
    PROVE  LeadsNodes(r, b, S, status)
<1> DEFINE X == {b[i] : i \in DOMAIN InOrder(S)}
<1>1. /\ Len(InOrder(S)) \in Nat /\ DOMAIN InOrder(S) = 1..Len(InOrder(S))
      /\ \A i \in DOMAIN InOrder(S) : InOrder(S)[i] \in S
  BY InOrderMembers
<1>2. b \in Seq(X) /\ Len(b) = Len(InOrder(S))
  BY <1>1 DEF EachWelcome
<1>3. \A i \in 1..Len(b) : b[i].node = InOrder(S)[i]
  BY <1>1, <1>2 DEF EachWelcome
<1>4. ASSUME NEW i \in 1..Len(b) PROVE Fine(r, b[i], status)
  <2>1. b[i].node \in S /\ Welcome(r.nodes[b[i].node], b[i], status)
    BY <1>1, <1>2, <1>3 DEF EachWelcome
  <2> QED  BY <2>1, WelcomeFine
<1> HIDE DEF X
<1>5. EachFine(r, b, S, status)
  BY <1>2, <1>3, <1>4 DEF EachFine
<1> QED  BY <1>5, NodesAccepted

\* Nodes that wait for others, or were paused, become ready.
LEMMA ReadyLeads ==
    ASSUME NEW r \in Run, r.status \notin TerminalRun, NEW S \in SUBSET Node, NEW reason,
           \/ reason = "dependencies-satisfied" /\ \A n \in S : r.nodes[n].status = "pending"
           \/ reason = "resumed" /\ \A n \in S : r.nodes[n].status = "paused"
    PROVE  \E t : Leads(r, ReadyBatch(S, reason), t) /\ Beyond(r, t, S)
<1>1. PICK b : /\ b = ReadyBatch(S, reason)
               /\ b = [i \in DOMAIN InOrder(S) |-> Because("NodeReady", InOrder(S)[i], reason)]
  BY DEF ReadyBatch, ForNodes
<1>2. \A i \in DOMAIN InOrder(S) : b[i].node = InOrder(S)[i] /\ b[i].type = "NodeReady" /\ b[i].reason = reason
  BY <1>1 DEF Because
<1>3. b = [i \in DOMAIN InOrder(S) |-> b[i]]
  BY <1>1
<1>4. EachWelcome(r, b, S, "ready")
  BY <1>2, <1>3 DEF EachWelcome, Welcome
<1>5. \E t : Leads(r, b, t) /\ Beyond(r, t, S) /\ \A n \in S : t.nodes[n].status = "ready"
  BY <1>4, NodesLead DEF LeadsNodes
<1> QED  BY <1>1, <1>5

\* The nodes that wait beside one that ended are blocked.
LEMMA BlockLeads ==
    ASSUME NEW r \in Run, r.status \notin TerminalRun, NEW v, NEW n \in Node,
           \A m \in Node \ {n} : r.nodes[m].status = v.nodes[m].status
    PROVE  \E t : Leads(r, BlockOthers(v, n), t) /\ t \in Run /\ t.status = r.status /\ t.nodes[n] = r.nodes[n]
<1>1. PICK S : S = {m \in Node \ {n} : v.nodes[m].status \in {"pending", "ready"}}
  OBVIOUS
<1>2. PICK b : /\ b = BlockOthers(v, n)
               /\ b = [i \in DOMAIN InOrder(S) |-> NodeEvent("NodeBlocked", InOrder(S)[i])]
  BY <1>1 DEF BlockOthers, ForNodes
<1>3. \A i \in DOMAIN InOrder(S) : b[i].node = InOrder(S)[i] /\ b[i].type = "NodeBlocked"
  BY <1>2 DEF NodeEvent
<1>4. b = [i \in DOMAIN InOrder(S) |-> b[i]]
  BY <1>2
<1>5. EachWelcome(r, b, S, "blocked")
  BY <1>1, <1>3, <1>4 DEF EachWelcome, Welcome
<1>6. S \in SUBSET Node /\ n \notin S
  BY <1>1
<1>7. LeadsNodes(r, b, S, "blocked")
  BY <1>5, <1>6, NodesLead
<1>8. PICK t : Leads(r, b, t) /\ Beyond(r, t, S) /\ \A m \in S : t.nodes[m].status = "blocked"
  BY <1>7 DEF LeadsNodes
<1> QED  BY <1>2, <1>6, <1>8 DEF Beyond

\* All that is not settled is cancelled, unless its attempt still runs.
LEMMA CancelLeads ==
    ASSUME NEW r \in Run, r.status \notin TerminalRun, NEW v,
           \A m \in Node : r.nodes[m].status = v.nodes[m].status,
           \A m \in Node : r.nodes[m].status = "running" => r.nodes[m].last.status \in {"cancelled", "orphaned"}
    PROVE  \E t : Leads(r, CancelNodes(v), t) /\ t \in Run /\ t.status = r.status
                  /\ \A m \in Node : t.nodes[m].status \in SettledNode
<1>1. PICK S : S = {m \in Node : v.nodes[m].status \notin SettledNode}
  OBVIOUS
<1>2. PICK b : /\ b = CancelNodes(v)
               /\ b = [i \in DOMAIN InOrder(S) |-> NodeEvent("NodeCancelled", InOrder(S)[i])]
  BY <1>1 DEF CancelNodes, ForNodes
<1>3. \A i \in DOMAIN InOrder(S) : b[i].node = InOrder(S)[i] /\ b[i].type = "NodeCancelled"
  BY <1>2 DEF NodeEvent
<1>4. b = [i \in DOMAIN InOrder(S) |-> b[i]]
  BY <1>2
<1>5. EachWelcome(r, b, S, "cancelled")
  BY <1>1, <1>3, <1>4 DEF EachWelcome, Welcome
<1>6. S \in SUBSET Node /\ \A m \in Node \ S : r.nodes[m].status \in SettledNode
  BY <1>1
<1>7. LeadsNodes(r, b, S, "cancelled")
  BY <1>5, <1>6, NodesLead
<1>8. PICK t : Leads(r, b, t) /\ Beyond(r, t, S) /\ \A m \in S : t.nodes[m].status = "cancelled"
  BY <1>7 DEF LeadsNodes
<1>9. ASSUME NEW m \in Node PROVE t.nodes[m].status \in SettledNode
  BY <1>6, <1>8 DEF Beyond, SettledNode
<1> QED  BY <1>2, <1>8, <1>9 DEF Beyond

-----------------------------------------------------------------------------
\* What ends a run, pauses it or lets it go on is accepted of a run in which nothing speaks against it.
LEMMA RunLeads ==
    ASSUME NEW r \in Run, r.status \notin TerminalRun, NEW e,
           \/ /\ e.type = "RunPaused" /\ e.durable /\ r.status \in {"running", "recovery-blocked"}
              /\ \A n \in Node : r.nodes[n].status # "running"
           \/ e.type = "RunCancelled" /\ (e.durable => \A n \in Node : r.nodes[n].status \in SettledNode)
           \/ e.type = "RunResumed" /\ r.status = "paused"
           \/ e.type = "RunBlocked" /\ r.status = "running"
           \/ /\ e.type = "RunCompleted" /\ e.outcome = "failed" /\ r.status = "running"
              /\ \E n \in Node : r.nodes[n].status = "failed"
           \/ /\ e.type = "RunCompleted" /\ e.outcome = "succeeded" /\ r.status = "running"
              /\ \A n \in Node : r.nodes[n].status = "succeeded"
           \/ e.type = "ControlRequestObserved"
           \/ e.type = "RuntimeNegotiated" /\ NeedsNegotiation(r)
    PROVE  \E t : Leads(r, <<e>>, t)
<1>1. \E t : t \in Applied(r, e)
  <2>1. CASE e.type = "RunPaused"
    BY <2>1 DEF Applied, RunPaused, When
  <2>2. CASE e.type = "RunCancelled"
    BY <2>2 DEF Applied, RunCancelled, When
  <2>3. CASE e.type = "RunResumed"
    BY <2>3 DEF Applied, RunResumed, When
  <2>4. CASE e.type = "RunBlocked"
    BY <2>4 DEF Applied, RunBlocked, When
  <2>5. CASE e.type = "RunCompleted"
    BY <2>5 DEF Applied, RunCompleted, When
  <2>6. CASE e.type = "ControlRequestObserved"
    BY <2>6 DEF Applied, ControlRequestObserved
  <2>7. CASE e.type = "RuntimeNegotiated"
    BY <2>7 DEF Applied, RuntimeNegotiated, When, NeedsNegotiation
  <2> QED  BY <2>1, <2>2, <2>3, <2>4, <2>5, <2>6, <2>7
<1> QED  BY <1>1, LeadsEvent

\* A run whose nodes are all cancelled.
LEMMA CancelledLeads ==
    ASSUME NEW r \in Run, r.status \notin TerminalRun, NEW v, NEW last, last.type = "RunCancelled",
           \A m \in Node : r.nodes[m].status = v.nodes[m].status,
           \A m \in Node : r.nodes[m].status = "running" => r.nodes[m].last.status \in {"cancelled", "orphaned"}
    PROVE  \E t : Leads(r, CancelNodes(v) \o <<last>>, t)
<1>1. PICK s : Leads(r, CancelNodes(v), s) /\ s \in Run /\ s.status = r.status
               /\ \A m \in Node : s.nodes[m].status \in SettledNode
  BY CancelLeads
<1>2. PICK t : Leads(s, <<last>>, t)
  BY <1>1, RunLeads
<1> QED  BY <1>1, <1>2, LeadsOnward

-----------------------------------------------------------------------------
(* The batches of an attempt *)

\* The reducer accepts a batch of a run.
Accepts(r, batch) == \E t : Leads(r, batch, t)

\* What it accepts, a commit of it finds.
LEMMA AcceptsMaterialized == ASSUME NEW r, NEW batch, Accepts(r, batch) PROVE Materialized(r, batch) # {}
  BY DEF Accepts, Leads

\* A run that goes on, with one of its nodes and its attempt.
Holds(r, n, k, status, attempt, timeout, cleanup) ==
    /\ r \in Run /\ r.configured /\ r.status \notin TerminalRun /\ n \in Node
    /\ Stage(r.nodes[n], k, status, attempt, timeout, cleanup)

\* The next event of that node.
LEMMA StageLeads ==
    ASSUME NEW r \in Run, r.configured, r.status \notin TerminalRun, NEW n \in Node, NEW e, e.node = n,
           NEW y, Takes(r.nodes[n], e, y)
    PROVE  /\ Put(r, n, y) \in Applied(r, e) /\ Leads(r, <<e>>, Put(r, n, y))
           /\ Put(r, n, y) \in Run /\ Put(r, n, y).status = r.status /\ Put(r, n, y).configured
           /\ Put(r, n, y).nodes[n] = y
           /\ \A m \in Node \ {n} : Put(r, n, y).nodes[m] = r.nodes[m]
<1>1. PICK x : x = r.nodes[n]
  OBVIOUS
<1>2. x \in NodeState /\ y \in NodeState /\ Put(r, n, x) = r
  BY <1>1, PutRun DEF Takes
<1>3. Put(r, n, y) \in Applied(Put(r, n, x), e)
  BY <1>1, <1>2 DEF Takes
<1> QED  BY <1>2, <1>3, PutRun, LeadsEvent

\* The same, of a run that is left nameless.
Gives(r, e, n, y) ==
    \E s \in Applied(r, e) : Leads(r, <<e>>, s) /\ Beyond(r, s, {n}) /\ s.configured /\ s.nodes[n] = y
LEMMA StageGives ==
    ASSUME NEW r \in Run, r.configured, r.status \notin TerminalRun, NEW n \in Node, NEW e, e.node = n,
           NEW x, x = r.nodes[n], NEW y, Takes(x, e, y)
    PROVE  Gives(r, e, n, y)
<1>1. Takes(r.nodes[n], e, y)
  OBVIOUS
<1>2. PICK s : s = Put(r, n, y)
  OBVIOUS
<1>3. /\ s \in Applied(r, e) /\ Leads(r, <<e>>, s) /\ s \in Run /\ s.status = r.status /\ s.configured
      /\ s.nodes[n] = y /\ \A m \in Node \ {n} : s.nodes[m] = r.nodes[m]
  BY <1>1, <1>2, StageLeads
<1>4. Beyond(r, s, {n})
  BY <1>3 DEF Beyond
<1> QED  BY <1>3, <1>4 DEF Gives

\* An event that leaves its node as it is leaves the run.
LEMMA StageStays ==
    ASSUME NEW r \in Run, r.configured, r.status \notin TerminalRun, NEW n \in Node, NEW e, e.node = n,
           NEW x, x = r.nodes[n], Takes(x, e, x)
    PROVE  r \in Applied(r, e)
<1>1. PICK s \in Applied(r, e) : s = Put(r, n, x)
  BY StageLeads
<1>2. Put(r, n, x) = r
  BY PutRun DEF Takes
<1> QED  BY <1>1, <1>2

\* What it leads to.
Reaches(r, e, n, k, status, attempt, timeout, cleanup) ==
    \E t \in Applied(r, e) : /\ Leads(r, <<e>>, t) /\ Beyond(r, t, {n})
                             /\ Holds(t, n, k, status, attempt, timeout, cleanup)
LEMMA StageReaches ==
    ASSUME NEW r \in Run, r.configured, r.status \notin TerminalRun, NEW n \in Node, NEW e, e.node = n,
           NEW k, NEW status, NEW attempt, NEW timeout, NEW cleanup,
           \E y : Takes(r.nodes[n], e, y) /\ Stage(y, k, status, attempt, timeout, cleanup)
    PROVE  Reaches(r, e, n, k, status, attempt, timeout, cleanup)
<1>1. PICK y : Takes(r.nodes[n], e, y) /\ Stage(y, k, status, attempt, timeout, cleanup)
  OBVIOUS
<1>2. PICK t : t = Put(r, n, y)
  OBVIOUS
<1>3. /\ t \in Applied(r, e) /\ Leads(r, <<e>>, t) /\ t \in Run /\ t.status = r.status /\ t.configured
      /\ t.nodes[n] = y /\ \A m \in Node \ {n} : t.nodes[m] = r.nodes[m]
  BY <1>1, <1>2, StageLeads
<1>4. Beyond(r, t, {n}) /\ Holds(t, n, k, status, attempt, timeout, cleanup)
  BY <1>1, <1>3 DEF Beyond, Holds
<1> QED  BY <1>3, <1>4 DEF Reaches

\* Evidence of a result leaves the run as it is.
LEMMA EvidenceApplied ==
    ASSUME NEW r, NEW n, NEW k, NEW timeout, NEW cleanup, Holds(r, n, k, "running", "running", timeout, cleanup),
           NEW a, a.node = n, a.type \in {"ArtifactProduced", "WorkspaceObserved"}, a.attempt = k
    PROVE  r \in Applied(r, a)
<1>1. PICK x : x = r.nodes[n]
  OBVIOUS
<1>2. x \in NodeState /\ x.attempts = k /\ x.status = "running" /\ x.last.status = "running"
      /\ r \in Run /\ r.configured /\ r.status \notin TerminalRun /\ n \in Node
  BY <1>1 DEF Holds, Stage
<1>3. Takes(x, a, x)
  BY <1>2, TakesEvidence
<1>4. Put(r, n, x) = r
  BY <1>1, <1>2, PutRun
<1>5. Put(r, n, x) \in Applied(r, a)
  BY <1>1, <1>2, <1>3, StageLeads
<1> QED  BY <1>4, <1>5

\* Both kinds.
LEMMA EvidenceLeads ==
    ASSUME NEW r, NEW n, NEW k, NEW timeout, NEW cleanup, Holds(r, n, k, "running", "running", timeout, cleanup),
           NEW a, a.node = n, a.type = "ArtifactProduced", a.attempt = k,
           NEW b, b.node = n, b.type = "WorkspaceObserved", b.attempt = k
    PROVE  Leads(r, <<a, b>>, r)
<1>1. r \in Applied(r, a) /\ r \in Applied(r, b)
  BY EvidenceApplied
<1> QED  BY <1>1, LeadsBy

\* That of a cleanup is added to it.
LEMMA CleanupLeads ==
    ASSUME NEW r, NEW n, NEW k, NEW status, NEW attempt \in {"prepared", "running", "orphaned"},
           NEW timeout, NEW cleanup, Holds(r, n, k, status, attempt, timeout, cleanup),
           NEW e, e.node = n, e.attempt = k, e.type = "ExecutionCleanupObserved",
           e.cause \in Cause, e.outcome \in CleanupOutcome, FirstOf(e, cleanup)
    PROVE  Reaches(r, e, n, k, status, attempt, timeout, WithEvidence(e, cleanup))
<1>1. Stage(r.nodes[n], e.attempt, status, attempt, timeout, cleanup) /\ e.node \in Node
      /\ r \in Run /\ r.configured /\ r.status \notin TerminalRun
  BY DEF Holds
<1>2. \E y : Takes(r.nodes[n], e, y) /\ Stage(y, k, status, attempt, timeout, WithEvidence(e, cleanup))
  BY <1>1, TakesCleanup
<1> QED  BY <1>1, <1>2, StageReaches

\* The deadline passes, and its cancellation is reported.
LEMMA TimeoutLeads ==
    ASSUME NEW r, NEW n, NEW k, NEW timeout, NEW after, NEW cleanup,
           Holds(r, n, k, "running", "running", timeout, cleanup), NEW e, e.node = n, e.attempt = k,
           \/ e.type = "AttemptTimeoutRequested" /\ timeout = "none" /\ after = "requested"
           \/ /\ e.type = "AttemptCancellationCompleted" /\ timeout = "requested" /\ after = e.outcome
              /\ e.outcome \in CancellationOutcome
    PROVE  Reaches(r, e, n, k, "running", "running", after, cleanup)
<1>1. Stage(r.nodes[n], e.attempt, "running", "running", timeout, cleanup)
      /\ r \in Run /\ r.configured /\ r.status \notin TerminalRun /\ n \in Node
  BY DEF Holds
<1>2. \E y : Takes(r.nodes[n], e, y) /\ Stage(y, k, "running", "running", after, cleanup)
  BY <1>1, TakesTimeout
<1> QED  BY <1>1, <1>2, StageReaches

\* The attempt ends.
AttemptEnding(e, result, timeout) ==
    \/ e.type = "AttemptSucceeded" /\ result = "succeeded" /\ timeout = "none"
    \/ e.type = "AttemptBlocked" /\ result = "blocked" /\ timeout = "none"
    \/ e.type = "AttemptCancelled" /\ result = "cancelled" /\ timeout = "none"
    \/ e.type = "AttemptFailed" /\ result = "failed" /\ timeout = "none"
    \/ /\ e.type = "AttemptFailed" /\ result = "failed" /\ timeout \in CancellationOutcome
       /\ e.exhausted
LEMMA EndLeads ==
    ASSUME NEW r, NEW n, NEW k, NEW timeout, NEW cleanup, NEW result,
           Holds(r, n, k, "running", "running", timeout, cleanup), NEW e, e.node = n, e.attempt = k,
           AttemptEnding(e, result, timeout)
    PROVE  Reaches(r, e, n, k, "running", result, timeout, cleanup)
<1>1. Stage(r.nodes[n], e.attempt, "running", "running", timeout, cleanup)
      /\ r \in Run /\ r.configured /\ r.status \notin TerminalRun /\ n \in Node
  BY DEF Holds
<1>2. \E y : Takes(r.nodes[n], e, y) /\ Stage(y, k, "running", result, timeout, cleanup)
  BY <1>1, TakesEnd DEF AttemptEnding
<1> QED  BY <1>1, <1>2, StageReaches

\* So does its node.
NodeEnding(e, result, status) ==
    \/ e.type = "NodeSucceeded" /\ result = "succeeded" /\ status = "succeeded"
    \/ e.type = "NodeFailed" /\ result = "failed" /\ status = "failed"
    \/ e.type = "NodeBlocked" /\ result = "blocked" /\ status = "blocked"
    \/ e.type = "NodeReady" /\ e.reason = "retry" /\ result = "failed" /\ status = "ready"
    \/ e.type = "NodePaused" /\ e.reason \in PauseKind /\ result = "cancelled" /\ status = "paused"
LEMMA NodeLeads ==
    ASSUME NEW r, NEW n, NEW k, NEW timeout, NEW cleanup, NEW result, NEW status,
           Holds(r, n, k, "running", result, timeout, cleanup), NEW e, e.node = n,
           NodeEnding(e, result, status)
    PROVE  Reaches(r, e, n, k, status, result, timeout, cleanup)
<1>1. Stage(r.nodes[n], k, "running", result, timeout, cleanup)
      /\ r \in Run /\ r.configured /\ r.status \notin TerminalRun /\ n \in Node
  BY DEF Holds
<1>2. \E y : Takes(r.nodes[n], e, y) /\ Stage(y, k, status, result, timeout, cleanup)
  BY <1>1, TakesNode DEF NodeEnding
<1> QED  BY <1>1, <1>2, StageReaches

-----------------------------------------------------------------------------
(* How an attempt ends *)

\* What differs by one node differs by no more after another event of it.
LEMMA BeyondOn ==
    ASSUME NEW r, NEW s, NEW t, NEW S, Beyond(r, s, S), Beyond(s, t, S)
    PROVE  Beyond(r, t, S)
  BY DEF Beyond

\* A batch leads a run to one with the node as given, and the others as they were.
Gets(r, batch, n, k, status, attempt, timeout, cleanup) ==
    \E t : Leads(r, batch, t) /\ Beyond(r, t, {n}) /\ Holds(t, n, k, status, attempt, timeout, cleanup)

\* The attempt ends, and its node with it.
LEMMA BothEnd ==
    ASSUME NEW r, NEW n, NEW k, NEW timeout, NEW cleanup,
           Holds(r, n, k, "running", "running", timeout, cleanup),
           NEW e, e.node = n, e.attempt = k, NEW result, AttemptEnding(e, result, timeout),
           NEW f, f.node = n, NEW status, NodeEnding(f, result, status)
    PROVE  Gets(r, <<e, f>>, n, k, status, result, timeout, cleanup)
<1>1. Reaches(r, e, n, k, "running", result, timeout, cleanup)
  BY EndLeads
<1>2. PICK s \in Applied(r, e) : Beyond(r, s, {n}) /\ Holds(s, n, k, "running", result, timeout, cleanup)
  BY <1>1 DEF Reaches
<1>3. Reaches(s, f, n, k, status, result, timeout, cleanup)
  BY <1>2, NodeLeads
<1>4. PICK t \in Applied(s, f) : Beyond(s, t, {n}) /\ Holds(t, n, k, status, result, timeout, cleanup)
  BY <1>3 DEF Reaches
<1>5. Leads(r, <<e, f>>, t) /\ Beyond(r, t, {n})
  BY <1>2, <1>4, LeadsBy, BeyondOn
<1> QED  BY <1>4, <1>5 DEF Gets

\* The node pauses with its run once its attempt was cancelled, and nothing else runs.
Alone(r, n) == \A m \in Node \ {n} : r.nodes[m].status # "running"
LEMMA PauseLeads ==
    ASSUME NEW r, NEW n, NEW k, NEW timeout, NEW cleanup,
           Holds(r, n, k, "running", "cancelled", timeout, cleanup), Alone(r, n), r.status = "running",
           NEW reason \in PauseKind, NEW c
    PROVE  Accepts(r, PauseBoth(n, reason, c))
<1> DEFINE e == Because("NodePaused", n, reason)
           f == Paused(c)
<1>1. e.node = n /\ NodeEnding(e, "cancelled", "paused") /\ f.type = "RunPaused" /\ f.durable
      /\ PauseBoth(n, reason, c) = <<e, f>>
  BY DEF NodeEnding, Because, Paused, PauseBoth
<1> HIDE DEF e, f
<1>2. Reaches(r, e, n, k, "paused", "cancelled", timeout, cleanup)
  BY <1>1, NodeLeads
<1>3. PICK s \in Applied(r, e) : Beyond(r, s, {n}) /\ Holds(s, n, k, "paused", "cancelled", timeout, cleanup)
  BY <1>2 DEF Reaches
<1>4. s \in Run /\ s.status = "running" /\ \A m \in Node : s.nodes[m].status # "running"
  BY <1>3 DEF Beyond, Holds, Stage, Alone
<1>5. s.status \notin TerminalRun /\ s.status \in {"running", "recovery-blocked"}
  BY <1>4 DEF TerminalRun
<1>6. PICK t : Leads(s, <<f>>, t)
  BY <1>1, <1>4, <1>5, RunLeads
<1>7. t \in Applied(s, f)
  BY <1>6, Single DEF Leads
<1> QED  BY <1>1, <1>3, <1>7, LeadsBy DEF Accepts

\* What one batch leads to, another may go on from.
LEMMA AcceptsOnward ==
    ASSUME NEW r, NEW a, NEW s, Leads(r, a, s), NEW b, Accepts(s, b)
    PROVE  Accepts(r, a \o b)
  BY LeadsOnward DEF Accepts

\* All other nodes are as some run has them, and what waits there is blocked; then the run ends.
LEMMA StopLeads ==
    ASSUME NEW r \in Run, NEW v, NEW n \in Node, r.status = "running",
           \A m \in Node \ {n} : r.nodes[m].status = v.nodes[m].status,
           NEW last, \/ last.type = "RunBlocked"
                     \/ /\ last.type = "RunCompleted" /\ last.outcome = "failed"
                        /\ r.nodes[n].status = "failed"
    PROVE  \E s : Leads(r, BlockOthers(v, n), s) /\ Accepts(s, <<last>>)
<1>1. r.status \notin TerminalRun
  BY DEF TerminalRun
<1>2. PICK s : Leads(r, BlockOthers(v, n), s) /\ s \in Run /\ s.status = r.status /\ s.nodes[n] = r.nodes[n]
  BY <1>1, BlockLeads
<1>3. Accepts(s, <<last>>)
  BY <1>1, <1>2, RunLeads DEF Accepts
<1> QED  BY <1>2, <1>3

\* finishResult of a failure whose workspace is as it was.
LEMMA FailureAccepted ==
    ASSUME NEW r, NEW n, NEW k, NEW timeout, NEW cleanup,
           Holds(r, n, k, "running", "running", timeout, cleanup), r.status = "running",
           NEW v, v.nodes[n].attempts = k, \A m \in Node : r.nodes[m].status = v.nodes[m].status,
           NEW exhausted, timeout = "none" \/ (timeout \in CancellationOutcome /\ exhausted), ~Changed(n)
    PROVE  Accepts(r, FailureBatch(v, n, exhausted))
<1> DEFINE e == [type |-> "AttemptFailed", node |-> n, attempt |-> v.nodes[n].attempts,
                 exhausted |-> exhausted]
           a == Because("NodeReady", n, "retry")
           f == NodeEvent("NodeFailed", n)
           last == [type |-> "RunCompleted", outcome |-> "failed"]
<1>0. FailureBatch(v, n, exhausted)
        = <<e>> \o IF BudgetLeft(v, n) THEN <<a>> ELSE <<f>> \o BlockOthers(v, n) \o <<last>>
  BY DEF FailureBatch
<1>1. /\ e.node = n /\ e.attempt = k /\ AttemptEnding(e, "failed", timeout)
      /\ a.node = n /\ NodeEnding(a, "failed", "ready") /\ f.node = n /\ NodeEnding(f, "failed", "failed")
      /\ last.type = "RunCompleted" /\ last.outcome = "failed"
  BY DEF AttemptEnding, NodeEnding, Because, NodeEvent
<1> HIDE DEF e, a, f, last
<1>2. Reaches(r, e, n, k, "running", "failed", timeout, cleanup)
  BY <1>1, EndLeads
<1>3. PICK s : /\ Leads(r, <<e>>, s) /\ Beyond(r, s, {n})
               /\ Holds(s, n, k, "running", "failed", timeout, cleanup)
  BY <1>2 DEF Reaches
<1>4. CASE BudgetLeft(v, n)
  <2>1. Reaches(s, a, n, k, "ready", "failed", timeout, cleanup)
    BY <1>1, <1>3, NodeLeads
  <2>2. Accepts(s, <<a>>)
    BY <2>1 DEF Reaches, Accepts
  <2> QED  BY <1>0, <1>3, <1>4, <2>2, AcceptsOnward
<1>5. CASE ~BudgetLeft(v, n)
  <2>1. Reaches(s, f, n, k, "failed", "failed", timeout, cleanup)
    BY <1>1, <1>3, NodeLeads
  <2>2. PICK t : /\ Leads(s, <<f>>, t) /\ Beyond(s, t, {n})
                 /\ Holds(t, n, k, "failed", "failed", timeout, cleanup)
    BY <2>1 DEF Reaches
  <2>3. t \in Run /\ n \in Node /\ t.status = "running" /\ t.nodes[n].status = "failed"
        /\ \A m \in Node \ {n} : t.nodes[m].status = v.nodes[m].status
    BY <1>3, <2>2 DEF Beyond, Holds, Stage
  <2>4. PICK u : Leads(t, BlockOthers(v, n), u) /\ Accepts(u, <<last>>)
    BY <1>1, <2>3, StopLeads
  <2>5. Leads(s, <<f>> \o BlockOthers(v, n), u)
    BY <2>2, <2>4, LeadsOnward
  <2>6. Accepts(s, <<f>> \o BlockOthers(v, n) \o <<last>>)
    BY <2>4, <2>5, AcceptsOnward
  <2> QED  BY <1>0, <1>3, <1>5, <2>6, AcceptsOnward
<1> QED  BY <1>4, <1>5

-----------------------------------------------------------------------------
(* The result of an attempt is accepted *)

\* A run that works on the attempt of a node, and on nothing else.
WorksOn(v, n, timeout) ==
    /\ Holds(v, n, v.nodes[n].attempts, "running", "running", timeout, {})
    /\ Alone(v, n) /\ v.status = "running"

\* finishResult of a success, of blocked work, of an attempt that was cancelled and of a failure.
LEMMA ResultAccepted ==
    ASSUME NEW v, NEW n, WorksOn(v, n, "none"), NEW evidence,
           evidence = <<AttemptEvent(v, "ArtifactProduced", n), AttemptEvent(v, "WorkspaceObserved", n)>>
    PROVE  /\ Accepts(v, evidence \o <<AttemptEvent(v, "AttemptSucceeded", n), NodeEvent("NodeSucceeded", n)>>)
           /\ ~Changed(n) => Accepts(v, evidence \o FailureBatch(v, n, FALSE))
           /\ Accepts(v, evidence \o <<AttemptEvent(v, "AttemptBlocked", n), NodeEvent("NodeBlocked", n)>>
                           \o BlockOthers(v, n) \o <<RunEvent("RunBlocked")>>)
           /\ Accepts(v, evidence \o <<AttemptEvent(v, "AttemptCancelled", n)>> \o CancelNodes(v)
                           \o <<[type |-> "RunCancelled", durable |-> FALSE, control |-> None]>>)
<1> DEFINE k == v.nodes[n].attempts
           a == AttemptEvent(v, "ArtifactProduced", n)
           b == AttemptEvent(v, "WorkspaceObserved", n)
           s1 == AttemptEvent(v, "AttemptSucceeded", n)
           s2 == NodeEvent("NodeSucceeded", n)
           b1 == AttemptEvent(v, "AttemptBlocked", n)
           b2 == NodeEvent("NodeBlocked", n)
           c1 == AttemptEvent(v, "AttemptCancelled", n)
           blocked == RunEvent("RunBlocked")
           last == [type |-> "RunCancelled", durable |-> FALSE, control |-> None]
<1>1. /\ a.node = n /\ a.attempt = k /\ a.type = "ArtifactProduced"
      /\ b.node = n /\ b.attempt = k /\ b.type = "WorkspaceObserved"
      /\ s1.node = n /\ s1.attempt = k /\ AttemptEnding(s1, "succeeded", "none")
      /\ s2.node = n /\ NodeEnding(s2, "succeeded", "succeeded")
      /\ b1.node = n /\ b1.attempt = k /\ AttemptEnding(b1, "blocked", "none")
      /\ b2.node = n /\ NodeEnding(b2, "blocked", "blocked")
      /\ c1.node = n /\ c1.attempt = k /\ AttemptEnding(c1, "cancelled", "none")
      /\ blocked.type = "RunBlocked" /\ last.type = "RunCancelled" /\ ~last.durable
  BY DEF AttemptEvent, NodeEvent, RunEvent, AttemptEnding, NodeEnding
<1>2. evidence = <<a, b>>
  OBVIOUS
<1> HIDE DEF a, b, s1, s2, b1, b2, c1, blocked, last
<1>3. /\ Holds(v, n, k, "running", "running", "none", {}) /\ v.nodes[n].attempts = k
      /\ v \in Run /\ n \in Node /\ v.status = "running" /\ v.status \notin TerminalRun
  BY DEF WorksOn, Holds, TerminalRun
<1> HIDE DEF k
<1>4. Leads(v, evidence, v)
  BY <1>1, <1>2, <1>3, EvidenceLeads
<1>5. Accepts(v, evidence \o <<s1, s2>>)
  <2>1. Gets(v, <<s1, s2>>, n, k, "succeeded", "succeeded", "none", {})
    BY <1>1, <1>3, BothEnd
  <2>2. Accepts(v, <<s1, s2>>)
    BY <2>1 DEF Gets, Accepts
  <2> QED  BY <1>4, <2>2, AcceptsOnward
<1>6. ASSUME ~Changed(n)
      PROVE  Accepts(v, evidence \o FailureBatch(v, n, FALSE))
  <2>1. Accepts(v, FailureBatch(v, n, FALSE))
    BY <1>3, <1>6, FailureAccepted
  <2> QED  BY <1>4, <2>1, AcceptsOnward
<1>7. Accepts(v, evidence \o <<b1, b2>> \o BlockOthers(v, n) \o <<blocked>>)
  <2>1. Gets(v, <<b1, b2>>, n, k, "blocked", "blocked", "none", {})
    BY <1>1, <1>3, BothEnd
  <2>2. PICK s : Leads(v, <<b1, b2>>, s) /\ Beyond(v, s, {n})
    BY <2>1 DEF Gets
  <2>3. Leads(v, evidence \o <<b1, b2>>, s)
    BY <1>4, <2>2, LeadsOnward
  <2>4. s \in Run /\ s.status = "running" /\ \A m \in Node \ {n} : s.nodes[m].status = v.nodes[m].status
    BY <1>3, <2>2 DEF Beyond
  <2>5. PICK t : Leads(s, BlockOthers(v, n), t) /\ Accepts(t, <<blocked>>)
    BY <1>1, <1>3, <2>4, StopLeads
  <2>6. Leads(v, evidence \o <<b1, b2>> \o BlockOthers(v, n), t)
    BY <2>3, <2>5, LeadsOnward
  <2> QED  BY <2>5, <2>6, AcceptsOnward
<1>8. Accepts(v, evidence \o <<c1>> \o CancelNodes(v) \o <<last>>)
  <2>1. Reaches(v, c1, n, k, "running", "cancelled", "none", {})
    BY <1>1, <1>3, EndLeads
  <2>2. PICK s : /\ Leads(v, <<c1>>, s) /\ Beyond(v, s, {n})
                 /\ Holds(s, n, k, "running", "cancelled", "none", {})
    BY <2>1 DEF Reaches
  <2>3. Leads(v, evidence \o <<c1>>, s)
    BY <1>4, <2>2, LeadsOnward
  <2>4. /\ s \in Run /\ s.status \notin TerminalRun
        /\ \A m \in Node : s.nodes[m].status = v.nodes[m].status
        /\ \A m \in Node : s.nodes[m].status = "running" => s.nodes[m].last.status \in {"cancelled", "orphaned"}
    BY <1>3, <2>2 DEF Beyond, Holds, Stage, WorksOn, Alone
  <2>5. PICK t : Leads(s, CancelNodes(v), t) /\ t \in Run /\ t.status = s.status
    BY <2>4, CancelLeads
  <2>6. Leads(v, evidence \o <<c1>> \o CancelNodes(v), t)
    BY <2>3, <2>5, LeadsOnward
  <2>7. Accepts(t, <<last>>)
    BY <1>1, <2>4, <2>5, RunLeads DEF Accepts
  <2> QED  BY <2>6, <2>7, AcceptsOnward
<1> QED  BY <1>5, <1>6, <1>7, <1>8 DEF s1, s2, b1, b2, c1, blocked, last

\* Its timeout, once the cancellation was confirmed.
LEMMA TimeoutAccepted ==
    ASSUME NEW v, NEW n, WorksOn(v, n, "requested"), ~Changed(n)
    PROVE  Accepts(v, <<CancellationCompleted(v, n, "succeeded"), Cleanup(v, n, "timeout", "confirmed"),
                        AttemptEvent(v, "ArtifactProduced", n), AttemptEvent(v, "WorkspaceObserved", n)>>
                      \o FailureBatch(v, n, TRUE))
<1> DEFINE k == v.nodes[n].attempts
           a == CancellationCompleted(v, n, "succeeded")
           b == Cleanup(v, n, "timeout", "confirmed")
           c == AttemptEvent(v, "ArtifactProduced", n)
           d == AttemptEvent(v, "WorkspaceObserved", n)
<1>1. /\ a.node = n /\ a.attempt = k /\ a.type = "AttemptCancellationCompleted"
      /\ a.outcome = "succeeded" /\ "succeeded" \in CancellationOutcome
      /\ b.node = n /\ b.attempt = k /\ b.type = "ExecutionCleanupObserved"
      /\ b.cause \in Cause /\ b.outcome \in CleanupOutcome /\ FirstOf(b, {})
      /\ c.node = n /\ c.attempt = k /\ c.type = "ArtifactProduced"
      /\ d.node = n /\ d.attempt = k /\ d.type = "WorkspaceObserved"
  BY DEF CancellationCompleted, Cleanup, AttemptEvent, Cause, CleanupOutcome, CancellationOutcome, FirstOf
<1> HIDE DEF a, b, c, d
<1>2. /\ Holds(v, n, k, "running", "running", "requested", {}) /\ v.nodes[n].attempts = k
      /\ v \in Run /\ n \in Node /\ v.status = "running"
  BY DEF WorksOn, Holds
<1> HIDE DEF k
<1>3. Reaches(v, a, n, k, "running", "running", "succeeded", {})
  BY <1>1, <1>2, TimeoutLeads
<1>4. PICK s \in Applied(v, a) : /\ Beyond(v, s, {n})
                                 /\ Holds(s, n, k, "running", "running", "succeeded", {})
  BY <1>3 DEF Reaches
<1>5. Reaches(s, b, n, k, "running", "running", "succeeded", WithEvidence(b, {}))
  BY <1>1, <1>4, CleanupLeads
<1>6. PICK t \in Applied(s, b) : /\ Beyond(s, t, {n})
                                 /\ Holds(t, n, k, "running", "running", "succeeded", WithEvidence(b, {}))
  BY <1>5 DEF Reaches
<1>7. t \in Applied(t, c) /\ t \in Applied(t, d)
  BY <1>1, <1>6, EvidenceApplied
<1>8. Leads(v, <<a, b, c, d>>, t)
  BY <1>4, <1>6, <1>7, LeadsBy
<1>9. t.status = "running" /\ \A m \in Node : t.nodes[m].status = v.nodes[m].status
  BY <1>2, <1>4, <1>6 DEF Beyond, Holds, Stage
<1>10. Accepts(t, FailureBatch(v, n, TRUE))
  BY <1>1, <1>2, <1>6, <1>9, FailureAccepted
<1>11. Accepts(v, <<a, b, c, d>> \o FailureBatch(v, n, TRUE))
  BY <1>8, <1>10, AcceptsOnward
<1> QED  BY <1>11 DEF a, b, c, d

\* finishActiveControl: the attempt is cancelled, and its node and run pause or all is cancelled.
LEMMA ControlAccepted ==
    ASSUME NEW v, NEW n, WorksOn(v, n, "none"), NEW k, ActionOf[k] \in {"pause", "cancel"}
    PROVE  Accepts(v, <<AttemptEvent(v, "ArtifactProduced", n), AttemptEvent(v, "WorkspaceObserved", n),
                        Cleanup(v, n, ActionOf[k], "confirmed"), AttemptEvent(v, "AttemptCancelled", n)>>
                      \o IF ActionOf[k] = "pause" THEN PauseBoth(n, "operator", k)
                         ELSE CancelNodes(v) \o <<Cancelled(k)>>)
<1> DEFINE i == v.nodes[n].attempts
           a == AttemptEvent(v, "ArtifactProduced", n)
           b == AttemptEvent(v, "WorkspaceObserved", n)
           c == Cleanup(v, n, ActionOf[k], "confirmed")
           d == AttemptEvent(v, "AttemptCancelled", n)
           last == Cancelled(k)
<1>1. /\ a.node = n /\ a.attempt = i /\ a.type = "ArtifactProduced"
      /\ b.node = n /\ b.attempt = i /\ b.type = "WorkspaceObserved"
      /\ c.node = n /\ c.attempt = i /\ c.type = "ExecutionCleanupObserved"
      /\ c.cause \in Cause /\ c.outcome \in CleanupOutcome /\ FirstOf(c, {})
      /\ d.node = n /\ d.attempt = i /\ AttemptEnding(d, "cancelled", "none")
      /\ last.type = "RunCancelled"
  BY DEF Cleanup, AttemptEvent, Cause, CleanupOutcome, FirstOf, AttemptEnding, Cancelled
<1> HIDE DEF a, b, c, d, last
<1>2. /\ Holds(v, n, i, "running", "running", "none", {}) /\ v.nodes[n].attempts = i
      /\ v \in Run /\ n \in Node /\ v.status = "running"
  BY DEF WorksOn, Holds
<1> HIDE DEF i
<1>3. v \in Applied(v, a) /\ v \in Applied(v, b)
  BY <1>1, <1>2, EvidenceApplied
<1>4. Reaches(v, c, n, i, "running", "running", "none", WithEvidence(c, {}))
  BY <1>1, <1>2, CleanupLeads
<1>5. PICK s \in Applied(v, c) : /\ Beyond(v, s, {n})
                                 /\ Holds(s, n, i, "running", "running", "none", WithEvidence(c, {}))
  BY <1>4 DEF Reaches
<1>6. Reaches(s, d, n, i, "running", "cancelled", "none", WithEvidence(c, {}))
  BY <1>1, <1>5, EndLeads
<1>7. PICK t \in Applied(s, d) : /\ Beyond(s, t, {n})
                                 /\ Holds(t, n, i, "running", "cancelled", "none", WithEvidence(c, {}))
  BY <1>6 DEF Reaches
<1>8. Leads(v, <<a, b, c, d>>, t)
  BY <1>3, <1>5, <1>7, LeadsBy
<1>9. /\ t \in Run /\ t.status = "running" /\ t.status \notin TerminalRun /\ Alone(t, n)
      /\ \A m \in Node : t.nodes[m].status = v.nodes[m].status
      /\ \A m \in Node : t.nodes[m].status = "running" => t.nodes[m].last.status \in {"cancelled", "orphaned"}
  BY <1>2, <1>5, <1>7 DEF Beyond, Holds, Stage, WorksOn, Alone, TerminalRun
<1>10. Accepts(t, PauseBoth(n, "operator", k))
  BY <1>7, <1>9, PauseLeads DEF PauseKind
<1>11. Accepts(t, CancelNodes(v) \o <<last>>)
  BY <1>1, <1>9, CancelledLeads DEF Accepts
<1>12. Accepts(t, IF ActionOf[k] = "pause" THEN PauseBoth(n, "operator", k) ELSE CancelNodes(v) \o <<last>>)
  BY <1>10, <1>11
<1>13. Accepts(v, <<a, b, c, d>> \o IF ActionOf[k] = "pause" THEN PauseBoth(n, "operator", k)
                                    ELSE CancelNodes(v) \o <<last>>)
  BY <1>8, <1>12, AcceptsOnward
<1> QED  BY <1>13 DEF a, b, c, d, last

-----------------------------------------------------------------------------
(* The other batches of a session *)

\* No node runs.
Still(r) == \A n \in Node : r.nodes[n].status # "running"

\* The reducer accepts what changes no node.
LEMMA RunAccepted ==
    ASSUME NEW r \in Run, r.status \notin TerminalRun
    PROVE  /\ \A k : Accepts(r, <<Observed(k)>>)
           /\ Still(r) /\ r.status \in {"running", "recovery-blocked"} => \A k : Accepts(r, <<Paused(k)>>)
           /\ NeedsNegotiation(r) => Accepts(r, <<RunEvent("RuntimeNegotiated")>>)
           /\ r.status = "running" /\ (\A n \in Node : r.nodes[n].status = "succeeded")
                => Accepts(r, <<[type |-> "RunCompleted", outcome |-> "succeeded"]>>)
           /\ r.status = "paused" => Accepts(r, <<Resumed>>)
<1>1. ASSUME NEW k PROVE Accepts(r, <<Observed(k)>>)
  BY RunLeads DEF Accepts, Observed
<1>2. ASSUME NEW k, Still(r), r.status \in {"running", "recovery-blocked"} PROVE Accepts(r, <<Paused(k)>>)
  BY <1>2, RunLeads DEF Accepts, Paused, Still
<1>3. ASSUME NeedsNegotiation(r) PROVE Accepts(r, <<RunEvent("RuntimeNegotiated")>>)
  BY <1>3, RunLeads DEF Accepts, RunEvent
<1>4. ASSUME r.status = "running", \A n \in Node : r.nodes[n].status = "succeeded"
      PROVE  Accepts(r, <<[type |-> "RunCompleted", outcome |-> "succeeded"]>>)
  <2> DEFINE e == [type |-> "RunCompleted", outcome |-> "succeeded"]
  <2>1. e.type = "RunCompleted" /\ e.outcome = "succeeded"
    OBVIOUS
  <2> HIDE DEF e
  <2>2. Accepts(r, <<e>>)
    BY <1>4, <2>1, RunLeads DEF Accepts
  <2> QED  BY <2>2 DEF e
<1>5. ASSUME r.status = "paused" PROVE Accepts(r, <<Resumed>>)
  BY <1>5, RunLeads DEF Accepts, Resumed
<1> QED  BY <1>1, <1>2, <1>3, <1>4, <1>5

\* applyBoundaryControl of a run that goes on, or is paused, where no node runs.
LEMMA BoundaryAccepted ==
    ASSUME NEW r \in Run, ~Settled(r.status), Still(r), NEW k, NEW observe
    PROVE  Accepts(r, BoundaryBatch(r, k, observe))
<1> DEFINE b == IF ActionOf[k] = "cancel" THEN CancelNodes(r) \o <<Cancelled(k)>>
                ELSE IF r.status # "paused" THEN <<Paused(k)>> ELSE <<>>
           a == IF observe THEN <<Observed(k)>> ELSE <<>>
<1>1. r.status \notin TerminalRun /\ r.status \in {"running", "paused", "recovery-blocked"}
  BY DEF Settled, TerminalRun, Run, RunStatus
<1>2. Leads(r, a, r)
  <2>1. r \in Applied(r, Observed(k))
    BY <1>1 DEF Applied, Observed, ControlRequestObserved
  <2>2. Leads(r, <<Observed(k)>>, r) /\ Leads(r, <<>>, r)
    BY <2>1, LeadsEvent, LeadsNowhere
  <2> QED  BY <2>2
<1>3. Accepts(r, CancelNodes(r) \o <<Cancelled(k)>>)
  BY <1>1, CancelledLeads DEF Accepts, Cancelled, Still
<1>4. r.status # "paused" => Accepts(r, <<Paused(k)>>)
  BY <1>1, RunAccepted
<1>5. Accepts(r, <<>>)
  BY LeadsNowhere DEF Accepts
<1>6. Accepts(r, b)
  BY <1>3, <1>4, <1>5
<1> HIDE DEF a, b
<1>7. Accepts(r, a \o b)
  BY <1>2, <1>6, AcceptsOnward
<1> QED  BY <1>7 DEF a, b, BoundaryBatch

\* A node and its run are blocked over its attempt.
LEMMA RecoveryBlockedAccepted ==
    ASSUME NEW r \in Run, ~Settled(r.status), NEW n \in Node, r.nodes[n].last.status \in {"prepared", "running"},
           r.nodes[n].last.plan, NEW e, e.type = "RunRecoveryBlocked", e.node = n,
           e.attempt = r.nodes[n].attempts,
           e.kind = "cleanup-unknown" => \E c \in r.nodes[n].last.cleanup : c[2] = "unknown"
    PROVE  Accepts(r, <<e>>)
<1>1. r.status \notin TerminalRun /\ r.status \in {"running", "paused", "recovery-blocked"}
  BY DEF Settled, TerminalRun, Run, RunStatus
<1>2. [r EXCEPT !.status = "recovery-blocked"] \in Applied(r, e)
  BY <1>1 DEF Applied, RunRecoveryBlocked, When, CurrentAttempt, NodeOf, AttemptStatus
<1> QED  BY <1>2, LeadsEvent DEF Accepts

\* A run that is resumed and the nodes that paused.
LEMMA ResumeAccepted ==
    ASSUME NEW r \in Run, r.status = "paused"
    PROVE  Accepts(r, ReadyBatch(PausedNodes(r), "resumed") \o <<Resumed>>)
<1>1. r.status \notin TerminalRun /\ PausedNodes(r) \in SUBSET Node
      /\ \A n \in PausedNodes(r) : r.nodes[n].status = "paused"
  BY DEF TerminalRun, PausedNodes
<1>2. PICK t : Leads(r, ReadyBatch(PausedNodes(r), "resumed"), t) /\ Beyond(r, t, PausedNodes(r))
  BY <1>1, ReadyLeads
<1>3. t \in Run /\ t.status = "paused" /\ t.status \notin TerminalRun
  BY <1>1, <1>2 DEF Beyond
<1>4. Accepts(t, <<Resumed>>)
  BY <1>3, RunAccepted
<1> QED  BY <1>2, <1>4, AcceptsOnward

\* The nodes whose dependencies succeeded.
LEMMA ReadyAccepted ==
    ASSUME NEW r \in Run, r.status \notin TerminalRun
    PROVE  Accepts(r, ReadyBatch(Executable(r), "dependencies-satisfied"))
<1>1. Executable(r) \in SUBSET Node /\ \A n \in Executable(r) : r.nodes[n].status = "pending"
  BY DEF Executable
<1> QED  BY <1>1, ReadyLeads DEF Accepts

\* A ready node pauses with its run, or gets an attempt.
LEMMA ReadyPauses ==
    ASSUME NEW r \in Run, r.status = "running", r.configured, Still(r), NEW n \in Ready(r),
           NEW reason \in PauseKind, NEW c
    PROVE  Accepts(r, PauseBoth(n, reason, c))
<1> DEFINE e == Because("NodePaused", n, reason)
           f == Paused(c)
<1>1. e.node = n /\ e.type = "NodePaused" /\ e.reason = reason /\ PauseBoth(n, reason, c) = <<e, f>>
  BY DEF Because, Paused, PauseBoth
<1> HIDE DEF e
<1>2. n \in Node /\ r.nodes[n] \in NodeState /\ r.nodes[n].status = "ready" /\ r.status \notin TerminalRun
  BY PutRun DEF Ready, Run, TerminalRun
<1>3. PICK y : Takes(r.nodes[n], e, y) /\ y.status = "paused"
  BY <1>1, <1>2, TakesPause
<1>4. PICK s \in Applied(r, e) : Beyond(r, s, {n}) /\ s.nodes[n] = y
  <2>1. Gives(r, e, n, y)
    BY <1>1, <1>2, <1>3, StageGives
  <2> QED  BY <2>1 DEF Gives
<1>5. s \in Run /\ s.status = "running" /\ Still(s)
  BY <1>2, <1>3, <1>4 DEF Still, Beyond
<1>6. Accepts(s, <<f>>)
  <2>1. s.status \notin TerminalRun /\ s.status \in {"running", "recovery-blocked"}
    BY <1>5 DEF TerminalRun
  <2>2. \A k : Accepts(s, <<Paused(k)>>)
    BY <1>5, <2>1, RunAccepted
  <2> QED  BY <2>2
<1>7. PICK t : t \in Applied(s, f)
  BY <1>6, Single DEF Accepts, Leads
<1> QED  BY <1>1, <1>4, <1>7, LeadsBy DEF Accepts

\* The next attempt of a ready node is prepared.
LEMMA PrepareReaches ==
    ASSUME NEW r \in Run, r.status \notin TerminalRun, r.configured, NEW n \in Ready(r),
           NEW k, k = r.nodes[n].attempts + 1,
           NEW a, a.type = "AttemptScheduled" /\ a.node = n /\ a.attempt = k,
           NEW b, b.type = "ArtifactProduced" /\ b.node = n /\ b.attempt = k,
           NEW c, c.type = "AttemptPrepared" /\ c.node = n /\ c.attempt = k
    PROVE  Gets(r, <<a, b, c>>, n, k, "ready", "prepared", "none", {})
<1>1. n \in Node /\ r.nodes[n] \in NodeState /\ r.nodes[n].status = "ready"
  BY PutRun DEF Ready, Run
<1>2. PICK x : x = r.nodes[n]
  OBVIOUS
<1>3. \E y, z : /\ Takes(x, a, y) /\ Takes(y, b, y) /\ Takes(y, c, z)
                /\ Stage(z, k, "ready", "prepared", "none", {})
  BY <1>1, <1>2, TakesAttempt
<1>4. PICK y, z : /\ Takes(x, a, y) /\ Takes(y, b, y) /\ Takes(y, c, z)
                  /\ Stage(z, k, "ready", "prepared", "none", {})
  BY <1>3
<1>5. PICK s \in Applied(r, a) : Beyond(r, s, {n}) /\ s.configured /\ s.nodes[n] = y
  <2>1. Gives(r, a, n, y)
    BY <1>1, <1>2, <1>4, StageGives
  <2> QED  BY <2>1 DEF Gives
<1>6. s \in Run /\ s.configured /\ s.status \notin TerminalRun /\ y = s.nodes[n]
  BY <1>5 DEF Beyond
<1>7. s \in Applied(s, b)
  BY <1>1, <1>4, <1>6, StageStays
<1>8. PICK t \in Applied(s, c) : Beyond(s, t, {n}) /\ t.configured /\ t.nodes[n] = z
  <2>1. Gives(s, c, n, z)
    BY <1>1, <1>4, <1>6, StageGives
  <2> QED  BY <2>1 DEF Gives
<1>9. Leads(r, <<a, b, c>>, t)
  BY <1>5, <1>7, <1>8, LeadsBy
<1>10. Beyond(r, t, {n}) /\ Holds(t, n, k, "ready", "prepared", "none", {})
  BY <1>1, <1>4, <1>5, <1>8 DEF Beyond, Holds
<1> QED  BY <1>9, <1>10 DEF Gets

\* Its start is authorized.
LEMMA StartReaches ==
    ASSUME NEW r, NEW n, NEW k, Holds(r, n, k, "ready", "prepared", "none", {}),
           NEW e, e.type = "AttemptStartAuthorized", e.node = n, e.attempt = k
    PROVE  Reaches(r, e, n, k, "running", "running", "none", {})
<1>1. Stage(r.nodes[n], e.attempt, "ready", "prepared", "none", {}) /\ e.node \in Node
      /\ r \in Run /\ r.configured /\ r.status \notin TerminalRun
  BY DEF Holds
<1>2. \E y : Takes(r.nodes[n], e, y) /\ Stage(y, k, "running", "running", "none", {})
  BY <1>1, TakesStart
<1> QED  BY <1>1, <1>2, StageReaches

\* A lost attempt is orphaned, with the evidence of its cleanup unless its cause has one.
LEMMA OrphanAccepted ==
    ASSUME NEW r, NEW n, NEW k, NEW status, NEW attempt, NEW timeout, NEW cleanup,
           Holds(r, n, k, status, attempt, timeout, cleanup),
           \/ status = "ready" /\ attempt = "prepared"
           \/ status = "running" /\ attempt = "running",
           NEW a, a.type = "ArtifactProduced" /\ a.node = n /\ a.attempt = k,
           NEW b, NEW e, b = <<>> \/ (b = <<e>> /\ FirstOf(e, cleanup)),
           e.type = "ExecutionCleanupObserved" /\ e.node = n /\ e.attempt = k
             /\ e.cause \in Cause /\ e.outcome \in CleanupOutcome,
           NEW last, last.type = "AttemptOrphaned" /\ last.node = n /\ last.attempt = k
             /\ last.differs \in BOOLEAN
    PROVE  Accepts(r, <<a>> \o b \o <<last>>)
<1>1. /\ Stage(r.nodes[n], k, status, attempt, timeout, cleanup) /\ n \in Node
      /\ r \in Run /\ r.configured /\ r.status \notin TerminalRun
  BY DEF Holds
<1>2. r \in Applied(r, a)
  <2>1. PICK x : x = r.nodes[n]
    OBVIOUS
  <2>2. x \in NodeState /\ x.attempts = k /\ x.status = status /\ x.last.status = attempt
    BY <1>1, <2>1 DEF Stage
  <2>3. Takes(x, a, x)
    BY <1>1, <2>2, TakesEvidence
  <2>4. Put(r, n, x) = r /\ Put(r, n, x) \in Applied(r, a)
    BY <1>1, <2>1, <2>2, <2>3, PutRun, StageLeads
  <2> QED  BY <2>4
<1>3. \E s, c : Leads(r, b, s) /\ Holds(s, n, k, status, attempt, timeout, c)
  <2>1. CASE b = <<>>
    BY <2>1, LeadsNowhere
  <2>2. CASE b = <<e>> /\ FirstOf(e, cleanup)
    <3>1. Reaches(r, e, n, k, status, attempt, timeout, WithEvidence(e, cleanup))
      BY <2>2, CleanupLeads
    <3> QED  BY <2>2, <3>1 DEF Reaches
  <2> QED  BY <2>1, <2>2
<1>4. PICK s, c : Leads(r, b, s) /\ Holds(s, n, k, status, attempt, timeout, c)
  BY <1>3
<1>5. Leads(r, <<a>> \o b, s)
  BY <1>2, <1>4, LeadsEvent, LeadsOnward
<1>6. Accepts(s, <<last>>)
  <2>1. /\ Stage(s.nodes[n], last.attempt, status, attempt, timeout, c) /\ last.node \in Node
        /\ s \in Run /\ s.configured /\ s.status \notin TerminalRun
    BY <1>4 DEF Holds
  <2>2. \E y : Takes(s.nodes[n], last, y)
    BY <2>1, TakesOrphan
  <2>3. PICK y : Takes(s.nodes[n], last, y)
    BY <2>2
  <2> QED  BY <2>1, <2>3, StageLeads DEF Accepts
<1> QED  BY <1>5, <1>6, AcceptsOnward
====
