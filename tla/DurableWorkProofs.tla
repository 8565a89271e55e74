-------------------------- MODULE DurableWorkProofs --------------------------
(***************************************************************************)
(* What a run names, leaves and takes while sessions work on it, for any   *)
(* number of processes, nodes, attempts and controls. Who may act, which   *)
(* control is open and whose worker may run is DurableCoordinatorProofs:   *)
(* IInv, ControlInv, WorkInv.                                              *)
(*                                                                         *)
(* NamesInv is what BlockedRunNamesWork needs: a batch either decides the  *)
(* status of the run with its last event, leaves a run that is not blocked *)
(* unblocked, or blocks it beside an attempt (NamesKept), and a session    *)
(* between has an attempt, or a ready node for the next, in hand (Placed). *)
(*                                                                         *)
(* A run settles together with its nodes because every batch either keeps  *)
(* it going, or ends with a cancel that takes each node that had not ended *)
(* (Keeps), or blocks all that waits beside the node it ends (Stops).      *)
(* That the one attempt running is of a running node, RunSound, is all     *)
(* this needs of WorkInv.                                                  *)
(*                                                                         *)
(* A run that has not settled has given up no node (Hale), which is more   *)
(* than that statement says and what the next one needs: a session returns *)
(* with a run to resume only where nothing runs, is ready or can be, and   *)
(* there the pending nodes, if any, would hold one that needs none of the  *)
(* others (NeedsAcyclic, NothingToSchedule). Every other return follows a  *)
(* batch that ends with a pause, a cancel or a block (Halted).             *)
(*                                                                         *)
(* A node whose lost attempt left edits waits until a resume or a recovery *)
(* takes it up (Heeds). Why it was paused is in the run (Edited), and the  *)
(* one place that resumes nodes without looking at them, after the runtime *)
(* was negotiated, comes before any attempt (Renews).                      *)
(*                                                                         *)
(* That the reducer takes what a session commits is shown batch by batch.  *)
(* RejectInv says what each run in the store has (Sound) and what a fresh  *)
(* session holds at its place (Poised); nothing else may run beside it     *)
(* unless a lost or shelved attempt is in the way (Clear), where the       *)
(* property makes its exception.                                           *)
(*                                                                         *)
(* What a batch does to a node is proved by the least number of events, as *)
(* there; a batch that starts an attempt is followed event by event.       *)
(***************************************************************************)
EXTENDS DurableCoordinatorProofs

-----------------------------------------------------------------------------
(* What a blocked run names *)

\* A run blocked for recovery has work that a later resume can take up.
Names(r) == r.status = "recovery-blocked" => Active(r) \cup Orphaned(r) # {}

\* Where a session has an attempt in hand, and where it has a node for the next one.
Attempting == {"preparing", "starting", "driving", "timeout", "control"}
Choosing == {"preflight", "prepare"}

Placed(place, r) ==
    /\ place \in Attempting => Active(r) # {}
    /\ place \in Choosing => Ready(r) # {}

NamesInv == Names(run) /\ \A c \in Coord : fresh[c] => Placed(pc[c], run)

\* A place that says nothing of a node.
LEMMA Unplaced == ASSUME NEW place, place \notin Attempting \cup Choosing, NEW r PROVE Placed(place, r)
BY DEF Placed

\* A batch whose last event gives the run its status.
Decides(batch) == \E e : EndsIn(batch, e) /\ e.type \in RunWide \ {"RunRecoveryBlocked"}

\* It does so whatever comes first.
LEMMA DecidesJoined ==
    ASSUME NEW a, NEW t1, NEW s1, NEW d1, Batch(a, t1, s1, d1),
           NEW b, NEW t2, NEW s2, NEW d2, Batch(b, t2, s2, d2), Decides(b)
    PROVE  Decides(a \o b)
BY EndOfJoined DEF Decides

\* A single event that does.
LEMMA DecidesOne ==
    ASSUME NEW e, e.type \in RunWide \ {"RunRecoveryBlocked"}
    PROVE  Decides(<<e>>)
BY EndOfOne DEF Decides

\* The last events of the coordinator's batches.
LEMMA Deciding ==
    ASSUME NEW n, NEW reason, NEW k
    PROVE  /\ Decides(<<Paused(k)>>) /\ Decides(<<Cancelled(k)>>) /\ Decides(<<Resumed>>)
           /\ Decides(PauseBoth(n, reason, k)) /\ Decides(<<RunEvent("RunBlocked")>>)
<1>1. \A e : e.type \in RunWide \ {"RunRecoveryBlocked"} => Decides(<<e>>)
  BY DecidesOne
<1>2. Paused(k).type = "RunPaused" /\ Cancelled(k).type = "RunCancelled" /\ Resumed.type = "RunResumed"
      /\ RunEvent("RunBlocked").type = "RunBlocked"
  BY DEF Paused, Cancelled, Resumed, RunEvent
<1>3. Decides(PauseBoth(n, reason, k))
  <2>1. EndsIn(PauseBoth(n, reason, k), Paused(k))
    BY DEF EndsIn, PauseBoth
  <2> QED  BY <1>2, <2>1 DEF Decides, RunWide
<1> QED  BY <1>1, <1>2, <1>3 DEF RunWide

\* A batch leaves the run named that decides its status, that leaves it as it was unless it was
\* blocked, or that moves no attempt while there is one.
LEMMA NamesKept ==
    ASSUME NEW r \in Run, Names(r), NEW batch, NEW types, NEW seen, NEW done,
           Batch(batch, types, seen, done), NEW s \in Materialized(r, batch),
           \/ Decides(batch)
           \/ types \subseteq Loud /\ r.status # "recovery-blocked"
           \/ types \subseteq Steady /\ Active(r) # {}
    PROVE  s \in Run /\ Names(s)
<1>1. s \in Run
  BY BatchEffect
<1>2. CASE Decides(batch)
  <2>1. PICK e : EndsIn(batch, e) /\ e.type \in RunWide \ {"RunRecoveryBlocked"}
    BY <1>2 DEF Decides
  <2>2. Typed(e)
    <3>1. Len(batch) \in 1..Len(batch) /\ batch[Len(batch)] = e
      BY <2>1 DEF EndsIn, Batch
    <3> QED  BY <3>1 DEF Batch
  <2>3. PICK t \in Run : s \in Applied(t, e)
    BY <2>1, LastOfBatch
  <2>4. s.status # "recovery-blocked"
    <3>1. \E status : s = [t EXCEPT !.status = status] /\ status # "recovery-blocked"
      BY <2>1, <2>2, <2>3 DEF RunWide, Typed, Applied, When, RunPaused, RunResumed, RunBlocked, RunCancelled,
                              RunCompleted
    <3> QED  BY <2>3, <3>1 DEF Run
  <2> QED  BY <1>1, <2>4 DEF Names
<1>3. ASSUME types \subseteq Steady PROVE SameWork(r, s)
  BY <1>3, SteadyBatch, Wider
<1>4. ASSUME types \subseteq Loud PROVE s.status = r.status
  BY <1>4, BatchEffect, TypeSets
<1>5. ASSUME SameWork(r, s) PROVE Active(s) = Active(r) /\ Orphaned(s) = Orphaned(r)
  BY <1>5 DEF SameWork, Active, Orphaned
<1> QED  BY <1>1, <1>2, <1>3, <1>4, <1>5 DEF Names

\* A step of a session that stores nothing.
LEMMA NamesMoves ==
    ASSUME IInv, NamesInv, NEW c \in Coord, NEW next, pc' = [pc EXCEPT ![c] = next],
           UNCHANGED <<store, session>>, fresh[c] => Placed(next, run)
    PROVE  NamesInv'
<1>1. ASSUME NEW d \in Coord, fresh[d] PROVE Placed(pc'[d], run)
  <2>1. CASE d = c
    BY <1>1, <2>1 DEF IInv, SessionTyped
  <2>2. CASE d # c
    BY <1>1, <2>2 DEF NamesInv
  <2> QED  BY <2>1, <2>2
<1> QED  BY <1>1 DEF NamesInv, store, session

\* A commit of a fresh session; a stale one stores nothing.
LEMMA NamesCommit ==
    ASSUME IInv, ControlInv, NamesInv, NEW c \in Coord, NEW batch, NEW next, Commit(c, batch, next),
           fresh[c] => \A s \in Materialized(run, batch) : Names(s) /\ Placed(next, s)
    PROVE  NamesInv'
<1> USE DEF store, session, lease
<1>1. ASSUME batch # <<>>, fresh[c], run' \in Materialized(view[c], batch),
             fresh' = [d \in Coord |-> d = c], pc' = [pc EXCEPT ![c] = next]
      PROVE  NamesInv'
  <2>1. view[c] = run /\ DOMAIN pc = Coord
    BY <1>1 DEF IInv, FreshIsCurrent, SessionTyped
  <2>2. Names(run') /\ Placed(next, run')
    BY <1>1, <2>1
  <2>3. \A d \in Coord : fresh'[d] => Placed(pc'[d], run')
    BY <1>1, <2>1, <2>2
  <2> QED  BY <2>2, <2>3 DEF NamesInv
<1>2. ASSUME pc' = [pc EXCEPT ![c] = next], UNCHANGED <<store, session>>, batch = <<>>
      PROVE  NamesInv'
  <2>1. ASSUME fresh[c] PROVE Placed(next, run)
    <3>1. run \in Materialized(run, batch)
      BY <1>2, EmptyBatch
    <3> QED  BY <2>1, <3>1
  <2> QED  BY <1>2, <2>1, NamesMoves
<1>3. ASSUME NEW place \in {"rejected", "failing"}, pc' = [pc EXCEPT ![c] = place],
             UNCHANGED <<store, session>>
      PROVE  NamesInv'
  <2>1. Placed(place, run)
    BY Unplaced DEF Attempting, Choosing
  <2> QED  BY <1>3, <2>1, NamesMoves
<1> QED  BY <1>1, <1>2, <1>3, Zenon DEF Commit

\* A commit whose next place says nothing of a node.
LEMMA NamesStays ==
    ASSUME IInv, ControlInv, NamesInv, NEW c \in Coord, NEW batch, NEW next, Commit(c, batch, next),
           next \notin Attempting \cup Choosing,
           NEW types, NEW seen, NEW done, Batch(batch, types, seen, done),
           fresh[c] => \/ Decides(batch)
                       \/ types \subseteq Loud /\ run.status # "recovery-blocked"
                       \/ types \subseteq Steady /\ Active(run) # {}
    PROVE  NamesInv'
<1>1. ASSUME fresh[c], NEW s \in Materialized(run, batch) PROVE Names(s) /\ Placed(next, s)
  <2>1. run \in Run /\ Names(run)
    BY <1>1, FreshKnows DEF NamesInv
  <2> QED  BY <1>1, <2>1, NamesKept, Unplaced
<1> QED  BY <1>1, NamesCommit

-----------------------------------------------------------------------------
\* A step of a session that stores nothing.
LEMMA NamesGoesOn ==
    ASSUME IInv, NamesInv, NEW c \in Coord, NEW next, Moves(c, next),
           next \notin Attempting \cup Choosing \/ (fresh[c] => Placed(next, run))
    PROVE  NamesInv'
BY Unplaced, NamesMoves DEF Moves

\* A control at a boundary decides the status of the run, except a pause of one that is paused.
LEMMA BoundaryDecides ==
    ASSUME NEW v, NEW k \in Control, NEW observe \in BOOLEAN
    PROVE  \/ Decides(BoundaryBatch(v, k, observe))
           \/ v.status = "paused" /\ \E seen : Batch(BoundaryBatch(v, k, observe), Loud, seen, {})
<1> DEFINE a == IF observe THEN <<Observed(k)>> ELSE <<>>
           b == IF ActionOf[k] = "cancel" THEN CancelNodes(v) \o <<Cancelled(k)>>
                ELSE IF v.status # "paused" THEN <<Paused(k)>> ELSE <<>>
<1>1. PICK one : one = {k} \ {None}
  OBVIOUS
<1>2. /\ Batch(<<Observed(k)>>, Closing, one, {}) /\ Batch(<<Observed(k)>>, Loud, one, {})
      /\ Batch(<<Cancelled(k)>>, Closing, {}, one) /\ Batch(<<Paused(k)>>, Closing, {}, one)
  <2>1. "operator" \in PauseKind /\ "ControlRequestObserved" \in Loud
    BY DEF PauseKind, Loud, RunOnly
  <2> QED  BY <1>1, <2>1, StoppingBatches, TypeSets
<1>3. Batch(CancelNodes(v), Closing, {}, {}) /\ Batch(<<>>, Closing, {}, {}) /\ Batch(<<>>, Loud, {}, {})
  BY NodeBatches, NoEvent, TypeSets
<1>4. PICK sa : Batch(a, Closing, sa, {}) /\ Batch(a, Loud, sa, {})
  BY <1>2, <1>3
<1>5. CASE ActionOf[k] = "cancel"
  <2>1. Batch(b, Closing, {}, one) /\ Decides(b)
    BY <1>2, <1>3, <1>5, PlainThen, Deciding, DecidesJoined
  <2> HIDE DEF a, b
  <2>2. Decides(a \o b)
    BY <1>4, <2>1, DecidesJoined
  <2> QED  BY <2>2 DEF BoundaryBatch, a, b
<1>6. CASE ActionOf[k] # "cancel" /\ v.status # "paused"
  <2>1. Batch(b, Closing, {}, one) /\ Decides(b)
    BY <1>2, <1>6, Deciding
  <2> HIDE DEF a, b
  <2>2. Decides(a \o b)
    BY <1>4, <2>1, DecidesJoined
  <2> QED  BY <2>2 DEF BoundaryBatch, a, b
<1>7. CASE ActionOf[k] # "cancel" /\ v.status = "paused"
  <2>1. b = <<>>
    BY <1>7
  <2> HIDE DEF a, b
  <2>2. Batch(a \o b, Loud, sa \cup {}, {} \cup {})
    BY <1>3, <1>4, <2>1, Joined
  <2>3. sa \cup {} = sa /\ {} \cup {} = {}
    OBVIOUS
  <2>4. Batch(a \o b, Loud, sa, {})
    BY <2>2, <2>3
  <2> QED  BY <1>7, <2>4 DEF BoundaryBatch, a, b
<1> QED  BY <1>5, <1>6, <1>7

\* A recovered run is reconciled, or stops at once.
LEMMA ReconcilingNames ==
    ASSUME IInv, ControlInv, NamesInv, NEW c \in Coord,
           BeginReconciling(c) \/ RecoverBoundary(c) \/ Inspect(c) \/ TerminateRecovered(c)
    PROVE  NamesInv'
<1> DEFINE v == view[c]
           n == First(Active(v))
<1>1. {"inspect", "continue", "returning", "capture", "terminate"} \cap (Attempting \cup Choosing) = {}
      /\ Blocked(c) \in {"continue", "schedule", "returning"} \ (Attempting \cup Choosing)
  BY DEF Attempting, Choosing, Blocked
<1>2. ASSUME fresh[c] PROVE v = run /\ (pc[c] \in Reconciling => Active(run) # {})
  BY <1>2, FreshKnows DEF Known
<1>3. CASE BeginReconciling(c)
  <2>1. Moves(c, "inspect") \/ \E k \in Control : Commit(c, <<Observed(k)>>, "inspect")
    BY <1>3 DEF BeginReconciling, NextControl, ControlInv, ControlTyped
  <2>2. ASSUME NEW k \in Control, Commit(c, <<Observed(k)>>, "inspect") PROVE NamesInv'
    <3>1. fresh[c] => Active(run) # {}
      BY <1>2, <1>3 DEF BeginReconciling
    <3>2. Batch(<<Observed(k)>>, Steady, {k} \ {None}, {})
      BY SteadyEvents
    <3> QED  BY <1>1, <2>2, <3>1, <3>2, NamesStays
  <2> QED  BY <1>1, <2>1, <2>2, NamesGoesOn
<1>4. CASE RecoverBoundary(c)
  <2>1. \/ Moves(c, "continue")
        \/ \E k \in Control : Commit(c, BoundaryBatch(v, k, ctl[c] = None), "returning")
    BY <1>4 DEF RecoverBoundary, NextControl, ControlInv, ControlTyped
  <2>2. ASSUME NEW k \in Control, Commit(c, BoundaryBatch(v, k, ctl[c] = None), "returning")
        PROVE  NamesInv'
    <3> PICK batch : batch = BoundaryBatch(v, k, ctl[c] = None)
      OBVIOUS
    <3>1. PICK seen, done : Batch(batch, Closing, seen, done)
      BY BoundaryEvents
    <3>2. \/ Decides(batch)
          \/ v.status = "paused" /\ \E one : Batch(batch, Loud, one, {})
      BY BoundaryDecides
    <3>3. CASE Decides(batch)
      BY <1>1, <2>2, <3>1, <3>3, NamesStays
    <3>4. ASSUME v.status = "paused", NEW one, Batch(batch, Loud, one, {}) PROVE NamesInv'
      BY <1>1, <1>2, <2>2, <3>4, NamesStays
    <3> QED  BY <3>2, <3>3, <3>4
  <2> QED  BY <1>1, <2>1, <2>2, NamesGoesOn
<1>5. ASSUME NEW batch, Batch(batch, Steady, {}, {}), pc[c] \in Reconciling, Commit(c, batch, Blocked(c))
      PROVE  NamesInv'
  BY <1>1, <1>2, <1>5, NamesStays
<1>6. CASE Inspect(c)
  <2>1. Batch(<<RecoveryBlocked(v, n, "execution-unknown")>>, Steady, {}, {})
    BY SteadyEvents, PlainEvents
  <2>2. \/ Moves(c, "capture") \/ Moves(c, "terminate")
        \/ Commit(c, <<RecoveryBlocked(v, n, "execution-unknown")>>, Blocked(c))
    BY <1>6 DEF Inspect
  <2>3. pc[c] \in Reconciling
    BY <1>6 DEF Inspect, At, Reconciling
  <2> HIDE DEF n, v
  <2> QED  BY <1>1, <1>5, <2>1, <2>2, <2>3, NamesGoesOn
<1>7. CASE TerminateRecovered(c)
  <2> DEFINE cause == CauseOf(ctl[c])
             a == IF CleanupRecorded(v, n, cause) THEN <<>> ELSE <<Cleanup(v, n, cause, "unknown")>>
  <2>1. cause \in Cause
    BY CoordinatorConstants DEF CauseOf, Cause, ControlInv, ControlTyped
  <2>2. Batch(a, Steady, {}, {}) /\ Batch(<<RecoveryBlocked(v, n, "cleanup-unknown")>>, Steady, {}, {})
    <3>1. Plain(Cleanup(v, n, cause, "unknown"), Steady)
      BY <2>1, SteadyEvents DEF CleanupOutcome
    <3> QED  BY <3>1, SteadyEvents, NoEvent, PlainEvents
  <2>3. Moves(c, "capture") \/ Commit(c, a \o <<RecoveryBlocked(v, n, "cleanup-unknown")>>, Blocked(c))
    BY <1>7 DEF TerminateRecovered, CleanupUnknown
  <2>4. pc[c] \in Reconciling
    BY <1>7 DEF TerminateRecovered, At, Reconciling
  <2> HIDE DEF a, n, v
  <2>5. Batch(a \o <<RecoveryBlocked(v, n, "cleanup-unknown")>>, Steady, {}, {})
    BY <2>2, PlainThen
  <2> QED  BY <1>1, <1>5, <2>3, <2>4, <2>5, NamesGoesOn
<1> QED  BY <1>3, <1>4, <1>6, <1>7

\* The attempt that is lost is named as an orphan.
LEMMA OrphanEvent ==
    ASSUME NEW r \in Run, NEW n \in Node, NEW k, NEW differs,
           NEW s \in Applied(r, [type |-> "AttemptOrphaned", node |-> n, attempt |-> k,
                                 differs |-> differs])
    PROVE  n \in Orphaned(s)
<1> DEFINE e == [type |-> "AttemptOrphaned", node |-> n, attempt |-> k, differs |-> differs]
           a == [NodeOf(r, e).last EXCEPT !.status = "orphaned", !.differs = e.differs]
           node == [NodeOf(r, e) EXCEPT !.status = "running", !.last = a]
<1>1. r.nodes[n] \in NodeState /\ r.nodes[n].last \in Attempt /\ NodeOf(r, e) = r.nodes[n]
  BY DEF NodeOf, Run, NodeState
<1>2. s = Updated(r, e, node)
  BY DEF Applied, AttemptOrphaned, When
<1>3. a.status = "orphaned"
  BY <1>1 DEF Attempt
<1> HIDE DEF a
<1>4. node.status = "running" /\ node.last = a
  BY <1>1 DEF NodeState
<1>5. e.node = n
  OBVIOUS
<1> HIDE DEF node, e
<1>6. s.nodes[n] = node
  BY <1>2, <1>5 DEF Updated, Run
<1> QED  BY <1>3, <1>4, <1>6 DEF Orphaned

LEMMA OrphanNames ==
    ASSUME IInv, ControlInv, NamesInv, NEW c \in Coord, Orphan(c)
    PROVE  NamesInv'
<1> DEFINE v == view[c]
           n == First(Active(v))
           cause == CauseOf(ctl[c])
           e == [type |-> "AttemptOrphaned", node |-> n, attempt |-> v.nodes[n].attempts,
                 differs |-> Changed(n)]
           p == IF CleanupRecorded(v, n, cause) THEN <<>> ELSE <<Cleanup(v, n, cause, "confirmed")>>
           a == <<AttemptEvent(v, "ArtifactProduced", n)>> \o p
<1>1. pc[c] \in Reconciling /\ Commit(c, a \o <<e>>, "orphaned")
  BY DEF Orphan, At, Reconciling
<1>2. cause \in Cause
  BY CoordinatorConstants DEF CauseOf, Cause, ControlInv, ControlTyped
<1>3. Plain(e, Quiet)
  <2>1. Changed(n) \in BOOLEAN
    BY DEF Changed
  <2> QED  BY <2>1, TypedEvents
<1>4. Batch(<<AttemptEvent(v, "ArtifactProduced", n)>>, Quiet, {}, {}) /\ Batch(p, Quiet, {}, {})
  <2>1. Plain(AttemptEvent(v, "ArtifactProduced", n), Quiet)
    BY TypedEvents
  <2>2. Plain(Cleanup(v, n, cause, "confirmed"), Quiet)
    BY <1>2, TypedEvents DEF CleanupOutcome
  <2> QED  BY <2>1, <2>2, NoEvent, PlainEvents
<1>5. "orphaned" \notin Attempting \cup Choosing
  BY DEF Attempting, Choosing
<1>6. ASSUME NEW t \in Run, NEW s \in Applied(t, e), n \in Node PROVE n \in Orphaned(s)
  BY <1>6, OrphanEvent
<1> HIDE DEF e, p
<1>7. Batch(a, Quiet, {}, {})
  BY <1>4, PlainThen
<1> HIDE DEF a
<1>8. Batch(<<e>>, Quiet, {}, {})
  BY <1>3, PlainEvents
<1>9. Batch(a \o <<e>>, Quiet, {}, {}) /\ EndsIn(a \o <<e>>, e)
  BY <1>7, <1>8, PlainThen, EndOfOne, EndOfJoined
<1>10. ASSUME fresh[c], NEW s \in Materialized(run, a \o <<e>>) PROVE Names(s) /\ Placed("orphaned", s)
  <2>1. v = run /\ run \in Run /\ Active(run) # {}
    BY <1>1, <1>10, FreshKnows DEF Known
  <2>2. n \in Node
    BY <2>1, FirstIsMember DEF Active
  <2>3. PICK t \in Run : s \in Applied(t, e)
    BY <1>9, <1>10, <2>1, LastOfBatch
  <2> QED  BY <1>5, <1>6, <2>2, <2>3, Unplaced DEF Names
<1> QED  BY <1>1, <1>10, NamesCommit

-----------------------------------------------------------------------------
\* What a control makes of a node and its run, or of the whole run, decides its status.
LEMMA StoppingDecides ==
    ASSUME NEW v, NEW n, NEW k \in Control, NEW b,
           b = IF ActionOf[k] = "pause" THEN PauseBoth(n, "operator", k)
               ELSE CancelNodes(v) \o <<Cancelled(k)>>
    PROVE  Decides(b) /\ \E done : Batch(b, Closing, {}, done)
<1> PICK done : done = {k} \ {None}
  OBVIOUS
<1>1. /\ Batch(PauseBoth(n, "operator", k), Closing, {}, done)
      /\ Batch(<<Cancelled(k)>>, Closing, {}, done)
  <2>1. "operator" \in PauseKind
    BY DEF PauseKind
  <2> QED  BY <2>1, StoppingBatches, TypeSets
<1>2. Batch(CancelNodes(v), Closing, {}, {})
  BY NodeBatches, TypeSets
<1>3. Batch(CancelNodes(v) \o <<Cancelled(k)>>, Closing, {}, done)
  BY <1>1, <1>2, PlainThen
<1>4. Decides(CancelNodes(v) \o <<Cancelled(k)>>) /\ Decides(PauseBoth(n, "operator", k))
  BY <1>1, <1>2, Deciding, DecidesJoined
<1> QED  BY <1>1, <1>3, <1>4

\* The node of the lost attempt pauses, or is made schedulable with the run it blocked.
LEMMA ContinuingNames ==
    ASSUME IInv, ControlInv, NamesInv, NEW c \in Coord,
           FinishRecoveredControl(c) \/ ContinueOrphaned(c) \/ PreflightFailsOrphaned(c)
    PROVE  NamesInv'
<1> DEFINE v == view[c]
           n == NodeToContinue(c)
           ready == <<Because("NodeReady", n, "recovered")>>
<1>1. "continue" \notin Attempting \cup Choosing /\ "returning" \notin Attempting \cup Choosing
  BY DEF Attempting, Choosing
<1>2. ASSUME fresh[c] PROVE v = run
  BY <1>2, FreshKnows
<1>3. CASE FinishRecoveredControl(c)
  <2>1. ctl[c] \in Control
    BY <1>3 DEF FinishRecoveredControl, ControlInv, ControlTyped
  <2>2. PICK b : /\ Commit(c, b, "returning")
                 /\ b = IF ActionOf[ctl[c]] = "pause" THEN PauseBoth(orphan[c], "operator", ctl[c])
                        ELSE CancelNodes(v) \o <<Cancelled(ctl[c])>>
    BY <1>3 DEF FinishRecoveredControl
  <2>3. Decides(b) /\ \E done : Batch(b, Closing, {}, done)
    BY <2>1, <2>2, StoppingDecides
  <2> QED  BY <1>1, <2>2, <2>3, NamesStays
<1>4. CASE ContinueOrphaned(c) \/ PreflightFailsOrphaned(c)
  <2>1. PICK batch :
          /\ Commit(c, batch, "continue")
          /\ \/ \E reason \in PauseKind : batch = PauseBoth(n, reason, None)
             \/ batch = ready \o ResumeBlocked(v)
    BY <1>4 DEF ContinueOrphaned, PreflightFailsOrphaned, PreflightFailure, PauseKind
  <2>2. Plain(Because("NodeReady", n, "recovered"), Quiet) /\ Plain(Resumed, Closing)
    BY TypedEvents
  <2> HIDE DEF n
  <2>3. ASSUME NEW reason \in PauseKind, batch = PauseBoth(n, reason, None) PROVE NamesInv'
    <3>1. Batch(batch, Closing, {}, {}) /\ Decides(batch)
      BY <2>3, PausingEvents, Deciding
    <3> QED  BY <1>1, <2>1, <3>1, NamesStays
  <2>4. CASE batch = ready \o ResumeBlocked(v) /\ v.status = "recovery-blocked"
    <3>1. batch = ready \o <<Resumed>>
      BY <2>4 DEF ResumeBlocked
    <3>2. Batch(ready, Closing, {}, {}) /\ Batch(<<Resumed>>, Closing, {}, {})
      BY <2>2, PlainEvents, TypeSets, Wider
    <3> HIDE DEF ready
    <3>3. Batch(batch, Closing, {}, {}) /\ Decides(batch)
      BY <3>1, <3>2, PlainThen, Deciding, DecidesJoined
    <3> QED  BY <1>1, <2>1, <3>3, NamesStays
  <2>5. CASE batch = ready \o ResumeBlocked(v) /\ v.status # "recovery-blocked"
    <3>1. ResumeBlocked(v) = <<>>
      BY <2>5 DEF ResumeBlocked
    <3>2. Batch(ready, Quiet, {}, {}) /\ Batch(<<>>, Quiet, {}, {})
      BY <2>2, PlainEvents, NoEvent
    <3> HIDE DEF ready
    <3>3. Batch(batch, Quiet, {}, {})
      BY <2>5, <3>1, <3>2, PlainThen
    <3>4. Quiet \subseteq Loud
      BY DEF Quiet
    <3> QED  BY <1>1, <1>2, <2>1, <2>5, <3>3, <3>4, NamesStays
  <2> QED  BY <2>1, <2>3, <2>4, <2>5
<1> QED  BY <1>3, <1>4

\* The negotiation of the runtime leaves the nodes as they are.
LEMMA NegotiationKeeps ==
    ASSUME NEW r \in Run, NEW s \in Materialized(r, <<RunEvent("RuntimeNegotiated")>>)
    PROVE  s \in Run /\ s.nodes = r.nodes /\ s.status = r.status
<1> PICK e : e = RunEvent("RuntimeNegotiated")
  OBVIOUS
<1>1. Typed(e) /\ e.type = "RuntimeNegotiated"
  BY TypedEvents DEF RunEvent, Plain
<1>2. s \in Applied(r, e)
  BY Single
<1> QED  BY <1>1, <1>2, RunEffect DEF RunOnly, RunWide

\* A stopped run resumes, stays as it is or goes on, and its runtime is negotiated.
LEMMA ResumingNames ==
    ASSUME IInv, ControlInv, NamesInv, NEW c \in Coord,
           ResumePaused(c) \/ StayStopped(c) \/ ContinueRunning(c) \/ Negotiate(c)
    PROVE  NamesInv'
<1> DEFINE v == view[c]
           negotiated == <<RunEvent("RuntimeNegotiated")>>
<1>1. {"schedule", "returning", "resuming"} \cap (Attempting \cup Choosing) = {}
      /\ "prepare" \notin Attempting
  BY DEF Attempting, Choosing
<1>2. CASE ResumePaused(c)
  <2>1. Commit(c, ReadyBatch(PausedNodes(v), "resumed") \o <<Resumed>>, "schedule")
    BY <1>2 DEF ResumePaused
  <2>2. Batch(ReadyBatch(PausedNodes(v), "resumed"), Closing, {}, {}) /\ Batch(<<Resumed>>, Closing, {}, {})
    BY NodeBatches, TypeSets, TypedEvents, PlainEvents
  <2>3. PICK batch : batch = ReadyBatch(PausedNodes(v), "resumed") \o <<Resumed>>
    OBVIOUS
  <2>4. Batch(batch, Closing, {}, {}) /\ Decides(batch)
    BY <2>2, <2>3, PlainThen, Deciding, DecidesJoined
  <2> QED  BY <1>1, <2>1, <2>3, <2>4, NamesStays
<1>3. CASE StayStopped(c) \/ ContinueRunning(c)
  BY <1>1, <1>3, NamesGoesOn DEF StayStopped, ContinueRunning
<1>4. CASE Negotiate(c)
  <2>1. \/ pc[c] = "preflight" /\ Commit(c, negotiated, "prepare")
        \/ v.status = "paused" /\ Commit(c, negotiated, "resuming")
    BY <1>4 DEF Negotiate, At, MayResume
  <2> HIDE DEF negotiated
  <2>2. CASE pc[c] = "preflight" /\ Commit(c, negotiated, "prepare")
    <3>1. ASSUME fresh[c], NEW s \in Materialized(run, negotiated) PROVE Names(s) /\ Placed("prepare", s)
      <4>1. run \in Run /\ Names(run) /\ Ready(run) # {}
        BY <2>2, <3>1, FreshKnows DEF NamesInv, Placed, Choosing
      <4>2. s.nodes = run.nodes /\ s.status = run.status
        BY <3>1, <4>1, NegotiationKeeps DEF negotiated
      <4> QED  BY <1>1, <4>1, <4>2 DEF Names, Placed, Ready, Active, Orphaned
    <3> QED  BY <2>2, <3>1, NamesCommit
  <2>3. CASE v.status = "paused" /\ Commit(c, negotiated, "resuming")
    <3>1. Batch(negotiated, Quiet, {}, {})
      BY TypedEvents, PlainEvents DEF negotiated
    <3>2. fresh[c] => Quiet \subseteq Loud /\ run.status # "recovery-blocked"
      BY <2>3, FreshKnows DEF Quiet
    <3> QED  BY <1>1, <2>3, <3>1, <3>2, NamesStays
  <2> QED  BY <2>1, <2>2, <2>3
<1> QED  BY <1>2, <1>3, <1>4

-----------------------------------------------------------------------------
\* The nodes of a set that become ready leave one that is, if there is any.
LEMMA ReadyBatchReadies ==
    ASSUME NEW r \in Run, NEW S \in SUBSET Node, S # {}, NEW reason,
           NEW s \in Materialized(r, ReadyBatch(S, reason))
    PROVE  Ready(s) # {}
<1> PICK b : b = ReadyBatch(S, reason)
  OBVIOUS
<1>1. InOrder(S) \in Seq(S)
  BY InOrderMembers
<1>2. Len(InOrder(S)) \in Nat /\ Len(InOrder(S)) # 0
  <2>1. PICK n \in S : n \in Node
    OBVIOUS
  <2>2. \E i \in 1..Len(InOrder(S)) : InOrder(S)[i] = n
    BY <2>1, InOrderCovers
  <2> QED  BY <1>1, <2>2
<1>3. Batch(b, Quiet, {}, {})
  BY NodeBatches, TypeSets
<1>4. b = [i \in DOMAIN InOrder(S) |-> Because("NodeReady", InOrder(S)[i], reason)]
  BY DEF ReadyBatch, ForNodes
<1>5. Len(b) = Len(InOrder(S))
  <2>1. PICK Y : b \in Seq(Y)
    BY <1>3 DEF Batch
  <2>2. DOMAIN b = DOMAIN InOrder(S)
    BY <1>4
  <2>3. Len(b) \in Nat /\ DOMAIN b = 1..Len(b) /\ DOMAIN InOrder(S) = 1..Len(InOrder(S))
    BY <1>1, <2>1
  <2>4. 1..Len(b) = 1..Len(InOrder(S))
    BY <2>2, <2>3
  <2>5. ASSUME NEW x \in Nat, NEW y \in Nat, y # 0, 1..x = 1..y PROVE x = y
    <3>1. y \in 1..x
      BY <2>5
    <3>2. x \in 1..y
      BY <2>5, <3>1
    <3> QED  BY <3>1, <3>2
  <2> QED  BY <1>2, <2>3, <2>4, <2>5
<1>6. PICK n \in Node : n = InOrder(S)[Len(b)]
  <2>1. Len(b) \in 1..Len(InOrder(S))
    BY <1>2, <1>5
  <2> QED  BY <1>1, <2>1
<1> PICK e : e = Because("NodeReady", n, reason)
  OBVIOUS
<1>7. EndsIn(b, e)
  <2>1. Len(b) \in DOMAIN InOrder(S)
    BY <1>1, <1>2, <1>5
  <2>2. b[Len(b)] = Because("NodeReady", InOrder(S)[Len(b)], reason)
    BY <1>4, <2>1, Zenon
  <2> QED  BY <1>2, <1>5, <1>6, <2>2 DEF EndsIn
<1>8. PICK t \in Run : s \in Applied(t, e)
  BY <1>3, <1>7, LastOfBatch
<1>9. e.type = "NodeReady" /\ e.node = n
  BY DEF Because
<1>10. s = Updated(t, e, [NodeOf(t, e) EXCEPT !.status = "ready", !.pause = "none"])
  BY <1>8, <1>9 DEF Applied, NodeReady, When
<1>11. s.nodes[n].status = "ready"
  BY <1>9, <1>10 DEF Updated, NodeOf, Run, NodeState
<1> QED  BY <1>11 DEF Ready

\* A control at a boundary, the next node and its preflight.
LEMMA SchedulingNames ==
    ASSUME IInv, ControlInv, NamesInv, NEW c \in Coord,
           Boundary(c) \/ Schedule(c) \/ StopCoordinating(c) \/ Preflight(c)
    PROVE  NamesInv'
<1> DEFINE v == view[c]
<1>1. {"schedule", "returning"} \cap (Attempting \cup Choosing) = {} /\ Choosing \cap Attempting = {}
      /\ {"preflight", "prepare"} \subseteq Choosing
  BY DEF Attempting, Choosing
<1>2. ASSUME fresh[c] PROVE v = run /\ run \in Run /\ Names(run) /\ Placed(pc[c], run)
  BY <1>2, FreshKnows DEF NamesInv
<1>3. CASE Boundary(c)
  <2>1. PICK k \in pending : Commit(c, BoundaryBatch(v, k, TRUE), "schedule") /\ v.status = "running"
    BY <1>3 DEF Boundary
  <2>2. k \in Control
    BY DEF ControlInv, ControlTyped
  <2>3. PICK seen, done : Batch(BoundaryBatch(v, k, TRUE), Closing, seen, done)
    BY <2>2, BoundaryEvents
  <2>4. Decides(BoundaryBatch(v, k, TRUE))
    BY <2>1, <2>2, BoundaryDecides
  <2> QED  BY <1>1, <2>1, <2>3, <2>4, NamesStays
<1>4. CASE Schedule(c)
  <2>1. \/ Ready(v) # {} /\ Moves(c, "preflight")
        \/ Moves(c, "returning")
        \/ /\ Executable(v) # {} /\ v.status = "running"
           /\ Commit(c, ReadyBatch(Executable(v), "dependencies-satisfied"), "preflight")
    BY <1>4 DEF Schedule
  <2>2. CASE Moves(c, "returning")
    BY <1>1, <2>2, NamesGoesOn
  <2>3. CASE Ready(v) # {} /\ Moves(c, "preflight")
    <3>1. fresh[c] => Placed("preflight", run)
      BY <1>1, <1>2, <2>3 DEF Placed
    <3> QED  BY <2>3, <3>1, NamesGoesOn
  <2>4. CASE /\ Executable(v) # {} /\ v.status = "running"
             /\ Commit(c, ReadyBatch(Executable(v), "dependencies-satisfied"), "preflight")
    <3> PICK batch : batch = ReadyBatch(Executable(v), "dependencies-satisfied")
      OBVIOUS
    <3>1. Batch(batch, Quiet, {}, {}) /\ Quiet \subseteq Loud
      BY NodeBatches, TypeSets DEF Quiet
    <3>2. ASSUME fresh[c], NEW s \in Materialized(run, batch)
          PROVE  Names(s) /\ Placed("preflight", s)
      <4>1. Names(s)
        BY <1>2, <2>4, <3>1, <3>2, NamesKept
      <4>2. Executable(run) \in SUBSET Node
        BY DEF Executable
      <4>3. Ready(s) # {}
        BY <1>2, <2>4, <3>2, <4>2, ReadyBatchReadies
      <4> QED  BY <1>1, <4>1, <4>3 DEF Placed
    <3> QED  BY <2>4, <3>2, NamesCommit
  <2> QED  BY <2>1, <2>2, <2>3, <2>4
<1>5. CASE StopCoordinating(c)
  BY <1>1, <1>5, NamesGoesOn DEF StopCoordinating
<1>6. CASE Preflight(c)
  <2> DEFINE n == First(Ready(v))
  <2>1. \/ Commit(c, PauseBoth(n, "attempt-budget-exhausted", None), "schedule")
        \/ pc[c] = "preflight" /\ Moves(c, "prepare")
        \/ Commit(c, <<Paused(None)>>, "schedule")
    BY <1>6 DEF Preflight, At
  <2>2. \A batch \in {PauseBoth(n, "attempt-budget-exhausted", None), <<Paused(None)>>} :
           Batch(batch, Closing, {}, {}) /\ Decides(batch)
    BY PausingEvents, Deciding DEF PauseKind
  <2> HIDE DEF n
  <2>3. CASE pc[c] = "preflight" /\ Moves(c, "prepare")
    <3>1. fresh[c] => Placed("prepare", run)
      BY <1>1, <1>2, <2>3 DEF Placed
    <3> QED  BY <2>3, <3>1, NamesGoesOn
  <2> QED  BY <1>1, <2>1, <2>2, <2>3, NamesStays
<1> QED  BY <1>3, <1>4, <1>5, <1>6

-----------------------------------------------------------------------------
\* The attempt that is prepared, or started, is in hand.
LEMMA AttemptInHand ==
    ASSUME NEW r \in Run, NEW n \in Node, NEW e, e.node = n,
           e.type \in {"AttemptPrepared", "AttemptStartAuthorized"}, NEW s \in Applied(r, e)
    PROVE  n \in Active(s)
<1>1. r.nodes[n] \in NodeState /\ r.nodes[n].last \in Attempt /\ NodeOf(r, e) = r.nodes[n]
  BY DEF NodeOf, Run, NodeState
<1>2. CASE e.type = "AttemptPrepared"
  <2> DEFINE last == [NodeOf(r, e).last EXCEPT !.status = "prepared", !.plan = TRUE]
             node == [NodeOf(r, e) EXCEPT !.last = last]
  <2>1. s = Updated(r, e, node)
    BY <1>2 DEF Applied, AttemptPrepared, When, AttemptBecomes
  <2>2. last.status = "prepared"
    BY <1>1 DEF Attempt
  <2> HIDE DEF last
  <2>3. node.last = last
    BY <1>1 DEF NodeState
  <2> HIDE DEF node
  <2>4. s.nodes[n] = node
    BY <2>1 DEF Updated, Run
  <2> QED  BY <2>2, <2>3, <2>4 DEF Active
<1>3. CASE e.type = "AttemptStartAuthorized"
  <2> DEFINE last == [NodeOf(r, e).last EXCEPT !.status = "running"]
             node == [NodeOf(r, e) EXCEPT !.status = "running", !.last = last]
  <2>1. s = Updated(r, e, node)
    BY <1>3 DEF Applied, AttemptStartAuthorized, When, Started
  <2>2. last.status = "running"
    BY <1>1 DEF Attempt
  <2> HIDE DEF last
  <2>3. node.last = last
    BY <1>1 DEF NodeState
  <2> HIDE DEF node
  <2>4. s.nodes[n] = node
    BY <2>1 DEF Updated, Run
  <2> QED  BY <2>2, <2>3, <2>4 DEF Active
<1> QED  BY <1>2, <1>3

\* A commit of a run that is not blocked, whose last event takes an attempt in hand.
LEMMA InHandCommit ==
    ASSUME IInv, ControlInv, NamesInv, NEW c \in Coord, NEW batch, NEW next, Commit(c, batch, next),
           pc[c] \in Working, next \notin Choosing, Batch(batch, Loud, {}, {}),
           NEW e, EndsIn(batch, e), e.type \in {"AttemptPrepared", "AttemptStartAuthorized"},
           fresh[c] => e.node \in Node
    PROVE  NamesInv'
<1>1. ASSUME fresh[c], NEW s \in Materialized(run, batch) PROVE Names(s) /\ Placed(next, s)
  <2>1. run \in Run /\ Names(run) /\ run.status = "running"
    BY <1>1, FreshKnows DEF NamesInv
  <2>2. Names(s)
    BY <1>1, <2>1, NamesKept
  <2>3. PICK t \in Run : s \in Applied(t, e)
    BY <1>1, <2>1, LastOfBatch
  <2>4. e.node \in Active(s)
    BY <1>1, <2>3, AttemptInHand
  <2> QED  BY <2>2, <2>4 DEF Placed
<1> QED  BY <1>1, NamesCommit

\* prepareAttempt takes the first ready node; its start is authorized.
LEMMA AttemptNames ==
    ASSUME IInv, ControlInv, NamesInv, NEW c \in Coord, PrepareAttempt(c) \/ Authorize(c)
    PROVE  NamesInv'
<1> DEFINE v == view[c]
<1>1. ASSUME fresh[c] PROVE v = run /\ Placed(pc[c], run)
  BY <1>1, FreshKnows DEF NamesInv
<1>2. CASE PrepareAttempt(c)
  <2> DEFINE n == First(Ready(v))
             k == v.nodes[n].attempts + 1
             Numbered(type) == [type |-> type, node |-> n, attempt |-> k]
             batch == <<Numbered("AttemptScheduled"), Numbered("ArtifactProduced"),
                        Numbered("AttemptPrepared")>>
  <2>1. pc[c] = "prepare" /\ Commit(c, batch, "preparing")
    BY <1>2 DEF PrepareAttempt, At
  <2>2. ASSUME fresh[c] PROVE n \in Node
    <3>1. Ready(v) # {} /\ Ready(v) \in SUBSET Node
      BY <1>1, <2>1, <2>2 DEF Placed, Choosing, Ready
    <3> QED  BY <3>1, FirstIsMember
  <2>3. \A type \in Preparing : Plain(Numbered(type), Loud)
    <3>1. \A type \in Preparing : Typed(Numbered(type)) /\ Numbered(type).type = type
      BY DEF Preparing, Typed, RunWide, RunOnly, NodeOnly
    <3>2. Preparing \subseteq Loud \ (Asks \cup Answers)
      BY DEF Preparing, RunOnly, NodeOnly, Asks, Answers, Loud
    <3> QED  BY <3>1, <3>2 DEF Plain
  <2> HIDE DEF n, k
  <2>4. Numbered("AttemptPrepared").type = "AttemptPrepared" /\ Numbered("AttemptPrepared").node = n
    OBVIOUS
  <2> HIDE DEF Numbered
  <2>5. Batch(batch, Loud, {}, {})
    BY <2>3, PlainEvents DEF Preparing
  <2>6. EndsIn(batch, Numbered("AttemptPrepared"))
    BY DEF EndsIn
  <2>7. pc[c] \in Working /\ "preparing" \notin Choosing
    BY <2>1 DEF Working, Choosing
  <2> HIDE DEF batch
  <2> QED  BY <2>1, <2>2, <2>4, <2>5, <2>6, <2>7, InHandCommit
<1>3. CASE Authorize(c)
  <2> DEFINE n == First(Active(v))
             e == AttemptEvent(v, "AttemptStartAuthorized", n)
  <2>1. pc[c] = "preparing" /\ Commit(c, <<e>>, "starting")
    BY <1>3 DEF Authorize, At
  <2>2. ASSUME fresh[c] PROVE n \in Node
    <3>1. Active(v) # {} /\ Active(v) \in SUBSET Node
      BY <1>1, <2>1, <2>2 DEF Placed, Attempting, Active
    <3> QED  BY <3>1, FirstIsMember
  <2>3. Batch(<<e>>, Loud, {}, {})
    BY TypedEvents, PlainEvents
  <2>4. e.type = "AttemptStartAuthorized" /\ e.node = n
    BY DEF AttemptEvent
  <2>5. pc[c] \in Working /\ "starting" \notin Choosing
    BY <2>1, Places DEF Choosing
  <2> HIDE DEF e, n
  <2> QED  BY <2>1, <2>2, <2>3, <2>4, <2>5, EndOfOne, InHandCommit
<1> QED  BY <1>2, <1>3

\* It is driven; its deadline passes or a control is observed; it is collected or cancelled.
LEMMA DrivingNames ==
    ASSUME IInv, ControlInv, NamesInv, NEW c \in Coord,
           \/ Drive(c) \/ Collect(c) \/ ObserveControl(c) \/ RequestTimeout(c) \/ Cancel(c)
           \/ CancelUnconfirmed(c)
    PROVE  NamesInv'
<1> DEFINE v == view[c]
           n == First(Active(v))
<1>1. /\ {"finishing", "timedOut", "controlled", "schedule"} \cap (Attempting \cup Choosing) = {}
      /\ {"starting", "driving", "timeout", "control"} \subseteq Attempting
      /\ Attempting \cap Choosing = {}
  BY DEF Attempting, Choosing
<1>2. ASSUME fresh[c] PROVE run \in Run /\ Names(run) /\ Placed(pc[c], run)
  BY <1>2, FreshKnows DEF NamesInv
<1>3. ASSUME NEW next \in Attempting, pc[c] \in Attempting, Moves(c, next) PROVE NamesInv'
  <2>1. fresh[c] => Placed(next, run)
    BY <1>1, <1>2, <1>3 DEF Placed
  <2> QED  BY <1>3, <2>1, NamesGoesOn
<1>4. ASSUME NEW next, next \notin Choosing, pc[c] \in Attempting, NEW batch, NEW seen, NEW done,
             Batch(batch, Steady, seen, done), Commit(c, batch, next)
      PROVE  NamesInv'
  <2>1. ASSUME fresh[c], NEW s \in Materialized(run, batch) PROVE Names(s) /\ Placed(next, s)
    <3>1. run \in Run /\ Names(run) /\ Active(run) # {}
      BY <1>2, <1>4, <2>1 DEF Placed
    <3>2. Names(s) /\ SameWork(run, s)
      BY <1>4, <2>1, <3>1, NamesKept, SteadyBatch
    <3>3. Active(s) = Active(run)
      BY <3>2 DEF SameWork, Active
    <3> QED  BY <1>4, <3>1, <3>2, <3>3 DEF Placed
  <2> QED  BY <1>4, <2>1, NamesCommit
<1>5. CASE Drive(c)
  BY <1>1, <1>3, <1>5 DEF Drive, At
<1>6. CASE Collect(c) \/ Cancel(c)
  BY <1>1, <1>6, NamesGoesOn DEF Collect, Cancel
<1>7. CASE ObserveControl(c)
  <2>1. PICK k \in pending : pc[c] = "driving" /\ Commit(c, <<Observed(k)>>, "control")
    BY <1>7 DEF ObserveControl, At
  <2>2. k \in Control
    BY DEF ControlInv, ControlTyped
  <2>3. Batch(<<Observed(k)>>, Steady, {k} \ {None}, {})
    BY <2>2, SteadyEvents
  <2> QED  BY <1>1, <1>4, <2>1, <2>3
<1>8. CASE RequestTimeout(c)
  <2>1. pc[c] = "driving" /\ Commit(c, <<AttemptEvent(v, "AttemptTimeoutRequested", n)>>, "timeout")
    BY <1>8 DEF RequestTimeout, At
  <2>2. Batch(<<AttemptEvent(v, "AttemptTimeoutRequested", n)>>, Steady, {}, {})
    BY SteadyEvents, PlainEvents
  <2> HIDE DEF n
  <2> QED  BY <1>1, <1>4, <2>1, <2>2
<1>9. CASE CancelUnconfirmed(c)
  <2> DEFINE late == <<CancellationCompleted(v, n, "failed"), Cleanup(v, n, "timeout", "unknown")>>
             stuck == <<Cleanup(v, n, ActionOf[ctl[c]], "unknown")>>
             blocked == <<RecoveryBlocked(v, n, "cleanup-unknown")>>
  <2>1. \/ pc[c] = "timeout" /\ Commit(c, late \o blocked, "schedule")
        \/ pc[c] = "control" /\ Commit(c, stuck \o blocked, "schedule")
    BY <1>9 DEF CancelUnconfirmed, At
  <2>2. Batch(late, Steady, {}, {}) /\ Batch(blocked, Steady, {}, {})
    <3>1. /\ Plain(CancellationCompleted(v, n, "failed"), Steady)
          /\ Plain(Cleanup(v, n, "timeout", "unknown"), Steady)
          /\ Plain(RecoveryBlocked(v, n, "cleanup-unknown"), Steady)
      BY SteadyEvents DEF Cause, CleanupOutcome, CancellationOutcome
    <3> QED  BY <3>1, PlainEvents
  <2>3. ASSUME pc[c] = "control" PROVE Batch(stuck, Steady, {}, {})
    <3>1. pc[c] \in Controlling
      BY <2>3 DEF Controlling
    <3>2. fresh[c]
      BY <3>1 DEF IInv, ActingIsFresh, Acting, Executing, Controlling
    <3>3. ctl[c] # None
      BY <3>1, <3>2, FreshKnows DEF Known
    <3>4. ActionOf[ctl[c]] \in Cause
      BY <3>3, CoordinatorConstants DEF ControlInv, ControlTyped, Cause
    <3>5. Plain(Cleanup(v, n, ActionOf[ctl[c]], "unknown"), Steady)
      BY <3>4, SteadyEvents DEF CleanupOutcome
    <3> QED  BY <3>5, PlainEvents
  <2> HIDE DEF late, stuck, blocked
  <2>4. CASE pc[c] = "timeout" /\ Commit(c, late \o blocked, "schedule")
    <3>1. Batch(late \o blocked, Steady, {}, {})
      BY <2>2, PlainThen
    <3> QED  BY <1>1, <1>4, <2>4, <3>1
  <2>5. CASE pc[c] = "control" /\ Commit(c, stuck \o blocked, "schedule")
    <3>1. Batch(stuck \o blocked, Steady, {}, {})
      BY <2>2, <2>3, <2>5, PlainThen
    <3> QED  BY <1>1, <1>4, <2>5, <3>1
  <2> QED  BY <2>1, <2>4, <2>5
<1> QED  BY <1>5, <1>6, <1>7, <1>8, <1>9

-----------------------------------------------------------------------------
\* A failure decides the status of the run, or leaves it as it is for the retry.
LEMMA FailureDecides ==
    ASSUME NEW v, NEW n, NEW exhausted
    PROVE  \/ Decides(FailureBatch(v, n, exhausted))
           \/ Batch(FailureBatch(v, n, exhausted), Quiet, {}, {})
<1> PICK e : e = [type |-> "AttemptFailed", node |-> n, attempt |-> v.nodes[n].attempts,
                  exhausted |-> exhausted]
  OBVIOUS
<1> PICK failed, others, last :
      /\ failed = <<NodeEvent("NodeFailed", n)>> /\ others = BlockOthers(v, n)
      /\ last = <<[type |-> "RunCompleted", outcome |-> "failed"]>>
  OBVIOUS
<1> PICK retry, conflict : /\ retry = <<Because("NodeReady", n, "retry")>>
                           /\ conflict = PauseBoth(n, "workspace-conflict", None)
  OBVIOUS
<1>1. FailureBatch(v, n, exhausted) =
        <<e>> \o IF Changed(n) THEN conflict ELSE IF BudgetLeft(v, n) THEN retry ELSE failed \o others \o last
  BY DEF FailureBatch
<1>2. Batch(<<e>>, Quiet, {}, {}) /\ Batch(retry, Quiet, {}, {}) /\ Batch(failed, Quiet, {}, {})
      /\ Batch(others, Quiet, {}, {})
  <2>1. Plain(e, Quiet) /\ Plain(Because("NodeReady", n, "retry"), Quiet)
        /\ Plain(NodeEvent("NodeFailed", n), Quiet)
    BY TypedEvents
  <2> QED  BY <2>1, PlainEvents, NodeBatches, TypeSets
<1>3. Batch(last, Closing, {}, {}) /\ Batch(conflict, Closing, {}, {})
  <2>1. Plain([type |-> "RunCompleted", outcome |-> "failed"], Closing)
    BY TypedEvents
  <2> QED  BY <2>1, PlainEvents, PausingEvents DEF PauseKind
<1>4. Decides(last) /\ Decides(conflict)
  <2>1. [type |-> "RunCompleted", outcome |-> "failed"].type = "RunCompleted"
    OBVIOUS
  <2> QED  BY <2>1, DecidesOne, Deciding DEF RunWide
<1>5. CASE Changed(n)
  BY <1>1, <1>2, <1>3, <1>4, <1>5, DecidesJoined
<1>6. CASE ~Changed(n) /\ BudgetLeft(v, n)
  BY <1>1, <1>2, <1>6, PlainThen
<1>7. CASE ~Changed(n) /\ ~BudgetLeft(v, n)
  <2>1. Batch(failed \o others, Quiet, {}, {})
    BY <1>2, PlainThen
  <2>2. Batch(failed \o others, Closing, {}, {})
    BY <2>1, TypeSets, Wider
  <2>3. Decides(failed \o others \o last) /\ Batch(failed \o others \o last, Closing, {}, {})
    BY <1>3, <1>4, <2>2, DecidesJoined, PlainThen
  <2> QED  BY <1>1, <1>2, <1>7, <2>3, DecidesJoined
<1> QED  BY <1>5, <1>6, <1>7

\* The attempt ends, with the run or without; the nodes that wait for it become ready.
LEMMA EndingNames ==
    ASSUME IInv, ControlInv, NamesInv, NEW c \in Coord,
           \/ FinishActiveControl(c) \/ FinishExecution(c) \/ FinishTimeout(c) \/ ReadyDependents(c)
           \/ CompleteRun(c)
    PROVE  NamesInv'
<1> DEFINE v == view[c]
           n == First(Active(v))
           artifact == AttemptEvent(v, "ArtifactProduced", n)
           workspace == AttemptEvent(v, "WorkspaceObserved", n)
<1>1. {"schedule", "succeeded", "complete"} \cap (Attempting \cup Choosing) = {} /\ Quiet \subseteq Loud
  BY DEF Attempting, Choosing, Quiet
<1>2. pc[c] \in Working \cup Controlling
  BY Places DEF FinishActiveControl, FinishExecution, FinishTimeout, ReadyDependents, CompleteRun, At,
                Controlling
<1>3. fresh[c] => run.status # "recovery-blocked"
  BY <1>2, FreshKnows
<1>4. Plain(artifact, Quiet) /\ Plain(workspace, Quiet)
  BY TypedEvents
<1>5. ASSUME NEW batch, NEW next \in {"schedule", "succeeded", "complete"}, Commit(c, batch, next),
             NEW types, NEW seen, NEW done, Batch(batch, types, seen, done),
             Decides(batch) \/ Batch(batch, Quiet, seen, done)
      PROVE  NamesInv'
  <2>1. CASE Decides(batch)
    BY <1>1, <1>5, <2>1, NamesStays
  <2>2. CASE Batch(batch, Quiet, seen, done)
    BY <1>1, <1>3, <1>5, <2>2, NamesStays
  <2> QED  BY <1>5, <2>1, <2>2
<1>6. ASSUME NEW a, Batch(a, Quiet, {}, {}), NEW exhausted,
             Commit(c, a \o FailureBatch(v, n, exhausted), "schedule")
      PROVE  NamesInv'
  <2> PICK b : b = FailureBatch(v, n, exhausted)
    OBVIOUS
  <2>1. Batch(b, Closing, {}, {}) /\ (Decides(b) \/ Batch(b, Quiet, {}, {}))
    BY FailureEvents, FailureDecides
  <2>2. Batch(a, Closing, {}, {})
    BY <1>6, TypeSets, Wider
  <2>3. Batch(a \o b, Closing, {}, {}) /\ (Decides(a \o b) \/ Batch(a \o b, Quiet, {}, {}))
    BY <1>6, <2>1, <2>2, PlainThen, DecidesJoined
  <2> QED  BY <1>5, <1>6, <2>3
<1>7. CASE FinishActiveControl(c)
  <2> DEFINE a == <<artifact, workspace, Cleanup(v, n, ActionOf[ctl[c]], "confirmed"),
                    AttemptEvent(v, "AttemptCancelled", n)>>
  <2>1. pc[c] \in Controlling
    BY <1>7 DEF FinishActiveControl, At, Controlling
  <2>2. fresh[c]
    BY <2>1 DEF IInv, ActingIsFresh, Acting, Executing, Controlling
  <2>3. ctl[c] \in Control /\ ActionOf[ctl[c]] \in Cause
    <3>1. ctl[c] # None
      BY <2>1, <2>2, FreshKnows DEF Known
    <3> QED  BY <3>1, CoordinatorConstants DEF ControlInv, ControlTyped, Cause
  <2>4. PICK b : /\ Commit(c, a \o b, "schedule")
                 /\ b = IF ActionOf[ctl[c]] = "pause" THEN PauseBoth(n, "operator", ctl[c])
                        ELSE CancelNodes(v) \o <<Cancelled(ctl[c])>>
    BY <1>7 DEF FinishActiveControl
  <2>5. Decides(b) /\ \E done : Batch(b, Closing, {}, done)
    BY <2>3, <2>4, StoppingDecides
  <2>6. Batch(a, Quiet, {}, {})
    <3>1. Plain(Cleanup(v, n, ActionOf[ctl[c]], "confirmed"), Quiet)
          /\ Plain(AttemptEvent(v, "AttemptCancelled", n), Quiet)
      BY <2>3, TypedEvents DEF CleanupOutcome
    <3> HIDE DEF artifact, workspace, n
    <3> QED  BY <1>4, <3>1, PlainEvents
  <2> HIDE DEF a
  <2>7. Batch(a, Closing, {}, {})
    BY <2>6, TypeSets, Wider
  <2>8. Decides(a \o b) /\ \E done : Batch(a \o b, Closing, {}, done)
    BY <2>5, <2>7, PlainThen, DecidesJoined
  <2> QED  BY <1>5, <2>4, <2>8
<1>8. CASE FinishTimeout(c)
  <2> DEFINE a == <<CancellationCompleted(v, n, "succeeded"), Cleanup(v, n, "timeout", "confirmed"),
                    artifact, workspace>>
  <2>1. Commit(c, a \o FailureBatch(v, n, TRUE), "schedule")
    BY <1>8 DEF FinishTimeout
  <2>2. /\ Plain(CancellationCompleted(v, n, "succeeded"), Quiet)
        /\ Plain(Cleanup(v, n, "timeout", "confirmed"), Quiet)
    BY TypedEvents DEF Cause, CleanupOutcome, CancellationOutcome
  <2> HIDE DEF artifact, workspace
  <2>3. Batch(a, Quiet, {}, {})
    BY <1>4, <2>2, PlainEvents
  <2> HIDE DEF a
  <2> QED  BY <1>6, <2>1, <2>3
<1>9. CASE FinishExecution(c)
  <2> DEFINE evidence == <<artifact, workspace>>
             x(type) == AttemptEvent(v, type, n)
             succeeded == <<x("AttemptSucceeded"), NodeEvent("NodeSucceeded", n)>>
             blocked == <<x("AttemptBlocked"), NodeEvent("NodeBlocked", n)>>
             cancelled == <<x("AttemptCancelled")>>
             last == [type |-> "RunCancelled", durable |-> FALSE, control |-> None]
  <2>1. \/ Commit(c, evidence \o succeeded, "succeeded")
        \/ Commit(c, evidence \o FailureBatch(v, n, FALSE), "schedule")
        \/ Commit(c, evidence \o blocked \o BlockOthers(v, n) \o <<RunEvent("RunBlocked")>>, "schedule")
        \/ Commit(c, evidence \o cancelled \o CancelNodes(v) \o <<last>>, "schedule")
    BY <1>9 DEF FinishExecution
  <2>2. \A type \in {"AttemptSucceeded", "AttemptBlocked", "AttemptCancelled"} : Plain(x(type), Quiet)
    BY TypedEvents
  <2>3. Plain(NodeEvent("NodeSucceeded", n), Quiet) /\ Plain(NodeEvent("NodeBlocked", n), Quiet)
        /\ Plain(RunEvent("RunBlocked"), Halting)
    BY TypedEvents
  <2>4. /\ Batch(BlockOthers(v, n), Quiet, {}, {}) /\ Batch(CancelNodes(v), Quiet, {}, {})
    BY NodeBatches, TypeSets
  <2>5. Batch(<<last>>, Halting, {}, {}) /\ Decides(<<last>>) /\ Decides(<<RunEvent("RunBlocked")>>)
    <3>1. Typed(last) /\ last.type = "RunCancelled" /\ last.control = None
      BY DEF Typed, RunWide
    <3>2. NamedBy(last, Asks) = {} /\ NamedBy(last, Answers) = {} /\ last.type \in Halting
      BY <3>1, TypeSets DEF NamedBy, Asks, Answers
    <3> HIDE DEF last
    <3>3. Batch(<<last>>, Halting, NamedBy(last, Asks), NamedBy(last, Answers))
      BY <3>1, <3>2, OneEvent
    <3>4. Decides(<<last>>)
      BY <3>1, DecidesOne DEF RunWide
    <3> QED  BY <3>2, <3>3, <3>4, Deciding
  <2> HIDE DEF x, artifact, workspace, n, last
  <2>6. /\ Batch(evidence, Quiet, {}, {}) /\ Batch(succeeded, Quiet, {}, {})
        /\ Batch(blocked, Quiet, {}, {}) /\ Batch(cancelled, Quiet, {}, {})
        /\ Batch(<<RunEvent("RunBlocked")>>, Halting, {}, {})
    BY <1>4, <2>2, <2>3, PlainEvents
  <2> HIDE DEF evidence, succeeded, blocked, cancelled
  <2>7. CASE Commit(c, evidence \o succeeded, "succeeded")
    <3>1. Batch(evidence \o succeeded, Quiet, {}, {})
      BY <2>6, PlainThen
    <3> QED  BY <1>5, <2>7, <3>1
  <2>8. CASE Commit(c, evidence \o FailureBatch(v, n, FALSE), "schedule")
    BY <1>6, <2>6, <2>8
  <2>9. ASSUME NEW y, NEW z, NEW w, Batch(y, Quiet, {}, {}), Batch(z, Quiet, {}, {}),
               Batch(w, Halting, {}, {}), Decides(w), Commit(c, evidence \o y \o z \o w, "schedule")
        PROVE  NamesInv'
    <3>1. Batch((evidence \o y) \o z, Quiet, {}, {})
      BY <2>6, <2>9, PlainThen
    <3>2. Batch((evidence \o y) \o z, Halting, {}, {})
      BY <3>1, TypeSets, Wider
    <3>3. Batch(((evidence \o y) \o z) \o w, Halting, {}, {}) /\ Decides(((evidence \o y) \o z) \o w)
      BY <2>9, <3>2, PlainThen, DecidesJoined
    <3> QED  BY <1>5, <2>9, <3>3
  <2> QED  BY <2>1, <2>4, <2>5, <2>6, <2>7, <2>8, <2>9
<1>10. CASE ReadyDependents(c)
  <2>1. Batch(ReadyBatch(Executable(v), "dependencies-satisfied"), Quiet, {}, {})
    BY NodeBatches, TypeSets
  <2> QED  BY <1>5, <1>10, <2>1 DEF ReadyDependents
<1>11. CASE CompleteRun(c)
  <2> PICK e : e = [type |-> "RunCompleted", outcome |-> "succeeded"]
    OBVIOUS
  <2>1. Moves(c, "schedule") \/ Commit(c, <<e>>, "schedule")
    BY <1>11 DEF CompleteRun
  <2>2. Plain(e, Closing) /\ e.type = "RunCompleted"
    BY TypedEvents
  <2>3. Batch(<<e>>, Closing, {}, {}) /\ Decides(<<e>>)
    BY <2>2, PlainEvents, DecidesOne DEF RunWide
  <2> QED  BY <1>1, <1>5, <2>1, <2>3, NamesGoesOn
<1> QED  BY <1>7, <1>8, <1>9, <1>10, <1>11

-----------------------------------------------------------------------------
\* Every step leaves a blocked run with work it names.
LEMMA NamesInductive ==
    ASSUME IInv, ControlInv, NamesInv, [Next]_vars
    PROVE  NamesInv'
<1>1. {"loaded", "recover", "idle", "abandon", "failing"} \cap (Attempting \cup Choosing) = {}
  BY DEF Attempting, Choosing
<1>2. ASSUME NEW c \in Coord, Gone(c), UNCHANGED run PROVE NamesInv'
  <2>1. ASSUME NEW d \in Coord, fresh'[d] PROVE d # c /\ fresh[d] /\ pc'[d] = pc[d]
    BY <1>2, <2>1 DEF Gone, IInv, SessionTyped
  <2> QED  BY <1>2, <2>1 DEF NamesInv
<1>3. ASSUME NEW c \in Coord, Recovery(c) PROVE NamesInv'
  <2>1. CASE Load(c)
    <3>1. /\ UNCHANGED run /\ pc' = [pc EXCEPT ![c] = "loaded"]
          /\ fresh' = [fresh EXCEPT ![c] = TRUE]
      BY <2>1 DEF Load, store
    <3>2. ASSUME NEW d \in Coord, fresh'[d] PROVE Placed(pc'[d], run)
      <4>1. CASE d = c
        BY <1>1, <3>1, <4>1, Unplaced DEF IInv, SessionTyped
      <4>2. CASE d # c
        BY <3>1, <3>2, <4>2 DEF NamesInv, IInv, SessionTyped
      <4> QED  BY <4>1, <4>2
    <3> QED  BY <3>1, <3>2 DEF NamesInv
  <2>2. CASE Acquire(c)
    <3>1. UNCHANGED <<store, session>> /\ pc' = [pc EXCEPT ![c] = "recover"]
      BY <2>2 DEF Acquire
    <3> QED  BY <1>1, <3>1, Unplaced, NamesMoves
  <2>3. CASE Refused(c)
    BY <1>2, <2>3 DEF Refused, store
  <2> QED  BY <1>3, <2>1, <2>2, <2>3, ReconcilingNames, OrphanNames, ContinuingNames, ResumingNames
           DEF Recovery
<1>4. ASSUME NEW c \in Coord, Coordination(c) PROVE NamesInv'
  BY <1>4, SchedulingNames, AttemptNames, DrivingNames, EndingNames DEF Coordination
<1>5. ASSUME NEW c \in Coord, HostFails(c) \/ Abandon(c) \/ SessionFails(c) PROVE NamesInv'
  <2>1. \E place \in {"abandon", "failing"} : Moves(c, place)
    BY <1>5 DEF HostFails, Abandon, SessionFails
  <2> QED  BY <1>1, <2>1, NamesGoesOn
<1>6. ASSUME NEW c \in Coord, Release(c) \/ Crash(c) PROVE NamesInv'
  BY <1>2, <1>6 DEF Release, Crash, store
<1>7. CASE \/ \E k \in Control : SubmitControl(k)
           \/ \E e \in Execution : Host(e)
           \/ OperatorEdits
           \/ UNCHANGED vars
  <2>1. UNCHANGED <<run, session, pc>>
    BY <1>7 DEF SubmitControl, OperatorEdits, vars, store, Host, PrepareReturns, AuthorizeReturns,
                WorkerEnds, SupervisorStops, WorkerChangesWorkspace
  <2> QED  BY <2>1 DEF NamesInv, session
<1> QED  BY <1>3, <1>4, <1>5, <1>6, <1>7 DEF Next, End

\* A run starts out running, and its starter schedules.
LEMMA NamesInitially == Init => NamesInv
<1> SUFFICES ASSUME Init PROVE NamesInv
  OBVIOUS
<1>1. run.status = "running"
  BY DEF Init, InitialRun, CreatedRun
<1>2. \A c \in Coord : pc[c] \in {"schedule", "idle"}
  BY DEF Init
<1>3. {"schedule", "idle"} \cap (Attempting \cup Choosing) = {}
  BY DEF Attempting, Choosing
<1> QED  BY <1>1, <1>2, <1>3, Unplaced DEF NamesInv, Names

\* establishRecoveredAbsence, continueOrphaned: whoever blocks a run for recovery, and whatever session
\* or crash comes between, the run keeps an attempt to inspect or an orphan to continue; so no resume
\* finds it blocked over nothing.
THEOREM BlockedRunsNameWork == Spec => []BlockedRunNamesWork
<1>1. IInv /\ ControlInv /\ NamesInv /\ [Next]_vars => (IInv /\ ControlInv /\ NamesInv)'
  BY Inductive, ControlInductive, NamesInductive DEF ControlStep
<1>2. NamesInv => BlockedRunNamesWork
  BY DEF NamesInv, Names, BlockedRunNamesWork
<1> QED  BY <1>1, <1>2, Initially, ControlInitially, NamesInitially, PTL DEF Spec

-----------------------------------------------------------------------------
(* What a settled run leaves *)

\* A node that is done; one that is, or that another node's failure passes by.
Rests(r, n) == r.nodes[n].status \in SettledNode \cup {"blocked"}
Aside(r, n) == Rests(r, n) \/ n \in Orphaned(r) \cup Stranded(r)

\* No node was given up.
Hale(r) == \A n \in Node : r.nodes[n].status \notin {"failed", "blocked", "cancelled"}

\* A run settles with its nodes, and they with it.
Left(r) ==
    /\ r.status \in {"succeeded", "cancelled"} => \A n \in Node : Rests(r, n)
    /\ r.status \in {"failed", "blocked"} => \A n \in Node : Aside(r, n)
    /\ ~Settled(r.status) => Hale(r)

\* The events that end a node, and those that settle a run.
Resting == {"NodeSucceeded", "NodeFailed", "NodeBlocked", "NodeCancelled"}
Settling == {"RunBlocked", "RunCancelled", "RunCompleted"}
GivesUp == {"NodeFailed", "NodeBlocked", "NodeCancelled"}
Going == (Loud \cup RunWide) \ (Settling \cup GivesUp)
Mild == Quiet \ GivesUp

\* A node that is done stays so whatever happens; only NodeReady takes up one that was passed by.
LEMMA RestingEvent ==
    ASSUME NEW r \in Run, NEW e, Typed(e), NEW s \in Applied(r, e), NEW n \in Node
    PROVE  /\ Rests(r, n) \/ (e.type \in Resting /\ e.node = n) => Rests(s, n)
           /\ Aside(r, n) /\ e.type # "NodeReady" => Aside(s, n)
<1> USE DEF When
<1>1. ASSUME s.nodes[n].status = r.nodes[n].status, s.nodes[n].last.status = r.nodes[n].last.status
      PROVE  (Rests(r, n) => Rests(s, n)) /\ (Aside(r, n) => Aside(s, n))
  BY <1>1 DEF Rests, Aside, Orphaned, Stranded
<1>2. CASE e.type \in RunWide \cup RunOnly
  <2>1. s.nodes = r.nodes /\ e.type \notin Resting
    BY <1>2, RunEffect DEF Resting, RunWide, RunOnly
  <2> QED  BY <1>1, <2>1
<1>3. CASE e.type \in NodeOnly /\ e.node # n
  <2>1. PICK node : s = Updated(r, e, node)
    BY <1>3, NodeEffect DEF NodeMoves
  <2>2. s.nodes[n] = r.nodes[n]
    BY <1>3, <2>1 DEF Updated, Run
  <2> QED  BY <1>1, <1>3, <2>2
<1>4. CASE e.type \in NodeOnly /\ e.node = n
  <2> PICK old : old = NodeOf(r, e)
    OBVIOUS
  <2>1. old = r.nodes[n] /\ old \in NodeState /\ old.last \in Attempt
    BY <1>4 DEF NodeOf, Run, NodeState
  <2>2. ASSUME old.status = "ready" \/ (old.status = "running" /\ old.last.status # "orphaned")
        PROVE  ~Aside(r, n) /\ ~Rests(r, n)
    BY <2>1, <2>2 DEF Aside, Rests, Orphaned, Stranded, SettledNode
  <2>3. CASE e.type \in {"AttemptScheduled", "AttemptPrepared", "AttemptStartAuthorized", "AttemptStarted",
                         "RuntimeEventObserved", "AttemptTimeoutRequested", "AttemptSucceeded",
                         "AttemptBlocked", "AttemptCancelled", "AttemptFailed", "AttemptOrphaned"}
    <3>1. CASE e.type \in {"AttemptScheduled", "AttemptPrepared", "AttemptStartAuthorized", "AttemptStarted"}
      BY <1>4, <2>1, <2>2, <3>1 DEF Applied, AttemptScheduled, AttemptPrepared, AttemptStartAuthorized,
                              AttemptStarted, NodeIn, Resting
    <3>2. CASE e.type \in {"RuntimeEventObserved", "AttemptTimeoutRequested", "AttemptFailed",
                           "AttemptOrphaned"}
      BY <1>4, <2>1, <2>2, <3>2 DEF Applied, RuntimeEventObserved, AttemptTimeoutRequested, AttemptFailed,
                              AttemptOrphaned, NodeIn, CurrentAttempt, Resting
    <3>3. CASE e.type \in {"AttemptSucceeded", "AttemptBlocked", "AttemptCancelled"}
      BY <1>4, <2>1, <2>2, <3>3 DEF Applied, AttemptEnded, NodeIn, CurrentAttempt, Resting
    <3> QED  BY <2>3, <3>1, <3>2, <3>3
  <2>4. CASE e.type \in {"ExecutionCleanupObserved", "AttemptCancellationCompleted", "LateResultObserved"}
    <3> DEFINE last == old.last
    <3>1. \E a : s = AttemptBecomes(r, e, a) /\ a.status = last.status
      <4>1. CASE e.type = "ExecutionCleanupObserved"
        <5>1. s = AttemptBecomes(r, e, [last EXCEPT !.cleanup = @ \cup {<<e.cause, e.outcome>>}])
          BY <4>1 DEF Applied, ExecutionCleanupObserved
        <5>2. [last EXCEPT !.cleanup = @ \cup {<<e.cause, e.outcome>>}].status = last.status
          BY <2>1 DEF Attempt
        <5> QED  BY <5>1, <5>2
      <4>2. CASE e.type = "AttemptCancellationCompleted"
        <5>1. s = AttemptBecomes(r, e, [last EXCEPT !.timeout = e.outcome])
          BY <4>2 DEF Applied, AttemptCancellationCompleted
        <5>2. [last EXCEPT !.timeout = e.outcome].status = last.status
          BY <2>1 DEF Attempt
        <5> QED  BY <5>1, <5>2
      <4>3. CASE e.type = "LateResultObserved"
        <5>1. s = AttemptBecomes(r, e, [last EXCEPT !.late = TRUE])
          BY <4>3 DEF Applied, LateResultObserved
        <5>2. [last EXCEPT !.late = TRUE].status = last.status
          BY <2>1 DEF Attempt
        <5> QED  BY <5>1, <5>2
      <4> QED  BY <2>4, <4>1, <4>2, <4>3
    <3>2. PICK a : s = AttemptBecomes(r, e, a) /\ a.status = last.status
      BY <3>1
    <3> PICK node : node = [old EXCEPT !.last = a]
      OBVIOUS
    <3>3. node.status = old.status /\ node.last = a
      BY <2>1 DEF NodeState
    <3>4. s.nodes[n] = node
      BY <1>4, <3>2 DEF AttemptBecomes, Updated, Run
    <3>5. e.type \notin Resting
      BY <2>4 DEF Resting
    <3> QED  BY <1>1, <2>1, <3>2, <3>3, <3>4, <3>5
  <2>5. ASSUME NEW status, NEW pause, s = Updated(r, e, [old EXCEPT !.status = status, !.pause = pause])
        PROVE  s.nodes[n].status = status
    <3> PICK node : node = [old EXCEPT !.status = status, !.pause = pause]
      OBVIOUS
    <3>1. s.nodes[n] = node
      BY <1>4, <2>5 DEF Updated, Run
    <3>2. node.status = status
      BY <2>1 DEF NodeState
    <3> QED  BY <3>1, <3>2
  <2>6. \A status : [old EXCEPT !.status = status] = [old EXCEPT !.status = status, !.pause = old.pause]
    BY <2>1 DEF NodeState
  <2>7. CASE e.type \in Resting
    <3>1. PICK status \in SettledNode \cup {"blocked"} : s = Updated(r, e, [old EXCEPT !.status = status])
      BY <2>7 DEF Applied, NodeEnded, NodeBlocked, NodeCancelled, NodeBecomes, Resting, SettledNode
    <3>2. s.nodes[n].status = status
      BY <2>5, <2>6, <3>1
    <3> QED  BY <3>2 DEF Rests, Aside
  <2>8. CASE e.type = "NodeReady"
    <3>1. old.status \in {"pending", "paused", "running"}
      BY <2>8 DEF Applied, NodeReady, NodeIn
    <3> QED  BY <2>1, <2>8, <3>1 DEF Rests, SettledNode, Resting
  <2>9. CASE e.type = "NodePaused"
    <3>1. s \in NodePaused(r, e)
      BY <2>9 DEF Applied
    <3>2. NodeIn(r, e, {"pending", "ready", "running"})
      BY <3>1 DEF NodePaused, NodeIn
    <3>3. \/ s = Updated(r, e, [old EXCEPT !.status = "paused"])
          \/ s = Updated(r, e, [old EXCEPT !.status = "paused", !.pause = e.reason])
      BY <3>1 DEF NodePaused, NodeBecomes
    <3>4. PICK pause : s = Updated(r, e, [old EXCEPT !.status = "paused", !.pause = pause])
      BY <2>6, <3>3
    <3>5. s.nodes[n].status = "paused"
      BY <2>5, <3>4
    <3>6. old.status \in {"pending", "ready", "running"}
      BY <3>2 DEF NodeIn
    <3>7. ~Rests(r, n) /\ Aside(s, n) /\ e.type \notin Resting
      BY <2>1, <2>9, <3>5, <3>6 DEF Rests, Aside, Stranded, SettledNode, Resting
    <3> QED  BY <3>7
  <2> QED  BY <1>4, <2>3, <2>4, <2>7, <2>8, <2>9 DEF NodeOnly, Resting
<1> QED  BY <1>2, <1>3, <1>4 DEF Typed

\* So does a batch; one that ends a node leaves it done.
LEMMA RestingBatch ==
    ASSUME NEW r \in Run, NEW batch, NEW types, NEW seen, NEW done, Batch(batch, types, seen, done),
           NEW n \in Node, NEW s \in Materialized(r, batch)
    PROVE  /\ Rests(r, n) => Rests(s, n)
           /\ Aside(r, n) /\ "NodeReady" \notin types => Aside(s, n)
           /\ (\E e : Has(batch, e) /\ e.type \in Resting /\ e.node = n) => Rests(s, n)
<1>1. Len(batch) \in Nat
  BY DEF Batch
<1>2. ASSUME NEW k \in 1..Len(batch), NEW t \in Run, NEW u \in Applied(t, batch[k])
      PROVE  /\ u \in Run
             /\ Rests(t, n) \/ (batch[k].type \in Resting /\ batch[k].node = n) => Rests(u, n)
             /\ Aside(t, n) /\ "NodeReady" \notin types => Aside(u, n)
  <2> PICK e : e = batch[k]
    OBVIOUS
  <2>1. Typed(e) /\ e.type \in types
    BY DEF Batch
  <2> QED  BY <1>2, <2>1, EventEffect, RestingEvent
<1>3. ASSUME Rests(r, n) PROVE Rests(s, n)
  <2> DEFINE S == {t \in Run : Rests(t, n)}
  <2>1. r \in S /\ \A k \in 1..Len(batch) : \A t \in S : Applied(t, batch[k]) \subseteq S
    BY <1>2, <1>3
  <2> HIDE DEF S
  <2>2. s \in S
    BY <1>1, <2>1, BatchPreserves
  <2> QED  BY <2>2 DEF S
<1>4. ASSUME Aside(r, n), "NodeReady" \notin types PROVE Aside(s, n)
  <2> DEFINE S == {t \in Run : Aside(t, n)}
  <2>1. r \in S /\ \A k \in 1..Len(batch) : \A t \in S : Applied(t, batch[k]) \subseteq S
    BY <1>2, <1>4
  <2> HIDE DEF S
  <2>2. s \in S
    BY <1>1, <2>1, BatchPreserves
  <2> QED  BY <2>2 DEF S
<1>5. ASSUME NEW i \in 1..Len(batch), batch[i].type \in Resting, batch[i].node = n PROVE Rests(s, n)
  <2> DEFINE after == {t \in Run : Rests(t, n)}
             P == [k \in 0..Len(batch) |-> IF k < i THEN Run ELSE after]
  <2>1. r \in P[0]
    BY <1>1
  <2>2. ASSUME NEW k \in 1..Len(batch), NEW t \in P[k - 1] PROVE Applied(t, batch[k]) \subseteq P[k]
    <3>1. t \in Run /\ (~(k - 1 < i) => Rests(t, n))
      BY <1>1
    <3>2. CASE k < i
      <4>1. P[k] = Run
        BY <1>1, <3>2
      <4> HIDE DEF P
      <4> QED  BY <1>2, <3>1, <4>1
    <3>3. CASE ~(k < i)
      <4>1. P[k] = after
        BY <1>1, <3>3
      <4>2. k = i \/ ~(k - 1 < i)
        BY <1>1, <3>3
      <4> HIDE DEF P
      <4> QED  BY <1>2, <1>5, <3>1, <4>1, <4>2
    <3> QED  BY <3>2, <3>3
  <2>3. ~(Len(batch) < i) /\ Len(batch) \in 0..Len(batch)
    BY <1>1
  <2>4. Materialized(r, batch) \subseteq P[Len(batch)]
    <3> HIDE DEF P
    <3> QED  BY <1>1, <2>1, <2>2, StepsLead
  <2> QED  BY <2>3, <2>4
<1> QED  BY <1>3, <1>4, <1>5 DEF Has

\* Only the events that give a node up do.
LEMMA HaleEvent ==
    ASSUME NEW r \in Run, Hale(r), NEW e, Typed(e), e.type \notin GivesUp, NEW s \in Applied(r, e)
    PROVE  Hale(s)
<1> SUFFICES ASSUME NEW n \in Node PROVE s.nodes[n].status \notin {"failed", "blocked", "cancelled"}
  BY DEF Hale
<1> USE DEF When
<1>1. r.nodes[n].status \notin {"failed", "blocked", "cancelled"}
  BY DEF Hale
<1>2. CASE e.type \in RunWide \cup RunOnly
  <2>1. s.nodes = r.nodes
    BY <1>2, RunEffect
  <2> QED  BY <1>1, <2>1
<1>3. CASE e.type \in NodeOnly /\ e.node # n
  <2>1. PICK node : s = Updated(r, e, node)
    BY <1>3, NodeEffect DEF NodeMoves
  <2>2. s.nodes[n] = r.nodes[n]
    BY <1>3, <2>1 DEF Updated, Run
  <2> QED  BY <1>1, <2>2
<1>4. CASE e.type \in NodeOnly /\ e.node = n
  <2> PICK old : old = NodeOf(r, e)
    OBVIOUS
  <2>1. old = r.nodes[n] /\ old \in NodeState
    BY <1>4 DEF NodeOf, Run
  <2>2. ASSUME NEW node, s = Updated(r, e, node),
               node.status \in {old.status, "ready", "running", "paused", "succeeded"}
        PROVE  s.nodes[n].status \notin {"failed", "blocked", "cancelled"}
    <3>1. s.nodes[n] = node
      BY <1>4, <2>2 DEF Updated, Run
    <3> QED  BY <1>1, <2>1, <2>2, <3>1
  <2>3. \A last, attempts, pause, status :
           /\ [old EXCEPT !.last = last].status = old.status
           /\ [old EXCEPT !.attempts = attempts, !.last = last].status = old.status
           /\ [old EXCEPT !.status = status, !.last = last].status = status
           /\ [old EXCEPT !.status = status, !.pause = pause].status = status
           /\ [old EXCEPT !.status = status].status = status
    BY <2>1 DEF NodeState
  <2>4. CASE e.type \in {"AttemptPrepared", "RuntimeEventObserved", "AttemptTimeoutRequested",
                         "AttemptFailed", "AttemptSucceeded", "AttemptBlocked", "AttemptCancelled",
                         "ExecutionCleanupObserved", "AttemptCancellationCompleted", "LateResultObserved"}
    <3>1. PICK last : s = Updated(r, e, [old EXCEPT !.last = last])
      BY <2>4 DEF Applied, AttemptPrepared, RuntimeEventObserved, AttemptTimeoutRequested, AttemptFailed,
                  AttemptEnded, ExecutionCleanupObserved, AttemptCancellationCompleted, LateResultObserved,
                  AttemptBecomes
    <3> PICK node : node = [old EXCEPT !.last = last]
      OBVIOUS
    <3>2. s = Updated(r, e, node) /\ node.status = old.status
      BY <2>3, <3>1
    <3> QED  BY <2>2, <3>2
  <2>5. CASE e.type = "AttemptScheduled"
    <3>1. PICK last, attempts : s = Updated(r, e, [old EXCEPT !.attempts = attempts, !.last = last])
      BY <2>5 DEF Applied, AttemptScheduled
    <3> PICK node : node = [old EXCEPT !.attempts = attempts, !.last = last]
      OBVIOUS
    <3>2. s = Updated(r, e, node) /\ node.status = old.status
      BY <2>3, <3>1
    <3> QED  BY <2>2, <3>2
  <2>6. CASE e.type \in {"AttemptStartAuthorized", "AttemptStarted", "AttemptOrphaned"}
    <3>1. PICK last : s = Updated(r, e, [old EXCEPT !.status = "running", !.last = last])
      BY <2>6 DEF Applied, AttemptStartAuthorized, AttemptStarted, AttemptOrphaned, Started
    <3> PICK node : node = [old EXCEPT !.status = "running", !.last = last]
      OBVIOUS
    <3>2. s = Updated(r, e, node) /\ node.status = "running"
      BY <2>3, <3>1
    <3> QED  BY <2>2, <3>2
  <2>7. CASE e.type \in {"NodeReady", "NodePaused", "NodeSucceeded"}
    <3>1. \/ \E pause, status : /\ status \in {"ready", "paused"}
                                /\ s = Updated(r, e, [old EXCEPT !.status = status, !.pause = pause])
          \/ \E status \in {"paused", "succeeded"} : s = Updated(r, e, [old EXCEPT !.status = status])
      BY <2>7 DEF Applied, NodeReady, NodePaused, NodeEnded, NodeBecomes
    <3>2. ASSUME NEW pause, NEW status \in {"ready", "paused"},
                 s = Updated(r, e, [old EXCEPT !.status = status, !.pause = pause])
          PROVE  s.nodes[n].status \notin {"failed", "blocked", "cancelled"}
      <4> PICK node : node = [old EXCEPT !.status = status, !.pause = pause]
        OBVIOUS
      <4>1. s = Updated(r, e, node) /\ node.status = status
        BY <2>3, <3>2
      <4> QED  BY <2>2, <3>2, <4>1
    <3>3. ASSUME NEW status \in {"paused", "succeeded"}, s = Updated(r, e, [old EXCEPT !.status = status])
          PROVE  s.nodes[n].status \notin {"failed", "blocked", "cancelled"}
      <4> PICK node : node = [old EXCEPT !.status = status]
        OBVIOUS
      <4> QED  BY <2>2, <2>3, <3>3
    <3> QED  BY <3>1, <3>2, <3>3
  <2> QED  BY <1>4, <2>4, <2>5, <2>6, <2>7 DEF NodeOnly, GivesUp
<1> QED  BY <1>2, <1>3, <1>4 DEF Typed

\* An event of each node of a set is in the batch with an event for them all.
LEMMA EachHas ==
    ASSUME NEW b, NEW types, NEW seen, NEW done, Batch(b, types, seen, done), NEW i \in DOMAIN b
    PROVE  Has(b, b[i])
<1>1. DOMAIN b = 1..Len(b)
  <2>1. PICK Y : b \in Seq(Y)
    BY DEF Batch
  <2> QED  BY <2>1
<1> QED  BY <1>1, Zenon DEF Has

\* Every node of a set is listed in authored order.
LEMMA EachListed ==
    ASSUME NEW S, NEW n \in S \cap Node
    PROVE  \E i \in DOMAIN InOrder(S) : InOrder(S)[i] = n
<1>1. PICK i \in 1..Len(InOrder(S)) : InOrder(S)[i] = n
  BY InOrderCovers
<1>2. InOrder(S) \in Seq(S)
  BY InOrderMembers
<1> QED  BY <1>1, <1>2

\* A cancelled run cancels every node that is not settled; a run that stops blocks every other node
\* that waits.
LEMMA Covers ==
    ASSUME NEW v, NEW n \in Node, NEW m
    PROVE  /\ v.nodes[n].status \notin SettledNode =>
                 \E e : Has(CancelNodes(v), e) /\ e.type = "NodeCancelled" /\ e.node = n
           /\ n # m /\ v.nodes[n].status \in {"pending", "ready"} =>
                 \E e : Has(BlockOthers(v, m), e) /\ e.type = "NodeBlocked" /\ e.node = n
<1>1. ASSUME v.nodes[n].status \notin SettledNode
      PROVE  \E e : Has(CancelNodes(v), e) /\ e.type = "NodeCancelled" /\ e.node = n
  <2> PICK S : S = {x \in Node : v.nodes[x].status \notin SettledNode}
    OBVIOUS
  <2> PICK b : b = CancelNodes(v)
    OBVIOUS
  <2>1. n \in S \cap Node
    BY <1>1
  <2>2. b = [i \in DOMAIN InOrder(S) |-> NodeEvent("NodeCancelled", InOrder(S)[i])]
    BY DEF CancelNodes, ForNodes
  <2>3. Batch(b, Closing, {}, {})
    BY NodeBatches, TypeSets
  <2>4. DOMAIN b = DOMAIN InOrder(S)
    BY <2>2, Zenon
  <2>5. PICK i \in DOMAIN b : InOrder(S)[i] = n
    BY <2>1, <2>4, EachListed
  <2>6. b[i] = NodeEvent("NodeCancelled", n)
    BY <2>2, <2>4, <2>5, Zenon
  <2>7. NodeEvent("NodeCancelled", n).type = "NodeCancelled" /\ NodeEvent("NodeCancelled", n).node = n
    BY DEF NodeEvent
  <2>8. Has(b, b[i])
    BY <2>3, <2>5, EachHas
  <2> QED  BY <2>6, <2>7, <2>8
<1>2. ASSUME n # m, v.nodes[n].status \in {"pending", "ready"}
      PROVE  \E e : Has(BlockOthers(v, m), e) /\ e.type = "NodeBlocked" /\ e.node = n
  <2> PICK S : S = {x \in Node \ {m} : v.nodes[x].status \in {"pending", "ready"}}
    OBVIOUS
  <2> PICK b : b = BlockOthers(v, m)
    OBVIOUS
  <2>1. n \in S \cap Node
    BY <1>2
  <2>2. b = [i \in DOMAIN InOrder(S) |-> NodeEvent("NodeBlocked", InOrder(S)[i])]
    BY DEF BlockOthers, ForNodes
  <2>3. Batch(b, Closing, {}, {})
    BY NodeBatches, TypeSets
  <2>4. DOMAIN b = DOMAIN InOrder(S)
    BY <2>2, Zenon
  <2>5. PICK i \in DOMAIN b : InOrder(S)[i] = n
    BY <2>1, <2>4, EachListed
  <2>6. b[i] = NodeEvent("NodeBlocked", n)
    BY <2>2, <2>4, <2>5, Zenon
  <2>7. NodeEvent("NodeBlocked", n).type = "NodeBlocked" /\ NodeEvent("NodeBlocked", n).node = n
    BY DEF NodeEvent
  <2>8. Has(b, b[i])
    BY <2>3, <2>5, EachHas
  <2> QED  BY <2>6, <2>7, <2>8
<1> QED  BY <1>1, <1>2

-----------------------------------------------------------------------------
\* A batch that settles no run, or ends with the cancel of a control, which takes every node settled.
Keeps(batch) ==
    \E seen, done :
        \/ Batch(batch, Going, seen, done)
        \/ Batch(batch, Closing, seen, done) /\ \E k : EndsIn(batch, Cancelled(k))

\* The kinds of event of such a batch.
LEMMA GoingSets ==
    /\ Mild \subseteq Going /\ Steady \subseteq Going /\ Mild \subseteq Quiet /\ "NodeReady" \in Mild
    /\ {"NodePaused", "RunPaused", "RunResumed", "AttemptStartAuthorized"} \subseteq Going
    /\ Preparing \subseteq Going \ (Asks \cup Answers)
    /\ \A e : Plain(e, Closing) /\ e.type \notin Settling \cup GivesUp => Plain(e, Going)
    /\ \A e : Plain(e, Quiet) /\ e.type \notin GivesUp => Plain(e, Mild)
<1> USE DEF Mild, GivesUp, Quiet, Steady, Loud, Going, Settling, RunWide, RunOnly, NodeOnly, Starting
<1>1. Mild \subseteq Going /\ Steady \subseteq Going /\ Mild \subseteq Quiet /\ "NodeReady" \in Mild
  OBVIOUS
<1>2. /\ {"NodePaused", "RunPaused", "RunResumed", "AttemptStartAuthorized"} \subseteq Going
      /\ Preparing \subseteq Going \ (Asks \cup Answers)
  BY DEF Preparing, Asks, Answers
<1>3. \A e : Plain(e, Closing) /\ e.type \notin Settling \cup GivesUp => Plain(e, Going)
  BY DEF Plain, Closing, Halting
<1>4. \A e : Plain(e, Quiet) /\ e.type \notin GivesUp => Plain(e, Mild)
  BY DEF Plain
<1> QED  BY <1>1, <1>2, <1>3, <1>4

\* Those of the coordinator.
LEMMA MildEvents ==
    ASSUME NEW v, NEW n, NEW k, NEW x
    PROVE  /\ \A type \in {"ArtifactProduced", "WorkspaceObserved", "AttemptSucceeded", "AttemptBlocked",
                           "AttemptCancelled"} : Plain(AttemptEvent(v, type, n), Mild)
           /\ Plain(NodeEvent("NodeSucceeded", n), Mild)
           /\ \A reason : Plain(Because("NodeReady", n, reason), Mild)
           /\ \A cause \in Cause, outcome \in CleanupOutcome : Plain(Cleanup(v, n, cause, outcome), Mild)
           /\ \A outcome \in CancellationOutcome : Plain(CancellationCompleted(v, n, outcome), Mild)
           /\ Plain([type |-> "AttemptFailed", node |-> n, attempt |-> k, exhausted |-> x], Mild)
           /\ \A differs \in BOOLEAN :
                 Plain([type |-> "AttemptOrphaned", node |-> n, attempt |-> k, differs |-> differs], Mild)
           /\ Plain(RunEvent("RuntimeNegotiated"), Mild)
           /\ \A S, reason : Batch(ReadyBatch(S, reason), Mild, {}, {})
<1>1. \A e : Plain(e, Quiet) /\ e.type \notin GivesUp => Plain(e, Mild)
  BY GoingSets
<1> USE DEF GivesUp
<1>2. \A type \in {"ArtifactProduced", "WorkspaceObserved", "AttemptSucceeded", "AttemptBlocked",
                   "AttemptCancelled"} : Plain(AttemptEvent(v, type, n), Mild)
  <2>1. \A type : AttemptEvent(v, type, n).type = type
    BY DEF AttemptEvent
  <2> QED  BY <1>1, <2>1, TypedEvents
<1>3. Plain(NodeEvent("NodeSucceeded", n), Mild)
  <2>1. NodeEvent("NodeSucceeded", n).type = "NodeSucceeded"
    BY DEF NodeEvent
  <2> QED  BY <1>1, <2>1, TypedEvents
<1>4. \A reason : Plain(Because("NodeReady", n, reason), Mild)
  <2>1. \A reason : Because("NodeReady", n, reason).type = "NodeReady"
    BY DEF Because
  <2> QED  BY <1>1, <2>1, TypedEvents
<1>5. \A cause \in Cause, outcome \in CleanupOutcome : Plain(Cleanup(v, n, cause, outcome), Mild)
  <2>1. \A cause, outcome : Cleanup(v, n, cause, outcome).type = "ExecutionCleanupObserved"
    BY DEF Cleanup
  <2> QED  BY <1>1, <2>1, TypedEvents
<1>6. \A outcome \in CancellationOutcome : Plain(CancellationCompleted(v, n, outcome), Mild)
  <2>1. \A outcome : CancellationCompleted(v, n, outcome).type = "AttemptCancellationCompleted"
    BY DEF CancellationCompleted
  <2> QED  BY <1>1, <2>1, TypedEvents
<1>7. ASSUME NEW e, e = [type |-> "AttemptFailed", node |-> n, attempt |-> k, exhausted |-> x]
      PROVE  Plain(e, Mild)
  <2>1. Plain(e, Quiet) /\ e.type \notin GivesUp
    BY <1>7, TypedEvents
  <2> QED  BY <1>1, <2>1
<1>8. ASSUME NEW differs \in BOOLEAN,
             NEW e, e = [type |-> "AttemptOrphaned", node |-> n, attempt |-> k, differs |-> differs]
      PROVE  Plain(e, Mild)
  <2>1. Plain(e, Quiet) /\ e.type \notin GivesUp
    BY <1>8, TypedEvents
  <2> QED  BY <1>1, <2>1
<1>9. Plain(RunEvent("RuntimeNegotiated"), Mild)
  <2>1. RunEvent("RuntimeNegotiated").type = "RuntimeNegotiated"
    BY DEF RunEvent
  <2> QED  BY <1>1, <2>1, TypedEvents
<1>10. \A S, reason : Batch(ReadyBatch(S, reason), Mild, {}, {})
  BY NodeBatches, GoingSets
<1> QED  BY <1>2, <1>3, <1>4, <1>5, <1>6, <1>7, <1>8, <1>9, <1>10

\* The run it leaves has settled with its nodes, if it has.
LEMMA KeepsLeft ==
    ASSUME NEW r \in Run, ~Settled(r.status), Left(r), NEW batch, Keeps(batch),
           NEW s \in Materialized(r, batch)
    PROVE  s \in Run /\ Left(s)
<1>1. PICK seen, done :
        \/ Batch(batch, Going, seen, done)
        \/ Batch(batch, Closing, seen, done) /\ \E k : EndsIn(batch, Cancelled(k))
  BY DEF Keeps
<1>2. s \in Run
  BY <1>1, BatchEffect
<1>3. CASE Batch(batch, Going, seen, done)
  <2> DEFINE S == {t \in Run : ~Settled(t.status) /\ Hale(t)}
  <2>1. ASSUME NEW i \in 1..Len(batch), NEW t \in S, NEW u \in Applied(t, batch[i]) PROVE u \in S
    <3> PICK e : e = batch[i]
      OBVIOUS
    <3>1. Typed(e) /\ e.type \in Going
      BY <1>3 DEF Batch
    <3>2. u \in Run /\ (e.type \notin RunWide => u.status = t.status) /\ Hale(u)
      BY <2>1, <3>1, EventEffect, HaleEvent DEF Going
    <3>3. CASE e.type \in RunWide
      <4>1. e.type \in {"RunPaused", "RunResumed", "RunRecoveryBlocked"}
        BY <3>1, <3>3 DEF Going, Settling, RunWide
      <4>2. \E status \in {"paused", "running", "recovery-blocked"} : u = [t EXCEPT !.status = status]
        BY <2>1, <4>1 DEF Applied, When, RunPaused, RunResumed, RunRecoveryBlocked
      <4>3. u.status \in {"paused", "running", "recovery-blocked"}
        BY <2>1, <4>2 DEF Run
      <4> QED  BY <3>2, <4>3 DEF Settled, TerminalRun
    <3> QED  BY <2>1, <3>2, <3>3
  <2> HIDE DEF S
  <2>2. r \in S
    BY DEF S, Left
  <2>3. Len(batch) \in Nat
    BY <1>3 DEF Batch
  <2>4. s \in S
    BY <2>1, <2>2, <2>3, BatchPreserves
  <2> QED  BY <1>2, <2>4 DEF S, Left, Settled, TerminalRun
<1>4. ASSUME Batch(batch, Closing, seen, done), NEW k, EndsIn(batch, Cancelled(k)) PROVE Left(s)
  <2> PICK e : e = Cancelled(k)
    OBVIOUS
  <2>1. e.type = "RunCancelled" /\ e.durable
    BY DEF Cancelled
  <2>2. PICK t \in Run : s \in Applied(t, e)
    BY <1>4, LastOfBatch
  <2>3. (\A n \in Node : t.nodes[n].status \in SettledNode) /\ s = [t EXCEPT !.status = "cancelled"]
    BY <2>1, <2>2 DEF Applied, When, RunCancelled
  <2>4. s.nodes = t.nodes
    BY <2>3 DEF Run
  <2>5. s.status = "cancelled"
    BY <2>2, <2>3 DEF Run
  <2> QED  BY <2>3, <2>4, <2>5 DEF Left, Aside, Rests, Settled, TerminalRun
<1> QED  BY <1>1, <1>2, <1>3, <1>4

\* It does whatever comes first.
LEMMA KeepsJoined ==
    ASSUME NEW a, Batch(a, Mild, {}, {}) \/ Batch(a, Steady, {}, {}), NEW b, Keeps(b)
    PROVE  Keeps(a \o b)
<1>1. Batch(a, Going, {}, {})
  BY GoingSets, Wider
<1>2. PICK seen, done :
        \/ Batch(b, Going, seen, done)
        \/ Batch(b, Closing, seen, done) /\ \E k : EndsIn(b, Cancelled(k))
  BY DEF Keeps
<1>3. CASE Batch(b, Going, seen, done)
  BY <1>1, <1>3, PlainThen DEF Keeps
<1>4. ASSUME Batch(b, Closing, seen, done), NEW k, EndsIn(b, Cancelled(k)) PROVE Keeps(a \o b)
  <2>1. Mild \subseteq Closing /\ Steady \subseteq Closing
    BY TypeSets, GoingSets DEF Steady, Closing, Halting, Loud, RunOnly, NodeOnly, RunWide, Starting
  <2>2. Batch(a, Closing, {}, {})
    BY <2>1, Wider
  <2>3. Batch(a \o b, Closing, seen, done) /\ EndsIn(a \o b, Cancelled(k))
    BY <1>4, <2>2, PlainThen, EndOfJoined
  <2> QED  BY <2>3 DEF Keeps
<1> QED  BY <1>2, <1>3, <1>4

\* Events that settle nothing, a pause, a resume and a control that stops the run.
LEMMA KeepsEvents ==
    ASSUME NEW v, NEW n, NEW reason \in PauseKind, NEW k \in Control \cup {None}
    PROVE  /\ Keeps(PauseBoth(n, reason, k)) /\ Keeps(<<Paused(k)>>) /\ Keeps(<<Resumed>>) /\ Keeps(<<>>)
           /\ Keeps(CancelNodes(v) \o <<Cancelled(k)>>) /\ Keeps(<<Observed(k)>>)
           /\ \A batch, types : Batch(batch, types, {}, {}) /\ types \subseteq Going => Keeps(batch)
<1>1. \A batch, types : Batch(batch, types, {}, {}) /\ types \subseteq Going => Keeps(batch)
  BY Wider DEF Keeps
<1> PICK one : one = {k} \ {None}
  OBVIOUS
<1>2. Batch(PauseBoth(n, reason, k), Going, {}, one) /\ Batch(<<Paused(k)>>, Going, {}, one)
      /\ Batch(<<Observed(k)>>, Going, one, {})
  <2>1. "ControlRequestObserved" \in Going
    BY GoingSets DEF Steady
  <2> QED  BY <2>1, StoppingBatches, GoingSets
<1>3. Keeps(<<Resumed>>) /\ Keeps(<<>>)
  <2>1. Plain(Resumed, Closing) /\ Resumed.type = "RunResumed"
    BY TypedEvents DEF Resumed
  <2>2. Plain(Resumed, Going)
    BY <2>1, GoingSets DEF Settling, GivesUp
  <2> QED  BY <1>1, <2>2, PlainEvents, NoEvent
<1>4. Keeps(CancelNodes(v) \o <<Cancelled(k)>>)
  <2>1. Batch(CancelNodes(v), Closing, {}, {}) /\ Batch(<<Cancelled(k)>>, Closing, {}, one)
    BY NodeBatches, TypeSets, StoppingBatches
  <2>2. Batch(CancelNodes(v) \o <<Cancelled(k)>>, Closing, {}, one)
    BY <2>1, PlainThen
  <2>3. EndsIn(CancelNodes(v) \o <<Cancelled(k)>>, Cancelled(k))
    BY <2>1, EndOfOne, EndOfJoined
  <2> QED  BY <2>2, <2>3 DEF Keeps
<1> QED  BY <1>1, <1>2, <1>3, <1>4 DEF Keeps

-----------------------------------------------------------------------------
\* A commit of a batch that keeps the run going, or settles it with its nodes.
LEMMA LeftCommit ==
    ASSUME IInv, ControlInv, ~Settled(run.status), Left(run), NEW c \in Coord, NEW batch, NEW next,
           Commit(c, batch, next),
           Keeps(batch) \/ (fresh[c] => \A s \in Materialized(run, batch) : Left(s))
    PROVE  Left(run')
<1>1. ASSUME UNCHANGED store PROVE Left(run')
  BY <1>1 DEF store
<1>2. ASSUME fresh[c], run' \in Materialized(view[c], batch) PROVE Left(run')
  <2>1. view[c] = run /\ run \in Run
    BY <1>2, FreshKnows
  <2> QED  BY <1>2, <2>1, KeepsLeft
<1> QED  BY <1>1, <1>2, Zenon DEF Commit

\* A step that stores nothing.
LEMMA LeftMoves ==
    ASSUME Left(run), NEW c \in Coord, NEW next, Moves(c, next)
    PROVE  Left(run')
BY DEF Moves, store

\* What applies a control at a boundary.
LEMMA BoundaryKeeps ==
    ASSUME NEW v, NEW k \in Control, NEW observe \in BOOLEAN
    PROVE  Keeps(BoundaryBatch(v, k, observe))
<1> DEFINE a == IF observe THEN <<Observed(k)>> ELSE <<>>
           b == IF ActionOf[k] = "cancel" THEN CancelNodes(v) \o <<Cancelled(k)>>
                ELSE IF v.status # "paused" THEN <<Paused(k)>> ELSE <<>>
<1>1. PICK seen, done : Batch(BoundaryBatch(v, k, observe), Closing, seen, done)
  BY BoundaryEvents
<1>2. CASE ActionOf[k] = "cancel"
  BY <1>1, <1>2, BoundaryEvents DEF Keeps
<1>3. CASE ActionOf[k] # "cancel"
  <2>1. PICK one : one = {k} \ {None}
    OBVIOUS
  <2>2. /\ Batch(<<Observed(k)>>, Going, one, {}) /\ Batch(<<Paused(k)>>, Going, {}, one)
        /\ Batch(<<>>, Going, {}, {})
    <3>1. {"ControlRequestObserved", "RunPaused"} \subseteq Going /\ "operator" \in PauseKind
      BY GoingSets DEF Steady, PauseKind
    <3> QED  BY <2>1, <3>1, StoppingBatches, NoEvent
  <2>3. PICK sa, db : Batch(a, Going, sa, {}) /\ Batch(b, Going, {}, db)
    BY <1>3, <2>2
  <2> HIDE DEF a, b
  <2>4. Batch(a \o b, Going, sa \cup {}, {} \cup db)
    BY <2>3, Joined
  <2> QED  BY <2>4 DEF Keeps, BoundaryBatch, a, b
<1> QED  BY <1>2, <1>3

\* A recovered run is reconciled, or stops at once.
LEMMA ReconcilingLeaves ==
    ASSUME IInv, ControlInv, ~Settled(run.status), Left(run), NEW c \in Coord,
           BeginReconciling(c) \/ RecoverBoundary(c) \/ Inspect(c) \/ TerminateRecovered(c) \/ Orphan(c)
    PROVE  Left(run')
<1> DEFINE v == view[c]
           n == First(Active(v))
           cause == CauseOf(ctl[c])
<1>1. \A batch, next : Commit(c, batch, next) /\ Keeps(batch) => Left(run')
  BY LeftCommit
<1>2. (\E next : Moves(c, next)) => Left(run')
  BY LeftMoves
<1>3. CASE BeginReconciling(c)
  <2>1. Moves(c, "inspect") \/ \E k \in Control : Commit(c, <<Observed(k)>>, "inspect")
    BY <1>3 DEF BeginReconciling, NextControl, ControlInv, ControlTyped
  <2>2. \A k \in Control : Keeps(<<Observed(k)>>)
    BY KeepsEvents DEF PauseKind
  <2> QED  BY <1>1, <1>2, <2>1, <2>2
<1>4. CASE RecoverBoundary(c)
  <2>1. \/ Moves(c, "continue")
        \/ \E k \in Control : Commit(c, BoundaryBatch(v, k, ctl[c] = None), "returning")
    BY <1>4 DEF RecoverBoundary, NextControl, ControlInv, ControlTyped
  <2> QED  BY <1>1, <1>2, <2>1, BoundaryKeeps
<1>5. Keeps(<<>>) /\ \A batch : Batch(batch, Mild, {}, {}) \/ Batch(batch, Steady, {}, {}) => Keeps(batch)
  BY KeepsEvents, GoingSets DEF PauseKind
<1>6. cause \in Cause
  BY CoordinatorConstants DEF CauseOf, Cause, ControlInv, ControlTyped
<1>7. CASE Inspect(c)
  <2>1. Batch(<<RecoveryBlocked(v, n, "execution-unknown")>>, Steady, {}, {})
    BY SteadyEvents, PlainEvents
  <2>2. \/ Moves(c, "capture") \/ Moves(c, "terminate")
        \/ Commit(c, <<RecoveryBlocked(v, n, "execution-unknown")>>, Blocked(c))
    BY <1>7 DEF Inspect
  <2> HIDE DEF n, v
  <2> QED  BY <1>1, <1>2, <1>5, <2>1, <2>2
<1>8. CASE TerminateRecovered(c)
  <2> DEFINE a == IF CleanupRecorded(v, n, cause) THEN <<>> ELSE <<Cleanup(v, n, cause, "unknown")>>
  <2>1. Batch(a, Steady, {}, {}) /\ Batch(<<RecoveryBlocked(v, n, "cleanup-unknown")>>, Steady, {}, {})
    <3>1. Plain(Cleanup(v, n, cause, "unknown"), Steady)
      BY <1>6, SteadyEvents DEF CleanupOutcome
    <3> QED  BY <3>1, SteadyEvents, NoEvent, PlainEvents
  <2>2. Moves(c, "capture") \/ Commit(c, a \o <<RecoveryBlocked(v, n, "cleanup-unknown")>>, Blocked(c))
    BY <1>8 DEF TerminateRecovered, CleanupUnknown
  <2> HIDE DEF a, n, v
  <2>3. Batch(a \o <<RecoveryBlocked(v, n, "cleanup-unknown")>>, Steady, {}, {})
    BY <2>1, PlainThen
  <2> QED  BY <1>1, <1>2, <1>5, <2>2, <2>3
<1>9. CASE Orphan(c)
  <2> DEFINE e == [type |-> "AttemptOrphaned", node |-> n, attempt |-> v.nodes[n].attempts,
                   differs |-> Changed(n)]
             p == IF CleanupRecorded(v, n, cause) THEN <<>> ELSE <<Cleanup(v, n, cause, "confirmed")>>
             a == <<AttemptEvent(v, "ArtifactProduced", n)>>
  <2>1. Commit(c, a \o p \o <<e>>, "orphaned")
    BY <1>9 DEF Orphan
  <2>2. Plain(e, Mild)
    <3>1. Changed(n) \in BOOLEAN
      BY DEF Changed
    <3> QED  BY <3>1, MildEvents
  <2>3. Batch(a, Mild, {}, {}) /\ Batch(p, Mild, {}, {})
    <3>1. Plain(AttemptEvent(v, "ArtifactProduced", n), Mild)
      BY MildEvents
    <3>2. Plain(Cleanup(v, n, cause, "confirmed"), Mild)
      BY <1>6, MildEvents DEF CleanupOutcome
    <3> QED  BY <3>1, <3>2, NoEvent, PlainEvents
  <2> HIDE DEF e, p, a
  <2>4. Batch(<<e>>, Mild, {}, {})
    BY <2>2, PlainEvents
  <2>5. Batch(a \o p \o <<e>>, Mild, {}, {})
    BY <2>3, <2>4, PlainThen
  <2> QED  BY <1>1, <1>5, <2>1, <2>5
<1> QED  BY <1>3, <1>4, <1>7, <1>8, <1>9

\* The node of a lost attempt pauses, is schedulable again or is cancelled with the run; a stopped run
\* resumes, stays as it is or goes on.
LEMMA ContinuingLeaves ==
    ASSUME IInv, ControlInv, ~Settled(run.status), Left(run), NEW c \in Coord,
           \/ FinishRecoveredControl(c) \/ ContinueOrphaned(c) \/ PreflightFailsOrphaned(c)
           \/ ResumePaused(c) \/ StayStopped(c) \/ ContinueRunning(c) \/ Negotiate(c)
    PROVE  Left(run')
<1> DEFINE v == view[c]
           n == NodeToContinue(c)
           ready == <<Because("NodeReady", n, "recovered")>>
<1>1. \A batch, next : Commit(c, batch, next) /\ Keeps(batch) => Left(run')
  BY LeftCommit
<1>2. (\E next : Moves(c, next)) => Left(run')
  BY LeftMoves
<1>3. \A batch : Batch(batch, Mild, {}, {}) => Keeps(batch)
  BY KeepsEvents, GoingSets DEF PauseKind
<1>4. Keeps(<<Resumed>>) /\ Keeps(<<>>) /\ None \in Control \cup {None}
      /\ \A m : \A reason \in PauseKind, k \in Control \cup {None} :
            Keeps(PauseBoth(m, reason, k)) /\ Keeps(CancelNodes(v) \o <<Cancelled(k)>>)
  BY KeepsEvents DEF PauseKind
<1>5. CASE FinishRecoveredControl(c)
  <2>1. ctl[c] \in Control /\ "operator" \in PauseKind
    BY <1>5 DEF FinishRecoveredControl, ControlInv, ControlTyped, PauseKind
  <2>2. PICK b : /\ Commit(c, b, "returning")
                 /\ \/ b = PauseBoth(orphan[c], "operator", ctl[c])
                    \/ b = CancelNodes(v) \o <<Cancelled(ctl[c])>>
    BY <1>5 DEF FinishRecoveredControl
  <2> QED  BY <1>1, <1>4, <2>1, <2>2
<1>6. CASE ContinueOrphaned(c) \/ PreflightFailsOrphaned(c)
  <2>1. PICK batch :
          /\ Commit(c, batch, "continue")
          /\ \/ \E reason \in PauseKind : batch = PauseBoth(n, reason, None)
             \/ batch = ready \o ResumeBlocked(v)
    BY <1>6 DEF ContinueOrphaned, PreflightFailsOrphaned, PreflightFailure, PauseKind
  <2>2. Batch(ready, Mild, {}, {})
    <3>1. Plain(Because("NodeReady", n, "recovered"), Mild)
      BY MildEvents
    <3> QED  BY <3>1, PlainEvents
  <2>3. Keeps(ResumeBlocked(v))
    BY <1>4 DEF ResumeBlocked
  <2> HIDE DEF n, ready
  <2>4. Keeps(ready \o ResumeBlocked(v))
    BY <2>2, <2>3, KeepsJoined
  <2> QED  BY <1>1, <1>4, <2>1, <2>4
<1>7. CASE ResumePaused(c)
  <2>1. Commit(c, ReadyBatch(PausedNodes(v), "resumed") \o <<Resumed>>, "schedule")
    BY <1>7 DEF ResumePaused
  <2>2. Batch(ReadyBatch(PausedNodes(v), "resumed"), Mild, {}, {})
    BY MildEvents
  <2>3. Keeps(ReadyBatch(PausedNodes(v), "resumed") \o <<Resumed>>)
    BY <1>4, <2>2, KeepsJoined
  <2> QED  BY <1>1, <2>1, <2>3
<1>8. CASE StayStopped(c) \/ ContinueRunning(c)
  BY <1>2, <1>8 DEF StayStopped, ContinueRunning
<1>9. CASE Negotiate(c)
  <2>1. \E next : Commit(c, <<RunEvent("RuntimeNegotiated")>>, next)
    BY <1>9 DEF Negotiate
  <2>2. Batch(<<RunEvent("RuntimeNegotiated")>>, Mild, {}, {})
    BY MildEvents, PlainEvents
  <2> QED  BY <1>1, <1>3, <2>1, <2>2
<1> QED  BY <1>5, <1>6, <1>7, <1>8, <1>9

\* A control at a boundary, the next node and its preflight; its attempt is prepared and started.
LEMMA SchedulingLeaves ==
    ASSUME IInv, ControlInv, ~Settled(run.status), Left(run), NEW c \in Coord,
           \/ Boundary(c) \/ Schedule(c) \/ StopCoordinating(c) \/ Preflight(c) \/ PrepareAttempt(c)
           \/ Authorize(c)
    PROVE  Left(run')
<1> DEFINE v == view[c]
<1>1. \A batch, next : Commit(c, batch, next) /\ Keeps(batch) => Left(run')
  BY LeftCommit
<1>2. (\E next : Moves(c, next)) => Left(run')
  BY LeftMoves
<1>3. \A batch : Batch(batch, Mild, {}, {}) \/ Batch(batch, Going, {}, {}) => Keeps(batch)
  BY KeepsEvents, GoingSets DEF PauseKind
<1>4. CASE Boundary(c)
  <2>1. PICK k \in pending : Commit(c, BoundaryBatch(v, k, TRUE), "schedule")
    BY <1>4 DEF Boundary
  <2>2. k \in Control
    BY DEF ControlInv, ControlTyped
  <2> QED  BY <1>1, <2>1, <2>2, BoundaryKeeps
<1>5. CASE Schedule(c)
  <2>1. \/ \E next : Moves(c, next)
        \/ Commit(c, ReadyBatch(Executable(v), "dependencies-satisfied"), "preflight")
    BY <1>5 DEF Schedule
  <2>2. Batch(ReadyBatch(Executable(v), "dependencies-satisfied"), Mild, {}, {})
    BY MildEvents
  <2> QED  BY <1>1, <1>2, <1>3, <2>1, <2>2
<1>6. CASE StopCoordinating(c)
  BY <1>2, <1>6 DEF StopCoordinating
<1>7. CASE Preflight(c)
  <2> DEFINE n == First(Ready(v))
  <2>1. \/ Commit(c, PauseBoth(n, "attempt-budget-exhausted", None), "schedule")
        \/ Moves(c, "prepare")
        \/ Commit(c, <<Paused(None)>>, "schedule")
    BY <1>7 DEF Preflight
  <2>2. Keeps(PauseBoth(n, "attempt-budget-exhausted", None)) /\ Keeps(<<Paused(None)>>)
    BY KeepsEvents DEF PauseKind
  <2> HIDE DEF n
  <2> QED  BY <1>1, <1>2, <2>1, <2>2
<1>8. CASE PrepareAttempt(c)
  <2> DEFINE n == First(Ready(v))
             k == v.nodes[n].attempts + 1
             Numbered(type) == [type |-> type, node |-> n, attempt |-> k]
             batch == <<Numbered("AttemptScheduled"), Numbered("ArtifactProduced"),
                        Numbered("AttemptPrepared")>>
  <2>1. Commit(c, batch, "preparing")
    BY <1>8 DEF PrepareAttempt
  <2>2. \A type \in Preparing : Plain(Numbered(type), Going)
    <3>1. \A type \in Preparing : Typed(Numbered(type)) /\ Numbered(type).type = type
      BY DEF Preparing, Typed, RunWide, RunOnly, NodeOnly
    <3>2. Preparing \subseteq Going \ (Asks \cup Answers)
      BY GoingSets
    <3> QED  BY <3>1, <3>2 DEF Plain
  <2> HIDE DEF n, k, Numbered
  <2>3. Batch(batch, Going, {}, {})
    BY <2>2, PlainEvents DEF Preparing
  <2> HIDE DEF batch
  <2> QED  BY <1>1, <1>3, <2>1, <2>3
<1>9. CASE Authorize(c)
  <2> DEFINE e == AttemptEvent(v, "AttemptStartAuthorized", First(Active(v)))
  <2>1. Commit(c, <<e>>, "starting")
    BY <1>9 DEF Authorize
  <2>2. Plain(e, Going)
    <3>1. Typed(e) /\ e.type = "AttemptStartAuthorized"
      BY TypedEvents DEF Plain, AttemptEvent
    <3>2. e.type \in Going \ (Asks \cup Answers)
      BY <3>1, GoingSets DEF Asks, Answers
    <3> QED  BY <3>1, <3>2 DEF Plain
  <2>3. Batch(<<e>>, Going, {}, {})
    BY <2>2, PlainEvents
  <2> HIDE DEF e
  <2> QED  BY <1>1, <1>3, <2>1, <2>3
<1> QED  BY <1>4, <1>5, <1>6, <1>7, <1>8, <1>9

\* It is driven; its deadline passes or a control is observed; it is collected or cancelled, and may
\* pause or be cancelled with the run.
LEMMA DrivingLeaves ==
    ASSUME IInv, ControlInv, ~Settled(run.status), Left(run), NEW c \in Coord,
           \/ Drive(c) \/ Collect(c) \/ ObserveControl(c) \/ RequestTimeout(c) \/ Cancel(c)
           \/ CancelUnconfirmed(c) \/ FinishActiveControl(c) \/ ReadyDependents(c)
    PROVE  Left(run')
<1> DEFINE v == view[c]
           n == First(Active(v))
<1>1. \A batch, next : Commit(c, batch, next) /\ Keeps(batch) => Left(run')
  BY LeftCommit
<1>2. (\E next : Moves(c, next)) => Left(run')
  BY LeftMoves
<1>3. \A batch : Batch(batch, Mild, {}, {}) \/ Batch(batch, Steady, {}, {}) => Keeps(batch)
  BY KeepsEvents, GoingSets DEF PauseKind
<1>4. ASSUME pc[c] \in Controlling PROVE ctl[c] \in Control /\ ActionOf[ctl[c]] \in Cause
  <2>1. fresh[c]
    BY <1>4 DEF IInv, ActingIsFresh, Acting, Executing, Controlling
  <2>2. ctl[c] # None
    BY <1>4, <2>1, FreshKnows DEF Known
  <2> QED  BY <2>2, CoordinatorConstants DEF ControlInv, ControlTyped, Cause
<1>5. CASE Drive(c) \/ Collect(c) \/ Cancel(c)
  BY <1>2, <1>5 DEF Drive, Collect, Cancel
<1>6. CASE ObserveControl(c)
  <2>1. PICK k \in pending : Commit(c, <<Observed(k)>>, "control")
    BY <1>6 DEF ObserveControl
  <2>2. k \in Control
    BY DEF ControlInv, ControlTyped
  <2>3. Keeps(<<Observed(k)>>)
    BY <2>2, KeepsEvents DEF PauseKind
  <2> QED  BY <1>1, <2>1, <2>3
<1>7. CASE RequestTimeout(c)
  <2>1. Commit(c, <<AttemptEvent(v, "AttemptTimeoutRequested", n)>>, "timeout")
    BY <1>7 DEF RequestTimeout
  <2>2. Batch(<<AttemptEvent(v, "AttemptTimeoutRequested", n)>>, Steady, {}, {})
    BY SteadyEvents, PlainEvents
  <2> HIDE DEF n
  <2> QED  BY <1>1, <1>3, <2>1, <2>2
<1>8. CASE CancelUnconfirmed(c)
  <2> DEFINE late == <<CancellationCompleted(v, n, "failed"), Cleanup(v, n, "timeout", "unknown")>>
             stuck == <<Cleanup(v, n, ActionOf[ctl[c]], "unknown")>>
             blocked == <<RecoveryBlocked(v, n, "cleanup-unknown")>>
  <2>1. \/ Commit(c, late \o blocked, "schedule")
        \/ pc[c] \in Controlling /\ Commit(c, stuck \o blocked, "schedule")
    BY <1>8 DEF CancelUnconfirmed, At, Controlling
  <2>2. Batch(late, Steady, {}, {}) /\ Batch(blocked, Steady, {}, {})
    <3>1. /\ Plain(CancellationCompleted(v, n, "failed"), Steady)
          /\ Plain(Cleanup(v, n, "timeout", "unknown"), Steady)
          /\ Plain(RecoveryBlocked(v, n, "cleanup-unknown"), Steady)
      BY SteadyEvents DEF Cause, CleanupOutcome, CancellationOutcome
    <3> QED  BY <3>1, PlainEvents
  <2>3. ASSUME pc[c] \in Controlling PROVE Batch(stuck, Steady, {}, {})
    <3>1. Plain(Cleanup(v, n, ActionOf[ctl[c]], "unknown"), Steady)
      BY <1>4, <2>3, SteadyEvents DEF CleanupOutcome
    <3> QED  BY <3>1, PlainEvents
  <2> HIDE DEF late, stuck, blocked
  <2>4. Keeps(late \o blocked) /\ (pc[c] \in Controlling => Keeps(stuck \o blocked))
    BY <1>3, <2>2, <2>3, KeepsJoined
  <2> QED  BY <1>1, <2>1, <2>4
<1>9. CASE FinishActiveControl(c)
  <2> DEFINE a == <<AttemptEvent(v, "ArtifactProduced", n), AttemptEvent(v, "WorkspaceObserved", n),
                    Cleanup(v, n, ActionOf[ctl[c]], "confirmed"), AttemptEvent(v, "AttemptCancelled", n)>>
  <2>1. ctl[c] \in Control /\ ActionOf[ctl[c]] \in Cause
    BY <1>4, <1>9 DEF FinishActiveControl, At, Controlling
  <2>2. PICK b : /\ Commit(c, a \o b, "schedule")
                 /\ \/ b = PauseBoth(n, "operator", ctl[c])
                    \/ b = CancelNodes(v) \o <<Cancelled(ctl[c])>>
    BY <1>9 DEF FinishActiveControl
  <2>3. Keeps(PauseBoth(n, "operator", ctl[c])) /\ Keeps(CancelNodes(v) \o <<Cancelled(ctl[c])>>)
    BY <2>1, KeepsEvents DEF PauseKind
  <2>4. Batch(a, Mild, {}, {})
    <3>1. /\ Plain(AttemptEvent(v, "ArtifactProduced", n), Mild)
          /\ Plain(AttemptEvent(v, "WorkspaceObserved", n), Mild)
          /\ Plain(Cleanup(v, n, ActionOf[ctl[c]], "confirmed"), Mild)
          /\ Plain(AttemptEvent(v, "AttemptCancelled", n), Mild)
      BY <2>1, MildEvents DEF CleanupOutcome
    <3> HIDE DEF n
    <3> QED  BY <3>1, PlainEvents
  <2> HIDE DEF a
  <2>5. Keeps(a \o b)
    BY <2>2, <2>3, <2>4, KeepsJoined
  <2> QED  BY <1>1, <2>2, <2>5
<1>10. CASE ReadyDependents(c)
  <2>1. Batch(ReadyBatch(Executable(v), "dependencies-satisfied"), Mild, {}, {})
    BY MildEvents
  <2> QED  BY <1>1, <1>3, <1>10, <2>1 DEF ReadyDependents
<1> QED  BY <1>5, <1>6, <1>7, <1>8, <1>9, <1>10

-----------------------------------------------------------------------------
\* The events of a run that stops make no node ready.
Ceasing == (Loud \cup RunWide) \ {"NodeReady"}
Proving == Mild \ {"NodeReady"}

\* A batch that blocks whatever waits beside a node it ends, and the run with them.
Stops(batch, r, n) ==
    /\ Batch(batch, Ceasing, {}, {})
    /\ \A m \in Node \ {n} :
          r.nodes[m].status \in {"pending", "ready"} =>
              \E e : Has(batch, e) /\ e.type = "NodeBlocked" /\ e.node = m
    /\ \E e : Has(batch, e) /\ e.type \in Resting /\ e.node = n
    /\ \E e : /\ EndsIn(batch, e)
              /\ e.type = "RunBlocked" \/ (e.type = "RunCompleted" /\ e.outcome = "failed")

\* How the kinds of event relate, and which of the coordinator's are of them.
LEMMA CeasingEvents ==
    ASSUME NEW v, NEW n
    PROVE  /\ Proving \subseteq Ceasing /\ Proving \subseteq Mild /\ "NodeReady" \notin Ceasing
           /\ "NodeBlocked" \in Ceasing
           /\ \A type \in {"ArtifactProduced", "WorkspaceObserved", "AttemptSucceeded", "AttemptBlocked",
                           "AttemptCancelled"} : Plain(AttemptEvent(v, type, n), Proving)
           /\ Plain(NodeEvent("NodeSucceeded", n), Proving)
           /\ \A type \in {"NodeFailed", "NodeBlocked"} :
                 Plain(NodeEvent(type, n), Ceasing) /\ NodeEvent(type, n).type = type
                 /\ NodeEvent(type, n).node = n
           /\ Plain(CancellationCompleted(v, n, "succeeded"), Proving)
           /\ Plain(Cleanup(v, n, "timeout", "confirmed"), Proving)
           /\ \A x : Plain([type |-> "AttemptFailed", node |-> n, attempt |-> v.nodes[n].attempts,
                            exhausted |-> x], Proving)
           /\ Plain(RunEvent("RunBlocked"), Ceasing) /\ RunEvent("RunBlocked").type = "RunBlocked"
           /\ Plain([type |-> "RunCompleted", outcome |-> "failed"], Ceasing)
<1>1. /\ Proving \subseteq Ceasing /\ Proving \subseteq Mild /\ "NodeReady" \notin Ceasing
      /\ "NodeBlocked" \in Ceasing
  BY TypeSets DEF Proving, Ceasing, Mild, Quiet
<1>2. \A e : Plain(e, Mild) /\ e.type # "NodeReady" => Plain(e, Proving)
  BY DEF Plain, Proving
<1>3. \A e : Plain(e, Halting) /\ e.type # "NodeReady" => Plain(e, Ceasing)
  BY DEF Plain, Halting, Ceasing
<1>4. \A type \in {"ArtifactProduced", "WorkspaceObserved", "AttemptSucceeded", "AttemptBlocked",
                   "AttemptCancelled"} : Plain(AttemptEvent(v, type, n), Proving)
  <2>1. \A type : AttemptEvent(v, type, n).type = type
    BY DEF AttemptEvent
  <2> QED  BY <1>2, <2>1, MildEvents
<1>5. /\ Plain(NodeEvent("NodeSucceeded", n), Proving)
      /\ \A type \in {"NodeFailed", "NodeBlocked"} :
            Plain(NodeEvent(type, n), Ceasing) /\ NodeEvent(type, n).type = type
            /\ NodeEvent(type, n).node = n
  <2>1. \A type : NodeEvent(type, n).type = type /\ NodeEvent(type, n).node = n
    BY DEF NodeEvent
  <2>2. \A e : Plain(e, Quiet) => Plain(e, Halting)
    BY TypeSets, Wider
  <2>3. \A type \in {"NodeFailed", "NodeBlocked"} : Plain(NodeEvent(type, n), Halting)
    BY <2>2, TypedEvents
  <2>4. Plain(NodeEvent("NodeSucceeded", n), Proving)
    <3>1. Plain(NodeEvent("NodeSucceeded", n), Mild)
      BY MildEvents
    <3> QED  BY <1>2, <2>1, <3>1
  <2>5. \A type \in {"NodeFailed", "NodeBlocked"} : Plain(NodeEvent(type, n), Ceasing)
    BY <1>3, <2>1, <2>3
  <2> QED  BY <2>1, <2>4, <2>5
<1>6. /\ Plain(CancellationCompleted(v, n, "succeeded"), Proving)
      /\ Plain(Cleanup(v, n, "timeout", "confirmed"), Proving)
  <2>1. CancellationCompleted(v, n, "succeeded").type # "NodeReady"
        /\ Cleanup(v, n, "timeout", "confirmed").type # "NodeReady"
    BY DEF CancellationCompleted, Cleanup
  <2> QED  BY <1>2, <2>1, MildEvents DEF Cause, CleanupOutcome, CancellationOutcome
<1>7. ASSUME NEW x, NEW e, e = [type |-> "AttemptFailed", node |-> n, attempt |-> v.nodes[n].attempts,
                                exhausted |-> x]
      PROVE  Plain(e, Proving)
  <2>1. Plain(e, Mild) /\ e.type # "NodeReady"
    BY <1>7, MildEvents
  <2> QED  BY <1>2, <2>1
<1>8. Plain(RunEvent("RunBlocked"), Ceasing) /\ RunEvent("RunBlocked").type = "RunBlocked"
  <2>1. RunEvent("RunBlocked").type = "RunBlocked"
    BY DEF RunEvent
  <2> QED  BY <1>3, <2>1, TypedEvents
<1>9. Plain([type |-> "RunCompleted", outcome |-> "failed"], Ceasing)
  <2> PICK e : e = [type |-> "RunCompleted", outcome |-> "failed"]
    OBVIOUS
  <2>1. Plain(e, Closing) /\ e.type # "NodeReady"
    BY TypedEvents
  <2>2. Plain(e, Halting)
    BY <2>1, TypeSets, Wider
  <2> QED  BY <1>3, <2>1, <2>2
<1> QED  BY <1>1, <1>4, <1>5, <1>6, <1>7, <1>8, <1>9

\* It does so whatever comes first.
LEMMA StopsJoined ==
    ASSUME NEW a, Batch(a, Proving, {}, {}), NEW b, NEW r, NEW n, Stops(b, r, n)
    PROVE  Stops(a \o b, r, n)
<1>1. Batch(a, Ceasing, {}, {}) /\ Batch(b, Ceasing, {}, {})
  BY CeasingEvents, Wider DEF Stops
<1>2. Batch(a \o b, Ceasing, {}, {})
  BY <1>1, PlainThen
<1>3. \A e : Has(b, e) => Has(a \o b, e)
  BY <1>1, HasJoined
<1>4. \A e : EndsIn(b, e) => EndsIn(a \o b, e)
  BY <1>1, EndOfJoined
<1>5. PICK c : c = a \o b
  OBVIOUS
<1> QED  BY <1>2, <1>3, <1>4, <1>5 DEF Stops

\* blockedNodePayloads after what ends a node, and the event that ends the run.
LEMMA StoppingBatch ==
    ASSUME NEW r, NEW n, NEW a, Batch(a, Ceasing, {}, {}),
           NEW x, Has(a, x), x.type \in Resting, x.node = n, NEW last, Plain(last, Ceasing),
           last.type = "RunBlocked" \/ (last.type = "RunCompleted" /\ last.outcome = "failed")
    PROVE  Stops(a \o BlockOthers(r, n) \o <<last>>, r, n)
<1> PICK b, e : b = BlockOthers(r, n) /\ e = <<last>>
  OBVIOUS
<1>1. Batch(a, Ceasing, {}, {}) /\ Batch(b, Ceasing, {}, {}) /\ Batch(e, Ceasing, {}, {})
  BY CeasingEvents, Wider, NodeBatches, PlainEvents
<1>2. Batch(a \o b, Ceasing, {}, {})
  BY <1>1, PlainThen
<1>3. Batch(a \o b \o e, Ceasing, {}, {})
  BY <1>1, <1>2, PlainThen
<1>4. \A y : Has(a, y) \/ Has(b, y) => Has(a \o b \o e, y)
  BY <1>1, <1>2, HasJoined
<1>5. EndsIn(a \o b \o e, last)
  BY <1>1, <1>2, EndOfOne, EndOfJoined
<1>6. \A m \in Node \ {n} : r.nodes[m].status \in {"pending", "ready"} =>
         \E y : Has(b, y) /\ y.type = "NodeBlocked" /\ y.node = m
  BY Covers
<1> PICK all : all = a \o b \o e
  OBVIOUS
<1>7. Stops(all, r, n)
  BY <1>3, <1>4, <1>5, <1>6 DEF Stops
<1> QED  BY <1>7

\* The run it leaves has put every node aside: what does not run has ended or waits for nobody.
LEMMA StopsLeft ==
    ASSUME NEW r \in Run, RunSound(r), NEW batch, Stops(batch, r, First(Active(r))),
           NEW s \in Materialized(r, batch)
    PROVE  Left(s)
<1> PICK n : n = First(Active(r))
  OBVIOUS
<1>1. Batch(batch, Ceasing, {}, {}) /\ "NodeReady" \notin Ceasing
  BY CeasingEvents DEF Stops
<1>2. ASSUME NEW m \in Node PROVE Aside(s, m)
  <2>1. Rests(s, m) => Aside(s, m)
    BY DEF Aside
  <2>2. CASE m = n
    <3>1. \E e : Has(batch, e) /\ e.type \in Resting /\ e.node = m
      BY <2>2 DEF Stops
    <3> QED  BY <1>1, <2>1, <3>1, RestingBatch
  <2>3. CASE m # n /\ r.nodes[m].status \in {"pending", "ready"}
    <3>1. \E e : Has(batch, e) /\ e.type \in Resting /\ e.node = m
      BY <2>3 DEF Stops, Resting
    <3> QED  BY <1>1, <2>1, <3>1, RestingBatch
  <2>4. CASE m # n /\ r.nodes[m].status \notin {"pending", "ready"}
    <3>1. m \notin Runs(r) /\ Parted(r, m)
      BY <2>4 DEF RunSound
    <3>2. r.nodes[m].status \in NodeStatus
      BY DEF Run, NodeState
    <3>3. Aside(r, m)
      BY <2>4, <3>1, <3>2 DEF Aside, Rests, Parted, Orphaned, Stranded, SettledNode, NodeStatus
    <3> QED  BY <1>1, <3>3, RestingBatch
  <2> QED  BY <2>2, <2>3, <2>4
<1>3. s.status \in {"blocked", "failed"}
  <2>1. PICK e : /\ EndsIn(batch, e)
                 /\ e.type = "RunBlocked" \/ (e.type = "RunCompleted" /\ e.outcome = "failed")
    BY DEF Stops
  <2>2. PICK t \in Run : s \in Applied(t, e)
    BY <1>1, <2>1, LastOfBatch
  <2>3. \E status \in {"blocked", "failed"} : s = [t EXCEPT !.status = status]
    BY <2>1, <2>2 DEF Applied, When, RunBlocked, RunCompleted
  <2>4. s.status \in {"blocked", "failed"}
    BY <2>3 DEF Run
  <2> QED  BY <2>4
<1> QED  BY <1>2, <1>3 DEF Left, Settled, TerminalRun

\* A run that is cancelled without a control cancels every node that is not settled.
LEMMA CancelledLeft ==
    ASSUME NEW r \in Run, NEW a, NEW last, Batch(a, Quiet, {}, {}), Batch(<<last>>, Halting, {}, {}),
           last.type = "RunCancelled", NEW s \in Materialized(r, a \o CancelNodes(r) \o <<last>>)
    PROVE  Left(s)
<1> PICK b, e : b = CancelNodes(r) /\ e = <<last>>
  OBVIOUS
<1>1. Batch(a, Halting, {}, {}) /\ Batch(b, Halting, {}, {}) /\ Batch(e, Halting, {}, {})
  BY TypeSets, Wider, NodeBatches
<1>2. Batch(a \o b, Halting, {}, {})
  BY <1>1, PlainThen
<1>3. Batch(a \o b \o e, Halting, {}, {})
  BY <1>1, <1>2, PlainThen
<1>4. \A y : Has(b, y) => Has(a \o b \o e, y)
  BY <1>1, <1>2, HasJoined
<1>5. ASSUME NEW m \in Node PROVE Rests(s, m)
  <2>1. CASE r.nodes[m].status \in SettledNode
    <3>1. Rests(r, m)
      BY <2>1 DEF Rests
    <3> QED  BY <1>3, <3>1, RestingBatch
  <2>2. CASE r.nodes[m].status \notin SettledNode
    <3>1. PICK y : Has(b, y) /\ y.type = "NodeCancelled" /\ y.node = m
      <4> PICK others : others = BlockOthers(r, m)
        OBVIOUS
      <4>1. \E y : Has(CancelNodes(r), y) /\ y.type = "NodeCancelled" /\ y.node = m
        BY <2>2, Covers
      <4> QED  BY <4>1
    <3>2. \E z : Has(a \o b \o e, z) /\ z.type \in Resting /\ z.node = m
      BY <1>4, <3>1 DEF Resting
    <3> QED  BY <1>3, <3>2, RestingBatch
  <2> QED  BY <2>1, <2>2
<1>6. s.status = "cancelled"
  <2>1. EndsIn(a \o b \o e, last)
    BY <1>1, <1>2, EndOfOne, EndOfJoined
  <2>2. PICK t \in Run : s \in Applied(t, last)
    BY <1>3, <2>1, LastOfBatch
  <2>3. s = [t EXCEPT !.status = "cancelled"]
    BY <2>2 DEF Applied, When, RunCancelled
  <2> QED  BY <2>2, <2>3 DEF Run
<1> QED  BY <1>5, <1>6 DEF Left, Aside, Settled, TerminalRun

\* A failure pauses its node and run, retries, or ends the run.
LEMMA FailureLeaves ==
    ASSUME IInv, ControlInv, WorkInv, ~Settled(run.status), Left(run), NEW c \in Coord, NEW n,
           n = First(Active(view[c])), NEW a, Batch(a, Proving, {}, {}), NEW exhausted,
           Commit(c, a \o FailureBatch(view[c], n, exhausted), "schedule")
    PROVE  Left(run')
<1> PICK v : v = view[c]
  OBVIOUS
<1> PICK e, last : /\ e = [type |-> "AttemptFailed", node |-> n, attempt |-> v.nodes[n].attempts,
                           exhausted |-> exhausted]
                   /\ last = [type |-> "RunCompleted", outcome |-> "failed"]
  OBVIOUS
<1> PICK failed, retry, conflict :
      /\ failed = <<NodeEvent("NodeFailed", n)>> /\ retry = <<Because("NodeReady", n, "retry")>>
      /\ conflict = PauseBoth(n, "workspace-conflict", None)
  OBVIOUS
<1> PICK b : b = IF Changed(n) THEN conflict ELSE IF BudgetLeft(v, n) THEN retry
                 ELSE failed \o BlockOthers(v, n) \o <<last>>
  OBVIOUS
<1>1. FailureBatch(v, n, exhausted) = <<e>> \o b
  BY DEF FailureBatch
<1>2. Batch(<<e>>, Proving, {}, {}) /\ Batch(a, Mild, {}, {}) /\ Batch(<<e>>, Mild, {}, {})
  <2>1. Plain(e, Proving)
    BY CeasingEvents
  <2>2. Proving \subseteq Mild
    BY CeasingEvents
  <2>3. Batch(<<e>>, Proving, {}, {})
    BY <2>1, PlainEvents
  <2> QED  BY <2>2, <2>3, Wider
<1>3. CASE Changed(n) \/ BudgetLeft(v, n)
  <2>1. Keeps(conflict) /\ Keeps(retry)
    <3>1. Batch(retry, Mild, {}, {})
      BY MildEvents, PlainEvents
    <3>2. "workspace-conflict" \in PauseKind /\ None \in Control \cup {None}
      BY DEF PauseKind
    <3>3. Keeps(conflict)
      BY <3>2, KeepsEvents
    <3>4. Keeps(retry)
      BY <3>1, <3>2, KeepsEvents, GoingSets
    <3> QED  BY <3>3, <3>4
  <2>2. Keeps(b)
    BY <1>3, <2>1
  <2>3. Keeps(a \o (<<e>> \o b))
    BY <1>2, <2>2, KeepsJoined
  <2> QED  BY <1>1, <2>3, LeftCommit
<1>4. CASE ~Changed(n) /\ ~BudgetLeft(v, n)
  <2>1. Stops(b, v, n)
    <3>1. Batch(failed, Ceasing, {}, {}) /\ Plain(last, Ceasing)
      BY CeasingEvents, PlainEvents
    <3>2. PICK x : x = NodeEvent("NodeFailed", n)
      OBVIOUS
    <3>3. Has(failed, x) /\ x.type = "NodeFailed" /\ x.node = n
      BY <3>2, HasOne, CeasingEvents
    <3>4. last.type = "RunCompleted" /\ last.outcome = "failed" /\ x.type \in Resting
      BY <3>3 DEF Resting
    <3>5. Stops(failed \o BlockOthers(v, n) \o <<last>>, v, n)
      BY <3>1, <3>3, <3>4, StoppingBatch
    <3> QED  BY <1>4, <3>5
  <2>2. Stops(a \o (<<e>> \o b), v, n)
    BY <1>2, <2>1, StopsJoined
  <2>3. ASSUME fresh[c], NEW s \in Materialized(run, a \o (<<e>> \o b)) PROVE Left(s)
    <3>1. v = run /\ run \in Run /\ RunSound(run)
      BY <2>3, FreshKnows DEF WorkInv
    <3> QED  BY <2>2, <2>3, <3>1, StopsLeft
  <2> QED  BY <1>1, <2>3, LeftCommit
<1> QED  BY <1>3, <1>4

\* The attempt ends: its node succeeds, or ends the run with the others.
LEMMA FinishLeaves ==
    ASSUME IInv, ControlInv, WorkInv, ~Settled(run.status), Left(run), NEW c \in Coord,
           FinishExecution(c) \/ FinishTimeout(c) \/ CompleteRun(c)
    PROVE  Left(run')
<1> DEFINE v == view[c]
           n == First(Active(v))
           artifact == AttemptEvent(v, "ArtifactProduced", n)
           workspace == AttemptEvent(v, "WorkspaceObserved", n)
<1>1. ASSUME fresh[c] PROVE v = run /\ run \in Run /\ RunSound(run)
  BY <1>1, FreshKnows DEF WorkInv
<1>2. Plain(artifact, Proving) /\ Plain(workspace, Proving)
  BY CeasingEvents
<1>3. CASE FinishTimeout(c)
  <2> DEFINE a == <<CancellationCompleted(v, n, "succeeded"), Cleanup(v, n, "timeout", "confirmed"),
                    artifact, workspace>>
  <2>1. Commit(c, a \o FailureBatch(v, n, TRUE), "schedule")
    BY <1>3 DEF FinishTimeout
  <2>2. /\ Plain(CancellationCompleted(v, n, "succeeded"), Proving)
        /\ Plain(Cleanup(v, n, "timeout", "confirmed"), Proving)
    BY CeasingEvents
  <2> HIDE DEF artifact, workspace
  <2>3. Batch(a, Proving, {}, {})
    BY <1>2, <2>2, PlainEvents
  <2> HIDE DEF a
  <2> QED  BY <2>1, <2>3, FailureLeaves
<1>4. CASE FinishExecution(c)
  <2> DEFINE evidence == <<artifact, workspace>>
             x(type) == AttemptEvent(v, type, n)
             stopped == NodeEvent("NodeBlocked", n)
             succeeded == <<x("AttemptSucceeded"), NodeEvent("NodeSucceeded", n)>>
             blocked == <<x("AttemptBlocked"), stopped>>
             cancelled == <<x("AttemptCancelled")>>
             last == [type |-> "RunCancelled", durable |-> FALSE, control |-> None]
  <2>1. \/ Commit(c, evidence \o succeeded, "succeeded")
        \/ Commit(c, evidence \o FailureBatch(v, n, FALSE), "schedule")
        \/ Commit(c, evidence \o blocked \o BlockOthers(v, n) \o <<RunEvent("RunBlocked")>>, "schedule")
        \/ Commit(c, evidence \o cancelled \o CancelNodes(v) \o <<last>>, "schedule")
    BY <1>4 DEF FinishExecution
  <2>2. \A type \in {"AttemptSucceeded", "AttemptBlocked", "AttemptCancelled"} : Plain(x(type), Proving)
    BY CeasingEvents
  <2>3. /\ Plain(NodeEvent("NodeSucceeded", n), Proving) /\ Plain(stopped, Ceasing)
        /\ stopped.type = "NodeBlocked" /\ stopped.node = n
        /\ Plain(RunEvent("RunBlocked"), Ceasing) /\ RunEvent("RunBlocked").type = "RunBlocked"
    BY CeasingEvents
  <2>4. Batch(<<last>>, Halting, {}, {}) /\ last.type = "RunCancelled"
    <3>1. Typed(last) /\ last.type = "RunCancelled" /\ last.control = None
      BY DEF Typed, RunWide
    <3>2. NamedBy(last, Asks) = {} /\ NamedBy(last, Answers) = {} /\ last.type \in Halting
      BY <3>1, TypeSets DEF NamedBy, Asks, Answers
    <3> HIDE DEF last
    <3>3. Batch(<<last>>, Halting, NamedBy(last, Asks), NamedBy(last, Answers))
      BY <3>1, <3>2, OneEvent
    <3> QED  BY <3>1, <3>2, <3>3
  <2>5. Has(blocked, stopped)
    BY HasOne
  <2> HIDE DEF x, artifact, workspace, last, stopped
  <2>6. /\ Batch(evidence, Proving, {}, {}) /\ Batch(succeeded, Proving, {}, {})
        /\ Batch(blocked, Ceasing, {}, {}) /\ Batch(cancelled, Proving, {}, {})
        /\ Batch(evidence, Ceasing, {}, {})
    <3>1. Plain(x("AttemptBlocked"), Ceasing)
      BY <2>2, CeasingEvents, Wider
    <3>2. /\ Batch(evidence, Proving, {}, {}) /\ Batch(succeeded, Proving, {}, {})
          /\ Batch(blocked, Ceasing, {}, {}) /\ Batch(cancelled, Proving, {}, {})
      BY <1>2, <2>2, <2>3, <3>1, PlainEvents
    <3>3. Proving \subseteq Ceasing
      BY CeasingEvents
    <3> QED  BY <3>2, <3>3, Wider
  <2> HIDE DEF evidence, succeeded, blocked, cancelled
  <2>7. /\ Batch(evidence \o succeeded, Proving, {}, {})
        /\ Batch(evidence \o blocked, Ceasing, {}, {})
        /\ Batch(evidence \o cancelled, Proving, {}, {})
    BY <2>6, PlainThen
  <2>8. CASE Commit(c, evidence \o succeeded, "succeeded")
    <3>1. Batch(evidence \o succeeded, Mild, {}, {})
      BY <2>7, CeasingEvents, Wider
    <3>2. Keeps(evidence \o succeeded)
      BY <3>1, KeepsEvents, GoingSets DEF PauseKind
    <3> QED  BY <2>8, <3>2, LeftCommit
  <2>9. CASE Commit(c, evidence \o FailureBatch(v, n, FALSE), "schedule")
    BY <2>6, <2>9, FailureLeaves
  <2>10. CASE Commit(c, evidence \o blocked \o BlockOthers(v, n) \o <<RunEvent("RunBlocked")>>, "schedule")
    <3>1. Has(evidence \o blocked, stopped) /\ stopped.type \in Resting
      BY <2>3, <2>5, <2>6, HasJoined DEF Resting
    <3> PICK a, all : /\ a = evidence \o blocked
                      /\ all = a \o BlockOthers(v, n) \o <<RunEvent("RunBlocked")>>
      OBVIOUS
    <3>2. Stops(a \o BlockOthers(v, n) \o <<RunEvent("RunBlocked")>>, v, n)
      BY <2>3, <2>7, <3>1, StoppingBatch
    <3>3. ASSUME fresh[c], NEW s \in Materialized(run, all) PROVE Left(s)
      BY <1>1, <3>2, <3>3, StopsLeft
    <3> QED  BY <2>10, <3>3, LeftCommit
  <2>11. CASE Commit(c, evidence \o cancelled \o CancelNodes(v) \o <<last>>, "schedule")
    <3> PICK a, all : a = evidence \o cancelled /\ all = a \o CancelNodes(v) \o <<last>>
      OBVIOUS
    <3>1. Batch(a, Quiet, {}, {})
      <4>1. Proving \subseteq Quiet
        BY CeasingEvents, GoingSets
      <4> QED  BY <2>7, <4>1, Wider
    <3>2. ASSUME fresh[c], NEW s \in Materialized(run, all) PROVE Left(s)
      BY <1>1, <2>4, <3>1, <3>2, CancelledLeft
    <3> QED  BY <2>11, <3>2, LeftCommit
  <2> QED  BY <2>1, <2>8, <2>9, <2>10, <2>11
<1>5. CASE CompleteRun(c)
  <2> PICK e : e = [type |-> "RunCompleted", outcome |-> "succeeded"]
    OBVIOUS
  <2>1. \/ Moves(c, "schedule")
        \/ Commit(c, <<e>>, "schedule") /\ \A m \in Node : v.nodes[m].status = "succeeded"
    BY <1>5 DEF CompleteRun
  <2>2. ASSUME fresh[c], \A m \in Node : v.nodes[m].status = "succeeded", NEW s \in Materialized(run, <<e>>)
        PROVE  Left(s)
    <3>1. Typed(e) /\ e.type = "RunCompleted"
      BY TypedEvents DEF Plain
    <3>2. s \in Applied(run, e)
      BY <1>1, <2>2, Single
    <3>3. s.nodes = run.nodes
      BY <1>1, <2>2, <3>1, <3>2, RunEffect DEF RunWide
    <3> QED  BY <1>1, <2>2, <3>3 DEF Left, Aside, Rests, SettledNode, Hale
  <2> QED  BY <2>1, <2>2, LeftCommit, LeftMoves
<1> QED  BY <1>3, <1>4, <1>5

-----------------------------------------------------------------------------
\* Every step leaves a run that has settled with its nodes.
LEMMA LeftInductive ==
    ASSUME IInv, ControlInv, WorkInv, Left(run), [Next]_vars
    PROVE  Left(run')
<1>1. CASE Settled(run.status)
  BY <1>1, SettledStays
<1>2. CASE ~Settled(run.status)
  <2>1. UNCHANGED run => Left(run')
    OBVIOUS
  <2>2. ASSUME NEW c \in Coord, Recovery(c) PROVE Left(run')
    <3>1. Load(c) \/ Acquire(c) \/ Refused(c) => UNCHANGED run
      BY DEF Load, Acquire, Refused, store
    <3> QED  BY <1>2, <2>1, <2>2, <3>1, ReconcilingLeaves, ContinuingLeaves DEF Recovery
  <2>3. ASSUME NEW c \in Coord, Coordination(c) PROVE Left(run')
    BY <1>2, <2>3, SchedulingLeaves, DrivingLeaves, FinishLeaves DEF Coordination
  <2>4. CASE \E c \in Coord : End(c) \/ SessionFails(c) \/ Crash(c)
    BY <2>1, <2>4 DEF End, HostFails, Abandon, Release, SessionFails, Crash, Moves, store
  <2>5. CASE \/ \E k \in Control : SubmitControl(k)
             \/ \E e \in Execution : Host(e)
             \/ OperatorEdits
             \/ UNCHANGED vars
    BY <2>1, <2>5 DEF SubmitControl, Host, PrepareReturns, AuthorizeReturns, WorkerEnds, SupervisorStops,
                      WorkerChangesWorkspace, OperatorEdits, vars, store
  <2> QED  BY <2>2, <2>3, <2>4, <2>5 DEF Next
<1> QED  BY <1>1, <1>2

\* It holds in every state.
LEMMA LeftInvariance == Spec => []Left(run)
<1>1. Init => Left(run)
  <2>1. InitialRun.status = "running"
    BY DEF InitialRun, CreatedRun
  <2>2. ASSUME NEW n \in Node PROVE InitialRun.nodes[n].status \in {"pending", "ready"}
    <3> PICK N : N = Executable(CreatedRun)
      OBVIOUS
    <3>1. CreatedRun.nodes[n].status = "pending"
      BY DEF CreatedRun
    <3>2. InitialRun.nodes[n] = IF n \in N THEN [CreatedRun.nodes[n] EXCEPT !.status = "ready"]
                                ELSE CreatedRun.nodes[n]
      BY DEF InitialRun, CreatedRun
    <3>3. [CreatedRun.nodes[n] EXCEPT !.status = "ready"].status = "ready"
      BY DEF CreatedRun
    <3> QED  BY <3>1, <3>2, <3>3
  <2>3. Init => run = InitialRun
    BY DEF Init
  <2> QED  BY <2>1, <2>2, <2>3 DEF Left, Hale, Settled, TerminalRun
<1>2. IInv /\ ControlInv /\ WorkInv /\ Left(run) /\ [Next]_vars => Left(run)'
  BY LeftInductive
<1> QED  BY <1>1, <1>2, WorkInvariance, PTL DEF Spec

\* finishResult, blockedNodePayloads, cancelNodePayloads, applyBoundaryControl: whoever settles the run
\* settles its nodes in the same commit, and none is left ready or pending in a run that no resume will
\* take up; a failure or a block passes by only what a crash or a failed inspection left behind.
THEOREM SettledRunsLeaveNoWork == Spec => []SettledRunLeavesNoWork
<1>1. Left(run) => SettledRunLeavesNoWork
  BY DEF Left, SettledRunLeavesNoWork, Settled, TerminalRun, Aside, Rests
<1> QED  BY <1>1, LeftInvariance, PTL

-----------------------------------------------------------------------------
(* When a session returns *)

\* Every node succeeded, or a crash left one orphaned or paused.
Gap(r) ==
    \/ \A n \in Node : r.nodes[n].status = "succeeded"
    \/ Orphaned(r) \cup Stranded(r) # {}

\* Where nothing runs, is ready or can be, a node that has not succeeded was left so: the pending ones
\* would hold one that needs none of the others.
LEMMA NothingToSchedule ==
    ASSUME NEW r \in Run, RunSound(r), Runs(r) = {}, Hale(r), Ready(r) = {}, Executable(r) = {}
    PROVE  Gap(r)
<1> SUFFICES ASSUME Orphaned(r) \cup Stranded(r) = {} PROVE \A n \in Node : r.nodes[n].status = "succeeded"
  BY DEF Gap
<1> DEFINE S == {n \in Node : r.nodes[n].status = "pending"}
<1>1. ASSUME NEW n \in Node PROVE n \in S \/ r.nodes[n].status = "succeeded"
  <2>1. r.nodes[n].status \in NodeStatus
    BY DEF Run, NodeState
  <2>2. r.nodes[n].status # "running"
    BY DEF RunSound, Parted, Orphaned
  <2>3. r.nodes[n].status \notin {"ready", "paused", "failed", "blocked", "cancelled"}
    BY DEF Ready, Stranded, Hale
  <2> QED  BY <2>1, <2>2, <2>3 DEF NodeStatus
<1>2. S = {}
  <2> SUFFICES ASSUME S # {} PROVE FALSE
    OBVIOUS
  <2>1. PICK n \in S : Needs[n] \cap S = {}
    BY NeedsAcyclic
  <2>2. \A m \in Needs[n] : m \in Node /\ m \notin S
    BY <2>1, CoordinatorConstants
  <2>3. n \in Executable(r)
    BY <1>1, <2>2 DEF Executable
  <2> QED  BY <2>3
<1> QED  BY <1>1, <1>2

\* A batch that ends with one of these leaves a run that is not running.
LEMMA Halted ==
    ASSUME NEW r \in Run, NEW batch, NEW types, NEW seen, NEW done, Batch(batch, types, seen, done),
           NEW e, EndsIn(batch, e), e.type \in {"RunPaused", "RunCancelled", "RunRecoveryBlocked"},
           NEW s \in Materialized(r, batch)
    PROVE  s.status # "running"
<1>1. PICK t \in Run : s \in Applied(t, e)
  BY LastOfBatch
<1>2. \E status \in {"paused", "cancelled", "recovery-blocked"} : s = [t EXCEPT !.status = status]
  BY <1>1 DEF Applied, When, RunPaused, RunCancelled, RunRecoveryBlocked
<1> QED  BY <1>1, <1>2 DEF Run

\* A control at a boundary stops the run, or finds it paused.
LEMMA BoundaryHalts ==
    ASSUME NEW r \in Run, NEW k \in Control, NEW observe \in BOOLEAN,
           NEW s \in Materialized(r, BoundaryBatch(r, k, observe))
    PROVE  s.status # "running"
<1> PICK batch, seen, done : batch = BoundaryBatch(r, k, observe) /\ Batch(batch, Closing, seen, done)
  BY BoundaryEvents
<1>1. CASE ActionOf[k] = "cancel"
  <2>1. EndsIn(batch, Cancelled(k)) /\ Cancelled(k).type = "RunCancelled"
    BY <1>1, BoundaryEvents DEF Cancelled
  <2> QED  BY <2>1, Halted
<1>2. CASE ActionOf[k] # "cancel" /\ r.status # "paused"
  <2> DEFINE a == IF observe THEN <<Observed(k)>> ELSE <<>>
             b == <<Paused(k)>>
  <2>1. batch = a \o b
    BY <1>2 DEF BoundaryBatch
  <2>2. \E sa, db : Batch(a, Closing, sa, {}) /\ Batch(b, Closing, {}, db)
    <3>1. PICK one : one = {k} \ {None}
      OBVIOUS
    <3>2. Batch(<<Observed(k)>>, Closing, one, {}) /\ Batch(b, Closing, {}, one)
      BY <3>1, StoppingBatches, TypeSets DEF PauseKind
    <3>3. Batch(<<>>, Closing, {}, {})
      BY NoEvent
    <3> QED  BY <3>2, <3>3
  <2>3. EndsIn(b, Paused(k)) /\ Paused(k).type = "RunPaused"
    BY EndOfOne DEF Paused
  <2> HIDE DEF a, b
  <2>4. EndsIn(a \o b, Paused(k))
    BY <2>2, <2>3, EndOfJoined
  <2> QED  BY <2>1, <2>3, <2>4, Halted
<1>3. CASE ActionOf[k] # "cancel" /\ r.status = "paused"
  <2> DEFINE a == IF observe THEN <<Observed(k)>> ELSE <<>>
  <2>1. BoundaryBatch(r, k, observe) = a \o <<>>
    BY <1>3 DEF BoundaryBatch
  <2>2. \E sa : Batch(a, Loud, sa, {})
    <3>1. PICK one : one = {k} \ {None}
      OBVIOUS
    <3>2. Batch(<<Observed(k)>>, Loud, one, {})
      <4>1. "ControlRequestObserved" \in Loud /\ "operator" \in PauseKind
        BY DEF Loud, RunOnly, PauseKind
      <4> QED  BY <3>1, <4>1, StoppingBatches
    <3> QED  BY <3>2, NoEvent
  <2> HIDE DEF a
  <2>3. \E sa : Batch(a \o <<>>, Loud, sa, {})
    <3>1. PICK sa : Batch(a, Loud, sa, {}) /\ Batch(<<>>, Loud, {}, {})
      BY <2>2, NoEvent
    <3>2. Batch(a \o <<>>, Loud, sa \cup {}, {} \cup {})
      BY <3>1, Joined
    <3>3. {} \cup {} = {}
      OBVIOUS
    <3> QED  BY <3>2, <3>3
  <2>4. s.status = r.status
    BY <2>1, <2>3, BatchEffect, TypeSets
  <2> QED  BY <1>3, <2>4
<1> QED  BY <1>1, <1>2, <1>3

-----------------------------------------------------------------------------
\* A step after which nobody returns who did not before.
LEMMA ReturnsNotHere ==
    ASSUME ReturnsStoppedOrInGap, UNCHANGED run, NEW c \in Coord,
           \A d \in Coord \ {c} : pc'[d] = pc[d] /\ fresh'[d] = fresh[d],
           ~(pc'[c] = "returning" /\ fresh'[c])
    PROVE  ReturnsStoppedOrInGap'
BY DEF ReturnsStoppedOrInGap, At, Orphaned, Stranded

\* One that stores nothing, of a session that goes elsewhere or stopped the run before.
LEMMA ReturnsMoves ==
    ASSUME IInv, ReturnsStoppedOrInGap, NEW c \in Coord, NEW next, pc' = [pc EXCEPT ![c] = next],
           UNCHANGED <<store, session>>,
           next = "returning" /\ fresh[c] /\ run.status = "running" => Gap(run)
    PROVE  ReturnsStoppedOrInGap'
<1> SUFFICES ASSUME NEW d \in Coord, pc'[d] = "returning", fresh'[d], run'.status = "running"
             PROVE  Gap(run')
  BY DEF ReturnsStoppedOrInGap, At, Gap
<1>1. run' = run /\ fresh' = fresh /\ DOMAIN pc = Coord
  BY DEF store, session, IInv, SessionTyped
<1>2. CASE d = c
  BY <1>1, <1>2
<1>3. CASE d # c
  BY <1>1, <1>3 DEF ReturnsStoppedOrInGap, At, Gap
<1> QED  BY <1>2, <1>3

\* A commit of one.
LEMMA ReturnsCommit ==
    ASSUME IInv, ReturnsStoppedOrInGap, NEW c \in Coord, NEW batch, NEW next, Commit(c, batch, next),
           next = "returning" /\ fresh[c] => \A s \in Materialized(run, batch) : s.status # "running"
    PROVE  ReturnsStoppedOrInGap'
<1>1. ASSUME batch # <<>>, fresh[c], run' \in Materialized(view[c], batch),
             fresh' = [d \in Coord |-> d = c], pc' = [pc EXCEPT ![c] = next]
      PROVE  ReturnsStoppedOrInGap'
  <2>1. view[c] = run /\ DOMAIN pc = Coord
    BY <1>1 DEF IInv, FreshIsCurrent, SessionTyped
  <2>2. \A d \in Coord : fresh'[d] => d = c
    BY <1>1
  <2>3. pc'[c] = next
    BY <1>1, <2>1
  <2> QED  BY <1>1, <2>1, <2>2, <2>3 DEF ReturnsStoppedOrInGap, At
<1>2. ASSUME pc' = [pc EXCEPT ![c] = next], UNCHANGED <<store, session>>, batch = <<>>
      PROVE  ReturnsStoppedOrInGap'
  <2>1. run \in Materialized(run, batch)
    BY <1>2, EmptyBatch
  <2> QED  BY <1>2, <2>1, ReturnsMoves
<1>3. ASSUME NEW place \in {"rejected", "failing"}, pc' = [pc EXCEPT ![c] = place],
             UNCHANGED <<store, session>>
      PROVE  ReturnsStoppedOrInGap'
  <2>1. place # "returning"
    OBVIOUS
  <2> QED  BY <1>3, <2>1, ReturnsMoves
<1> QED  BY <1>1, <1>2, <1>3, Zenon DEF Commit

\* A recovered run returns at once where it is stopped, or with a control or a block that stops it.
LEMMA RecoveryReturns ==
    ASSUME IInv, ControlInv, ReturnsStoppedOrInGap, NEW c \in Coord, Recovery(c)
    PROVE  ReturnsStoppedOrInGap'
<1> DEFINE v == view[c]
           n == First(Active(v))
           cause == CauseOf(ctl[c])
<1>1. \A batch, next : Commit(c, batch, next) /\ next # "returning" => ReturnsStoppedOrInGap'
  BY ReturnsCommit
<1>2. \A next : Moves(c, next) /\ (next = "returning" => run.status # "running" \/ ~fresh[c])
        => ReturnsStoppedOrInGap'
  BY ReturnsMoves DEF Moves
<1>3. fresh[c] => v = run /\ run \in Run
  BY FreshKnows
<1>4. CASE Load(c) \/ Acquire(c) \/ Refused(c)
  <2>1. \E next \in {"loaded", "recover", "idle"} : pc' = [pc EXCEPT ![c] = next]
    BY <1>4 DEF Load, Acquire, Refused, Gone
  <2>2. UNCHANGED run /\ \A d \in Coord \ {c} : fresh'[d] = fresh[d]
    BY <1>4 DEF Load, Acquire, Refused, Gone, store, session, IInv, SessionTyped
  <2>3. DOMAIN pc = Coord
    BY DEF IInv, SessionTyped
  <2> QED  BY <2>1, <2>2, <2>3, ReturnsNotHere
<1>5. CASE BeginReconciling(c)
  <2>1. Moves(c, "inspect") \/ \E k : Commit(c, <<Observed(k)>>, "inspect")
    BY <1>5 DEF BeginReconciling
  <2> QED  BY <1>1, <1>2, <2>1
<1>6. CASE RecoverBoundary(c)
  <2>1. \/ Moves(c, "continue")
        \/ \E k \in Control : Commit(c, BoundaryBatch(v, k, ctl[c] = None), "returning")
    BY <1>6 DEF RecoverBoundary, NextControl, ControlInv, ControlTyped
  <2>2. ASSUME NEW k \in Control, Commit(c, BoundaryBatch(v, k, ctl[c] = None), "returning")
        PROVE  ReturnsStoppedOrInGap'
    <3> PICK observe \in BOOLEAN : observe = (ctl[c] = None)
      OBVIOUS
    <3> PICK batch : batch = BoundaryBatch(v, k, observe)
      OBVIOUS
    <3>1. fresh[c] => \A s \in Materialized(run, batch) : s.status # "running"
      BY <1>3, BoundaryHalts
    <3> QED  BY <2>2, <3>1, ReturnsCommit
  <2> QED  BY <1>2, <2>1, <2>2
<1>7. ASSUME NEW kind, NEW a, Batch(a, Steady, {}, {}),
             Commit(c, a \o <<RecoveryBlocked(v, n, kind)>>, Blocked(c))
      PROVE  ReturnsStoppedOrInGap'
  <2> PICK e, batch : e = RecoveryBlocked(v, n, kind) /\ batch = a \o <<e>>
    OBVIOUS
  <2>1. Batch(<<e>>, Steady, {}, {}) /\ e.type = "RunRecoveryBlocked"
    <3>1. e.type = "RunRecoveryBlocked"
      BY DEF RecoveryBlocked
    <3>2. Plain(e, Steady)
      BY SteadyEvents
    <3> QED  BY <3>1, <3>2, PlainEvents
  <2>2. Batch(batch, Steady, {}, {}) /\ EndsIn(batch, e)
    BY <1>7, <2>1, PlainThen, EndOfOne, EndOfJoined
  <2>3. fresh[c] => \A s \in Materialized(run, batch) : s.status # "running"
    BY <1>3, <2>1, <2>2, Halted
  <2> HIDE DEF n, v
  <2> QED  BY <1>7, <2>3, ReturnsCommit
<1>8. CASE Inspect(c)
  <2>1. \/ Moves(c, "capture") \/ Moves(c, "terminate")
        \/ Commit(c, <<RecoveryBlocked(v, n, "execution-unknown")>>, Blocked(c))
    BY <1>8 DEF Inspect
  <2>2. <<>> \o <<RecoveryBlocked(v, n, "execution-unknown")>>
          = <<RecoveryBlocked(v, n, "execution-unknown")>>
    OBVIOUS
  <2>3. Batch(<<>>, Steady, {}, {})
    BY NoEvent
  <2> HIDE DEF n, v
  <2> QED  BY <1>2, <1>7, <2>1, <2>2, <2>3
<1>9. CASE TerminateRecovered(c)
  <2> DEFINE a == IF CleanupRecorded(v, n, cause) THEN <<>> ELSE <<Cleanup(v, n, cause, "unknown")>>
  <2>1. Moves(c, "capture") \/ Commit(c, a \o <<RecoveryBlocked(v, n, "cleanup-unknown")>>, Blocked(c))
    BY <1>9 DEF TerminateRecovered, CleanupUnknown
  <2>2. Batch(a, Steady, {}, {})
    <3>1. cause \in Cause
      BY CoordinatorConstants DEF CauseOf, Cause, ControlInv, ControlTyped
    <3>2. Plain(Cleanup(v, n, cause, "unknown"), Steady)
      BY <3>1, SteadyEvents DEF CleanupOutcome
    <3> QED  BY <3>2, NoEvent, PlainEvents
  <2> HIDE DEF a, n, v
  <2> QED  BY <1>2, <1>7, <2>1, <2>2
<1>10. CASE FinishRecoveredControl(c)
  <2>1. ctl[c] \in Control
    BY <1>10 DEF FinishRecoveredControl, ControlInv, ControlTyped
  <2>2. PICK b : /\ Commit(c, b, "returning")
                 /\ \/ b = PauseBoth(orphan[c], "operator", ctl[c])
                    \/ b = CancelNodes(v) \o <<Cancelled(ctl[c])>>
    BY <1>10 DEF FinishRecoveredControl
  <2>3. \E types, done, e : /\ Batch(b, types, {}, done) /\ EndsIn(b, e)
                            /\ e.type \in {"RunPaused", "RunCancelled"}
    <3> PICK one : one = {ctl[c]} \ {None}
      OBVIOUS
    <3>1. CASE b = PauseBoth(orphan[c], "operator", ctl[c])
      <4>1. Batch(b, Closing, {}, one)
        BY <2>1, <3>1, StoppingBatches, TypeSets DEF PauseKind
      <4>2. EndsIn(b, Paused(ctl[c])) /\ Paused(ctl[c]).type = "RunPaused"
        BY <3>1 DEF EndsIn, PauseBoth, Paused
      <4> QED  BY <4>1, <4>2
    <3>2. CASE b = CancelNodes(v) \o <<Cancelled(ctl[c])>>
      <4>1. Batch(CancelNodes(v), Closing, {}, {}) /\ Batch(<<Cancelled(ctl[c])>>, Closing, {}, one)
        BY <2>1, NodeBatches, StoppingBatches, TypeSets DEF PauseKind
      <4>2. Batch(b, Closing, {}, one) /\ EndsIn(b, Cancelled(ctl[c]))
        BY <3>2, <4>1, PlainThen, EndOfOne, EndOfJoined
      <4>3. Cancelled(ctl[c]).type = "RunCancelled"
        BY DEF Cancelled
      <4> QED  BY <4>2, <4>3
    <3> QED  BY <2>2, <3>1, <3>2
  <2>4. fresh[c] => \A s \in Materialized(run, b) : s.status # "running"
    BY <1>3, <2>3, Halted
  <2> QED  BY <2>2, <2>4, ReturnsCommit
<1>11. CASE \/ Orphan(c) \/ ContinueOrphaned(c) \/ PreflightFailsOrphaned(c) \/ ResumePaused(c)
            \/ Negotiate(c)
  <2>1. \E batch, next : Commit(c, batch, next) /\ next # "returning"
    BY <1>11 DEF Orphan, ContinueOrphaned, PreflightFailsOrphaned, ResumePaused, Negotiate
  <2> QED  BY <1>1, <2>1
<1>12. CASE StayStopped(c) \/ ContinueRunning(c)
  <2>1. (Moves(c, "returning") /\ v.status # "running") \/ Moves(c, "schedule")
    BY <1>12 DEF StayStopped, ContinueRunning
  <2> QED  BY <1>2, <1>3, <2>1
<1> QED  BY <1>4, <1>5, <1>6, <1>8, <1>9, <1>10, <1>11, <1>12 DEF Recovery

\* A running one when nothing is left to schedule.
LEMMA CoordinationReturns ==
    ASSUME IInv, ControlInv, WorkInv, Left(run), ReturnsStoppedOrInGap, NEW c \in Coord, Coordination(c)
    PROVE  ReturnsStoppedOrInGap'
<1> DEFINE v == view[c]
<1>1. \A batch, next : Commit(c, batch, next) /\ next # "returning" => ReturnsStoppedOrInGap'
  BY ReturnsCommit
<1>2. \A next : Moves(c, next) /\ next # "returning" => ReturnsStoppedOrInGap'
  BY ReturnsMoves DEF Moves
<1>3. CASE Schedule(c)
  <2>1. \/ Moves(c, "preflight")
        \/ Commit(c, ReadyBatch(Executable(v), "dependencies-satisfied"), "preflight")
        \/ (Moves(c, "returning") /\ Ready(v) = {} /\ Executable(v) = {})
    BY <1>3 DEF Schedule
  <2>2. ASSUME Ready(v) = {}, Executable(v) = {}, fresh[c] PROVE Gap(run)
    <3>1. v = run /\ run \in Run /\ pc[c] = "schedule" /\ run.status = "running"
      BY <1>3, <2>2, FreshKnows DEF Schedule, At
    <3>2. RunSound(run) /\ Runs(run) = {}
      BY <2>2, <3>1 DEF WorkInv, Stands
    <3>3. Hale(run)
      BY <3>1 DEF Left, Settled, TerminalRun
    <3> QED  BY <2>2, <3>1, <3>2, <3>3, NothingToSchedule
  <2>3. Moves(c, "returning") /\ Ready(v) = {} /\ Executable(v) = {} => ReturnsStoppedOrInGap'
    BY <2>2, ReturnsMoves DEF Moves
  <2> QED  BY <1>1, <1>2, <2>1, <2>3
<1>4. CASE StopCoordinating(c)
  <2>1. Moves(c, "returning") /\ v.status # "running"
    BY <1>4 DEF StopCoordinating
  <2>2. fresh[c] => v = run
    BY FreshKnows
  <2> QED  BY <2>1, <2>2, ReturnsMoves DEF Moves
<1>5. CASE \/ Boundary(c) \/ ObserveControl(c) \/ PrepareAttempt(c) \/ Authorize(c)
           \/ RequestTimeout(c) \/ CancelUnconfirmed(c) \/ FinishActiveControl(c)
           \/ FinishTimeout(c) \/ ReadyDependents(c)
  <2>1. Boundary(c) => \E batch : Commit(c, batch, "schedule")
    BY DEF Boundary
  <2>2. ObserveControl(c) => \E batch : Commit(c, batch, "control")
    BY DEF ObserveControl
  <2>3. PrepareAttempt(c) => \E batch : Commit(c, batch, "preparing")
    BY DEF PrepareAttempt
  <2>4. Authorize(c) => \E batch : Commit(c, batch, "starting")
    BY DEF Authorize
  <2>5. RequestTimeout(c) => \E batch : Commit(c, batch, "timeout")
    BY DEF RequestTimeout
  <2>6. CancelUnconfirmed(c) => \E batch : Commit(c, batch, "schedule")
    BY DEF CancelUnconfirmed
  <2>7. FinishActiveControl(c) => \E batch : Commit(c, batch, "schedule")
    BY DEF FinishActiveControl
  <2>8. FinishTimeout(c) => \E batch : Commit(c, batch, "schedule")
    BY DEF FinishTimeout
  <2>9. ReadyDependents(c) => \E batch : Commit(c, batch, "complete")
    BY DEF ReadyDependents
  <2> QED  BY <1>1, <1>5, <2>1, <2>2, <2>3, <2>4, <2>5, <2>6, <2>7, <2>8, <2>9
<1>6. CASE Preflight(c) \/ CompleteRun(c)
  <2>1. Preflight(c) => (\E batch : Commit(c, batch, "schedule")) \/ Moves(c, "prepare")
    BY DEF Preflight
  <2>2. CompleteRun(c) => (\E batch : Commit(c, batch, "schedule")) \/ Moves(c, "schedule")
    BY DEF CompleteRun
  <2> QED  BY <1>1, <1>2, <1>6, <2>1, <2>2
<1>7. CASE FinishExecution(c)
  <2>1. \E batch : Commit(c, batch, "succeeded") \/ Commit(c, batch, "schedule")
    BY <1>7 DEF FinishExecution
  <2> QED  BY <1>1, <2>1
<1>8. CASE Drive(c) \/ Collect(c) \/ Cancel(c)
  <2>1. \E next \in {"driving", "finishing", "timedOut", "controlled"} : Moves(c, next)
    BY <1>8 DEF Drive, Collect, Cancel
  <2> QED  BY <1>2, <2>1
<1> QED  BY <1>3, <1>4, <1>5, <1>6, <1>7, <1>8 DEF Coordination

\* Every step keeps it.
LEMMA ReturnsInductive ==
    ASSUME IInv, ControlInv, WorkInv, Left(run), ReturnsStoppedOrInGap, [Next]_vars
    PROVE  ReturnsStoppedOrInGap'
<1>1. ASSUME NEW c \in Coord, End(c) \/ SessionFails(c) \/ Crash(c) PROVE ReturnsStoppedOrInGap'
  <2>1. UNCHANGED run /\ \E next \in {"idle", "abandon", "failing"} : pc' = [pc EXCEPT ![c] = next]
    BY <1>1 DEF End, HostFails, Abandon, Release, SessionFails, Crash, Moves, Gone, store
  <2>2. \A d \in Coord \ {c} : fresh'[d] = fresh[d]
    BY <1>1 DEF End, HostFails, Abandon, Release, SessionFails, Crash, Moves, Gone, session, IInv,
                SessionTyped
  <2>3. DOMAIN pc = Coord
    BY DEF IInv, SessionTyped
  <2> QED  BY <2>1, <2>2, <2>3, ReturnsNotHere
<1>2. CASE \/ \E k \in Control : SubmitControl(k)
           \/ \E e \in Execution : Host(e)
           \/ OperatorEdits
           \/ UNCHANGED vars
  <2>1. UNCHANGED <<run, pc, fresh>>
    BY <1>2 DEF SubmitControl, Host, PrepareReturns, AuthorizeReturns, WorkerEnds, SupervisorStops,
                WorkerChangesWorkspace, OperatorEdits, vars, store, session
  <2> QED  BY <2>1 DEF ReturnsStoppedOrInGap, At, Orphaned, Stranded
<1> QED  BY <1>1, <1>2, RecoveryReturns, CoordinationReturns DEF Next

\* coordinateRunning: a session that returns leaves a run to resume only where a later resume has
\* something to do that scheduling does not: complete it, or take up what a crash left.
THEOREM RunsAreLeftStopped == Spec => []ReturnsStoppedOrInGap
<1>1. Init => ReturnsStoppedOrInGap
  <2>1. Init => \A c \in Coord : pc[c] # "returning"
    BY DEF Init
  <2> QED  BY <2>1 DEF ReturnsStoppedOrInGap, At
<1>2. IInv /\ ControlInv /\ WorkInv /\ Left(run) /\ ReturnsStoppedOrInGap /\ [Next]_vars
        => ReturnsStoppedOrInGap'
  BY ReturnsInductive
<1> QED  BY <1>1, <1>2, WorkInvariance, LeftInvariance, PTL DEF Spec

-----------------------------------------------------------------------------
(* Whose edits are resolved *)

\* The reasons to pause a node whose attempt left edits.
Holding == {"operator", "workspace-conflict", "attempt-budget-exhausted"}

\* A node that was not scheduled has no attempt; one that pauses with edits pauses for these reasons.
Remembers(x) ==
    /\ x.status = "pending" \/ x.attempts = 0 => x.last.status = "none"
    /\ x.status = "paused" /\ x.last.status = "orphaned" /\ x.last.differs => x.pause \in Holding
Edited(r) == \A n \in Node : Remembers(r.nodes[n])

\* A node whose lost attempt has to be resolved before the next.
Waits(x) == x.last.status = "orphaned" /\ x.status \notin {"pending", "ready"}

\* The reasons that take such a node up, and an event that does neither that nor forgets edits.
Resolving == {"resumed", "recovered"}
Heeds(e, S) ==
    /\ e.type = "NodePaused" => e.reason \in Holding
    /\ e.type = "NodeReady" => e.reason \notin Resolving \/ e.node \in S

\* What it makes of its node.
LEMMA HeedingNode ==
    ASSUME NEW r \in Run, NEW e, Typed(e), e.type \in NodeOnly, e.node \in Node, NEW s \in Applied(r, e)
    PROVE  \E node :
              /\ s = Updated(r, e, node)
              /\ (e.type = "NodePaused" => e.reason \in Holding) /\ Remembers(NodeOf(r, e)) => Remembers(node)
              /\ (e.type = "NodeReady" => e.reason \notin Resolving) /\ Waits(NodeOf(r, e)) => Waits(node)
<1> PICK old : old = NodeOf(r, e)
  OBVIOUS
<1> PICK last : last = old.last
  OBVIOUS
<1>1. old \in NodeState /\ last \in Attempt /\ old.attempts \in Nat
  BY DEF NodeOf, Run, NodeState
<1> DEFINE Good(node) ==
             /\ (e.type = "NodePaused" => e.reason \in Holding) /\ Remembers(old) => Remembers(node)
             /\ (e.type = "NodeReady" => e.reason \notin Resolving) /\ Waits(old) => Waits(node)
<1> USE DEF When
<1>2. CASE e.type \in {"RuntimeEventObserved", "AttemptTimeoutRequested", "ExecutionCleanupObserved",
                       "AttemptCancellationCompleted", "LateResultObserved"}
  <2>1. PICK l : /\ s = Updated(r, e, [old EXCEPT !.last = l])
                 /\ \E x : l \in {[last EXCEPT !.timeout = x], [last EXCEPT !.usage = x],
                                 [last EXCEPT !.cleanup = x], [last EXCEPT !.late = x]}
    <3>1. CASE e.type = "RuntimeEventObserved"
      <4>1. \E x : s = Updated(r, e, [old EXCEPT !.last = [last EXCEPT !.usage = x]])
        BY <3>1 DEF Applied, RuntimeEventObserved, AttemptBecomes
      <4> QED  BY <4>1
    <3>2. CASE e.type \in {"AttemptTimeoutRequested", "AttemptCancellationCompleted"}
      <4>1. \E x : s = Updated(r, e, [old EXCEPT !.last = [last EXCEPT !.timeout = x]])
        BY <3>2 DEF Applied, AttemptTimeoutRequested, AttemptCancellationCompleted, AttemptBecomes
      <4> QED  BY <4>1
    <3>3. CASE e.type = "ExecutionCleanupObserved"
      <4>1. \E x : s = Updated(r, e, [old EXCEPT !.last = [last EXCEPT !.cleanup = x]])
        BY <3>3 DEF Applied, ExecutionCleanupObserved, AttemptBecomes
      <4> QED  BY <4>1
    <3>4. CASE e.type = "LateResultObserved"
      <4>1. \E x : s = Updated(r, e, [old EXCEPT !.last = [last EXCEPT !.late = x]])
        BY <3>4 DEF Applied, LateResultObserved, AttemptBecomes
      <4> QED  BY <4>1
    <3> QED  BY <1>2, <3>1, <3>2, <3>3, <3>4
  <2>2. l.status = last.status /\ l.differs = last.differs
    BY <1>1, <2>1 DEF Attempt
  <2> PICK node : node = [old EXCEPT !.last = l]
    OBVIOUS
  <2>3. node.status = old.status /\ node.attempts = old.attempts /\ node.pause = old.pause /\ node.last = l
    BY <1>1 DEF NodeState
  <2>4. Good(node)
    BY <2>3, <2>2 DEF Remembers, Waits
  <2> QED  BY <2>1, <2>4
<1>3. CASE e.type \in {"AttemptPrepared", "AttemptFailed", "AttemptSucceeded", "AttemptBlocked",
                       "AttemptCancelled"}
  <2>1. PICK l : /\ s = Updated(r, e, [old EXCEPT !.last = l])
                 /\ l = [last EXCEPT !.status = "prepared", !.plan = TRUE]
                    \/ \E x \in {"failed", "succeeded", "blocked", "cancelled"} : l = [last EXCEPT !.status = x]
    <3>1. CASE e.type = "AttemptPrepared"
      <4>1. s = Updated(r, e, [old EXCEPT !.last = [last EXCEPT !.status = "prepared", !.plan = TRUE]])
        BY <3>1 DEF Applied, AttemptPrepared, AttemptBecomes
      <4> QED  BY <4>1
    <3>2. CASE e.type \in {"AttemptFailed", "AttemptSucceeded", "AttemptBlocked", "AttemptCancelled"}
      <4>1. \E x \in {"failed", "succeeded", "blocked", "cancelled"} :
              s = Updated(r, e, [old EXCEPT !.last = [last EXCEPT !.status = x]])
        BY <3>2 DEF Applied, AttemptFailed, AttemptEnded, AttemptBecomes
      <4> QED  BY <4>1
    <3> QED  BY <1>3, <3>1, <3>2
  <2>2. l.status # "orphaned"
    BY <1>1, <2>1 DEF Attempt
  <2>3. last.status \in {"scheduled", "running"} /\ old.status \in {"ready", "running"}
    BY <1>3 DEF Applied, AttemptPrepared, AttemptFailed, AttemptEnded, CurrentAttempt, NodeIn
  <2> PICK node : node = [old EXCEPT !.last = l]
    OBVIOUS
  <2>4. node.status = old.status /\ node.attempts = old.attempts /\ node.pause = old.pause /\ node.last = l
    BY <1>1 DEF NodeState
  <2>5. Good(node)
    BY <2>4, <2>2, <2>3 DEF Remembers, Waits
  <2> QED  BY <2>1, <2>5
<1>4. CASE e.type = "AttemptScheduled"
  <2> PICK l, attempts : l = [NoAttempt EXCEPT !.status = "scheduled"] /\ attempts = e.attempt
    OBVIOUS
  <2>1. /\ s = Updated(r, e, [old EXCEPT !.attempts = attempts, !.last = l])
        /\ attempts # 0 /\ old.status = "ready"
    BY <1>1, <1>4 DEF Applied, AttemptScheduled, NodeIn
  <2> PICK node : node = [old EXCEPT !.attempts = attempts, !.last = l]
    OBVIOUS
  <2>2. node.status = "ready" /\ node.attempts # 0
    BY <1>1, <2>1 DEF NodeState
  <2>3. Good(node)
    BY <2>1, <2>2 DEF Remembers, Waits
  <2> QED  BY <2>1, <2>3
<1>5. CASE e.type \in {"AttemptStartAuthorized", "AttemptStarted", "AttemptOrphaned"}
  <2>1. PICK l : /\ s = Updated(r, e, [old EXCEPT !.status = "running", !.last = l])
                 /\ last.status \in {"scheduled", "prepared", "running"}
    BY <1>5 DEF Applied, AttemptStartAuthorized, AttemptStarted, AttemptOrphaned, Started, CurrentAttempt
  <2> PICK node : node = [old EXCEPT !.status = "running", !.last = l]
    OBVIOUS
  <2>2. node.status = "running" /\ node.attempts = old.attempts
    BY <1>1 DEF NodeState
  <2>3. Good(node)
    BY <2>1, <2>2 DEF Remembers, Waits
  <2> QED  BY <2>1, <2>3
<1>6. CASE e.type = "NodeReady"
  <2>1. /\ s = Updated(r, e, [old EXCEPT !.status = "ready", !.pause = "none"])
        /\ e.reason \in Resolving \/ old.status = "pending" \/ last.status = "failed"
    BY <1>6 DEF Applied, NodeReady, NodeIn, Resolving
  <2> PICK node : node = [old EXCEPT !.status = "ready", !.pause = "none"]
    OBVIOUS
  <2>2. node.status = "ready" /\ node.attempts = old.attempts /\ node.last = last
    BY <1>1 DEF NodeState
  <2>3. Good(node)
    BY <1>6, <2>1, <2>2 DEF Remembers, Waits
  <2> QED  BY <2>1, <2>3
<1>7. CASE e.type = "NodePaused"
  <2>1. PICK pause : /\ s = Updated(r, e, [old EXCEPT !.status = "paused", !.pause = pause])
                     /\ pause = e.reason \/ e.reason = "none"
    <3>1. [old EXCEPT !.status = "paused", !.pause = old.pause] = [old EXCEPT !.status = "paused"]
      BY <1>1 DEF NodeState
    <3> QED  BY <1>7, <3>1 DEF Applied, NodePaused, NodeBecomes
  <2> PICK node : node = [old EXCEPT !.status = "paused", !.pause = pause]
    OBVIOUS
  <2>2. node.status = "paused" /\ node.attempts = old.attempts /\ node.last = last /\ node.pause = pause
    BY <1>1 DEF NodeState
  <2>3. Good(node)
    BY <1>7, <2>1, <2>2 DEF Remembers, Waits, Holding
  <2> QED  BY <2>1, <2>3
<1>8. CASE e.type \in {"NodeSucceeded", "NodeFailed", "NodeBlocked", "NodeCancelled"}
  <2>1. PICK status \in {"succeeded", "failed", "blocked", "cancelled"} :
          s = Updated(r, e, [old EXCEPT !.status = status])
    BY <1>8 DEF Applied, NodeEnded, NodeBlocked, NodeCancelled, NodeBecomes
  <2> PICK node : node = [old EXCEPT !.status = status]
    OBVIOUS
  <2>2. node.status = status /\ node.attempts = old.attempts /\ node.last = last
    BY <1>1 DEF NodeState
  <2>3. Good(node)
    BY <2>1, <2>2 DEF Remembers, Waits
  <2> QED  BY <2>1, <2>3
<1> QED  BY <1>2, <1>3, <1>4, <1>5, <1>6, <1>7, <1>8 DEF NodeOnly

\* What it makes of the run.
LEMMA HeedingEvent ==
    ASSUME NEW r \in Run, NEW e, Typed(e), NEW s \in Applied(r, e)
    PROVE  /\ (e.type = "NodePaused" => e.reason \in Holding) /\ Edited(r) => Edited(s)
           /\ \A n \in Node : /\ Waits(r.nodes[n])
                              /\ e.type = "NodeReady" => e.reason \notin Resolving \/ e.node # n
                              => Waits(s.nodes[n])
<1>1. CASE e.type \in RunWide \cup RunOnly
  <2>1. s.nodes = r.nodes
    BY <1>1, RunEffect
  <2>2. e.type \notin {"NodePaused", "NodeReady"}
    BY <1>1 DEF RunWide, RunOnly
  <2> QED  BY <2>1, <2>2 DEF Edited
<1>2. CASE e.type \in NodeOnly /\ e.node \in Node
  <2>1. PICK node :
              /\ s = Updated(r, e, node)
              /\ (e.type = "NodePaused" => e.reason \in Holding) /\ Remembers(NodeOf(r, e)) => Remembers(node)
              /\ (e.type = "NodeReady" => e.reason \notin Resolving) /\ Waits(NodeOf(r, e)) => Waits(node)
    BY <1>2, HeedingNode
  <2>2. \A n \in Node : s.nodes[n] = IF n = e.node THEN node ELSE r.nodes[n]
    BY <1>2, <2>1 DEF Updated, Run
  <2>3. NodeOf(r, e) = r.nodes[e.node]
    BY DEF NodeOf
  <2> QED  BY <1>2, <2>1, <2>2, <2>3 DEF Edited
<1>3. CASE e.type \in NodeOnly /\ e.node \notin Node
  <2>1. PICK node : s = Updated(r, e, node)
    BY <1>3, NodeEffect DEF NodeMoves
  <2>2. \A n \in Node : s.nodes[n] = r.nodes[n]
    BY <1>3, <2>1 DEF Updated, Run
  <2> QED  BY <2>2 DEF Edited
<1> QED  BY <1>1, <1>2, <1>3 DEF Typed


\* A batch that takes up no such node but those of a set, and forgets no edits.
Heeding(batch, S) ==
    /\ \E seen, done : Batch(batch, Loud \cup RunWide, seen, done)
    /\ \A i \in 1..Len(batch) : Heeds(batch[i], S)

\* The events that neither pause a node nor make one ready.
Neutral == (Loud \cup RunWide) \ {"NodeReady", "NodePaused"}

\* What it makes of the run.
LEMMA HeedingBatch ==
    ASSUME NEW r \in Run, NEW S, NEW batch, Heeding(batch, S), NEW s \in Materialized(r, batch)
    PROVE  /\ Edited(r) => Edited(s)
           /\ \A n \in Node \ S : Waits(r.nodes[n]) => Waits(s.nodes[n])
<1>1. Len(batch) \in Nat
  BY DEF Heeding, Batch
<1>2. ASSUME NEW k \in 1..Len(batch), NEW t \in Run, NEW u \in Applied(t, batch[k])
      PROVE  /\ u \in Run /\ (Edited(t) => Edited(u))
             /\ \A n \in Node \ S : Waits(t.nodes[n]) => Waits(u.nodes[n])
  <2> PICK e : e = batch[k]
    OBVIOUS
  <2>1. Typed(e) /\ Heeds(e, S) /\ u \in Applied(t, e)
    BY <1>2 DEF Heeding, Batch
  <2>2. u \in Run
    BY <2>1, EventEffect
  <2>3. /\ (e.type = "NodePaused" => e.reason \in Holding) /\ Edited(t) => Edited(u)
        /\ \A n \in Node : /\ Waits(t.nodes[n])
                           /\ e.type = "NodeReady" => e.reason \notin Resolving \/ e.node # n
                           => Waits(u.nodes[n])
    BY <2>1, HeedingEvent
  <2> QED  BY <2>1, <2>2, <2>3 DEF Heeds
<1>3. ASSUME Edited(r) PROVE Edited(s)
  <2> DEFINE T == {t \in Run : Edited(t)}
  <2>1. r \in T /\ \A i \in 1..Len(batch) : \A t \in T : Applied(t, batch[i]) \subseteq T
    BY <1>2, <1>3
  <2> HIDE DEF T
  <2>2. s \in T
    BY <1>1, <2>1, BatchPreserves
  <2> QED  BY <2>2 DEF T
<1>4. ASSUME NEW n \in Node \ S, Waits(r.nodes[n]) PROVE Waits(s.nodes[n])
  <2> DEFINE T == {t \in Run : Waits(t.nodes[n])}
  <2>1. r \in T /\ \A i \in 1..Len(batch) : \A t \in T : Applied(t, batch[i]) \subseteq T
    BY <1>2, <1>4
  <2> HIDE DEF T
  <2>2. s \in T
    BY <1>1, <2>1, BatchPreserves
  <2> QED  BY <2>2 DEF T
<1> QED  BY <1>3, <1>4

\* Two of them are one.
LEMMA HeedingJoined ==
    ASSUME NEW S, NEW a, Heeding(a, S), NEW b, Heeding(b, S)
    PROVE  Heeding(a \o b, S)
<1> PICK c : c = a \o b
  OBVIOUS
<1> PICK types : types = Loud \cup RunWide
  OBVIOUS
<1>1. PICK sa, da, sb, db : Batch(a, types, sa, da) /\ Batch(b, types, sb, db)
  BY DEF Heeding
<1>2. Batch(c, types, sa \cup sb, da \cup db)
  BY <1>1, Joined
<1>3. \A i \in 1..Len(c) : \/ i \in 1..Len(a) /\ c[i] = a[i]
                           \/ i - Len(a) \in 1..Len(b) /\ c[i] = b[i - Len(a)]
  <2>1. PICK X : a \in Seq(X) /\ b \in Seq(X)
    <3>1. PICK A, B : a \in Seq(A) /\ b \in Seq(B)
      BY <1>1 DEF Batch
    <3>2. a \in Seq(A \cup B) /\ b \in Seq(A \cup B)
      BY <3>1
    <3> QED  BY <3>2
  <2> QED  BY <2>1
<1>4. \A i \in 1..Len(c) : Heeds(c[i], S)
  BY <1>3, Zenon DEF Heeding
<1> QED  BY <1>2, <1>4 DEF Heeding

\* Neither pauses nor readies anything.
LEMMA HeedingNeutral ==
    ASSUME NEW S, NEW batch, NEW seen, NEW done, Batch(batch, Neutral, seen, done)
    PROVE  Heeding(batch, S)
<1>1. Batch(batch, Loud \cup RunWide, seen, done)
  BY Wider DEF Neutral
<1>2. \A i \in 1..Len(batch) : batch[i].type \notin {"NodeReady", "NodePaused"}
  BY DEF Batch, Neutral
<1> QED  BY <1>1, <1>2 DEF Heeding, Heeds

\* One event.
LEMMA HeedingOne ==
    ASSUME NEW S, NEW e, NEW types, Plain(e, types), types \subseteq Loud \cup RunWide, Heeds(e, S)
    PROVE  Heeding(<<e>>, S)
<1>1. Plain(e, Loud \cup RunWide)
  BY Wider
<1>2. Batch(<<e>>, Loud \cup RunWide, {}, {})
  BY <1>1, PlainEvents
<1>3. \A i \in 1..Len(<<e>>) : <<e>>[i] = e
  OBVIOUS
<1> QED  BY <1>2, <1>3 DEF Heeding

\* What the sets of event types have to do with these.
LEMMA NeutralSets ==
    /\ Neutral \subseteq Loud \cup RunWide /\ Steady \subseteq Neutral /\ Quiet \subseteq Loud \cup RunWide
    /\ Closing \subseteq Loud \cup RunWide /\ Halting \subseteq Loud \cup RunWide
    /\ {"NodeCancelled", "NodeBlocked", "RunPaused", "RunCancelled", "ControlRequestObserved"}
         \subseteq Neutral
    /\ Proving \subseteq Loud \cup RunWide /\ Preparing \subseteq Neutral \ (Asks \cup Answers)
    /\ \A e, types : Plain(e, types) /\ types \subseteq Loud \cup RunWide
                     /\ e.type \notin {"NodeReady", "NodePaused"} => Plain(e, Neutral)
<1> USE DEF Neutral, Loud, RunWide, RunOnly, NodeOnly
<1>1. /\ Neutral \subseteq Loud \cup RunWide /\ Steady \subseteq Neutral /\ Quiet \subseteq Loud \cup RunWide
      /\ Closing \subseteq Loud \cup RunWide /\ Halting \subseteq Loud \cup RunWide
  BY DEF Steady, Quiet, Closing, Halting
<1>2. /\ {"NodeCancelled", "NodeBlocked", "RunPaused", "RunCancelled", "ControlRequestObserved"}
           \subseteq Neutral
      /\ Proving \subseteq Loud \cup RunWide /\ Preparing \subseteq Neutral \ (Asks \cup Answers)
  BY DEF Proving, Mild, Quiet, Preparing, Asks, Answers
<1>3. \A e, types : Plain(e, types) /\ types \subseteq Loud \cup RunWide
                    /\ e.type \notin {"NodeReady", "NodePaused"} => Plain(e, Neutral)
  BY DEF Plain
<1> QED  BY <1>1, <1>2, <1>3

\* The parts of the coordinator's batches that pause, resume or stop something.
LEMMA HeedingParts ==
    ASSUME NEW S, NEW v, NEW n, NEW k \in Control \cup {None}
    PROVE  /\ Heeding(<<>>, S) /\ Heeding(<<Observed(k)>>, S) /\ Heeding(<<Paused(k)>>, S)
           /\ Heeding(<<Resumed>>, S) /\ Heeding(CancelNodes(v) \o <<Cancelled(k)>>, S)
           /\ Heeding(CancelNodes(v), S) /\ Heeding(BlockOthers(v, n), S)
           /\ \A reason \in Holding : Heeding(PauseBoth(n, reason, k), S)
           /\ Heeding(ReadyBatch(Executable(v), "dependencies-satisfied"), S)
           /\ Heeding(ReadyBatch(PausedNodes(v), "resumed"), PausedNodes(v))
           /\ Heeding(<<Because("NodeReady", n, "retry")>>, S)
           /\ Heeding(<<Because("NodeReady", n, "recovered")>>, {n})
<1> PICK one : one = {k} \ {None}
  OBVIOUS
<1>1. Heeding(<<>>, S)
  BY NoEvent, HeedingNeutral
<1>2. /\ Batch(<<Observed(k)>>, Neutral, one, {}) /\ Batch(<<Paused(k)>>, Neutral, {}, one)
      /\ Batch(<<Cancelled(k)>>, Neutral, {}, one)
  <2>1. "operator" \in PauseKind
    BY DEF PauseKind
  <2> QED  BY <2>1, StoppingBatches, NeutralSets
<1>3. Batch(CancelNodes(v), Neutral, {}, {}) /\ Batch(BlockOthers(v, n), Neutral, {}, {})
  BY NodeBatches, NeutralSets
<1>4. Heeding(<<Observed(k)>>, S) /\ Heeding(<<Paused(k)>>, S) /\ Heeding(<<Cancelled(k)>>, S)
      /\ Heeding(CancelNodes(v), S) /\ Heeding(BlockOthers(v, n), S)
  BY <1>2, <1>3, HeedingNeutral
<1>5. Heeding(CancelNodes(v) \o <<Cancelled(k)>>, S)
  BY <1>4, HeedingJoined
<1>6. Heeding(<<Resumed>>, S)
  <2>1. Plain(Resumed, Closing) /\ Resumed.type = "RunResumed"
    BY TypedEvents DEF Resumed
  <2> QED  BY <2>1, HeedingOne, NeutralSets DEF Heeds
<1>7. ASSUME NEW reason \in Holding PROVE Heeding(PauseBoth(n, reason, k), S)
  <2> PICK e : e = Because("NodePaused", n, reason)
    OBVIOUS
  <2>1. e.type = "NodePaused" /\ e.reason = reason
    BY DEF Because
  <2>2. Plain(e, Loud) /\ Heeds(e, S)
    BY <2>1 DEF Plain, Typed, Loud, NodeOnly, Holding, PauseKind, Asks, Answers, Heeds
  <2>3. Heeding(<<e>>, S)
    <3>1. Loud \subseteq Loud \cup RunWide
      OBVIOUS
    <3> QED  BY <2>2, <3>1, HeedingOne
  <2>4. Heeding(<<e>> \o <<Paused(k)>>, S)
    BY <1>4, <2>3, HeedingJoined
  <2>5. <<e, Paused(k)>> = <<e>> \o <<Paused(k)>>
    OBVIOUS
  <2> QED  BY <2>4, <2>5 DEF PauseBoth
<1>8. ASSUME NEW N, NEW reason, NEW R, reason \in Resolving => N \subseteq R
      PROVE  Heeding(ReadyBatch(N, reason), R)
  <2> PICK b : b = ReadyBatch(N, reason)
    OBVIOUS
  <2>1. b = [i \in DOMAIN InOrder(N) |-> Because("NodeReady", InOrder(N)[i], reason)]
    BY DEF ReadyBatch, ForNodes
  <2>2. Batch(b, Loud \cup RunWide, {}, {})
    <3>1. "NodeReady" \in Loud \cup RunWide
      BY DEF Loud, NodeOnly
    <3> QED  BY <3>1, NodeBatches
  <2>3. /\ InOrder(N) \in Seq(N) /\ DOMAIN b = DOMAIN InOrder(N)
        /\ \A i \in DOMAIN b : b[i] = Because("NodeReady", InOrder(N)[i], reason)
    BY <2>1, InOrderMembers
  <2>4. DOMAIN b = 1..Len(b) /\ \A i \in DOMAIN b : InOrder(N)[i] \in N
    <3>1. PICK X : b \in Seq(X)
      BY <2>2 DEF Batch
    <3> QED  BY <2>3, <3>1
  <2>5. \A m : LET e == Because("NodeReady", m, reason)
               IN e.type = "NodeReady" /\ e.node = m /\ e.reason = reason
    BY DEF Because
  <2>6. \A i \in 1..Len(b) : Heeds(b[i], R)
    BY <1>8, <2>3, <2>4, <2>5 DEF Heeds
  <2> QED  BY <2>2, <2>6 DEF Heeding
<1>9. \A reason, R : (reason \in Resolving => n \in R) => Heeding(<<Because("NodeReady", n, reason)>>, R)
  <2> SUFFICES ASSUME NEW reason, NEW R, reason \in Resolving => n \in R, NEW e,
                      e = Because("NodeReady", n, reason)
               PROVE  Heeding(<<e>>, R)
    OBVIOUS
  <2>1. Plain(e, Quiet) /\ e.type = "NodeReady" /\ e.node = n /\ e.reason = reason
    BY TypedEvents DEF Because
  <2> QED  BY <2>1, HeedingOne, NeutralSets DEF Heeds
<1>10. /\ "dependencies-satisfied" \notin Resolving /\ "retry" \notin Resolving
  BY DEF Resolving
<1> QED  BY <1>1, <1>4, <1>5, <1>6, <1>7, <1>8, <1>9, <1>10

-----------------------------------------------------------------------------
\* The node of an attempt that left edits becomes schedulable only so.
Resolves ==
    \A n \in Node :
        /\ run.nodes[n].last.status = "orphaned" /\ run.nodes[n].last.differs
        /\ run.nodes[n].status # "ready" /\ run'.nodes[n].status = "ready"
        => run.nodes[n].pause = "operator" \/ ~Changed(n)

\* A run whose runtime is negotiated as it resumes had no attempt.
Renews == \A c \in Coord : pc[c] = "resuming" /\ fresh[c] => NoAttemptsYet(run)

EditsInv == Edited(run) /\ Renews

\* A step that stores nothing.
LEMMA EditsStay ==
    ASSUME EditsInv, UNCHANGED run, NEW c \in Coord,
           \A d \in Coord \ {c} : pc'[d] = pc[d] /\ fresh'[d] = fresh[d], pc'[c] # "resuming"
    PROVE  EditsInv' /\ Resolves
<1>1. Edited(run') /\ Resolves
  BY DEF EditsInv, Resolves
<1>2. Renews'
  BY DEF EditsInv, Renews, NoAttemptsYet
<1> QED  BY <1>1, <1>2 DEF EditsInv

\* One of a session.
LEMMA EditsMoves ==
    ASSUME IInv, EditsInv, NEW c \in Coord, NEW next, pc' = [pc EXCEPT ![c] = next], next # "resuming",
           UNCHANGED <<store, session>>
    PROVE  EditsInv' /\ Resolves
<1>1. run' = run /\ fresh' = fresh /\ DOMAIN pc = Coord
  BY DEF store, session, IInv, SessionTyped
<1> QED  BY <1>1, EditsStay

\* What a commit may make schedulable, and what it may leave of the run.
Allows(S) ==
    \A n \in S \cap Node : Waits(run.nodes[n]) /\ run.nodes[n].last.differs
                         => run.nodes[n].pause = "operator" \/ ~Changed(n)
Minds(s, S) == Edited(s) /\ \A n \in Node \ S : Waits(run.nodes[n]) => Waits(s.nodes[n])

\* A commit.
LEMMA EditsCommit ==
    ASSUME IInv, ControlInv, EditsInv, NEW c \in Coord, NEW batch, NEW next, Commit(c, batch, next), NEW S,
           fresh[c] => Allows(S),
           fresh[c] => \A s \in Materialized(run, batch) :
                          Minds(s, S) /\ (next = "resuming" => NoAttemptsYet(s)),
           next = "resuming" => batch # <<>>
    PROVE  EditsInv' /\ Resolves
<1>1. ASSUME batch # <<>>, fresh[c], run' \in Materialized(view[c], batch),
             fresh' = [d \in Coord |-> d = c], pc' = [pc EXCEPT ![c] = next]
      PROVE  EditsInv' /\ Resolves
  <2>1. view[c] = run /\ run \in Run /\ DOMAIN pc = Coord
    BY <1>1, FreshKnows DEF IInv, SessionTyped
  <2>2. Edited(run') /\ \A n \in Node \ S : Waits(run.nodes[n]) => Waits(run'.nodes[n])
    BY <1>1, <2>1 DEF Minds
  <2>3. Renews'
    <3>1. \A d \in Coord : fresh'[d] => d = c
      BY <1>1
    <3>2. pc'[c] = next
      BY <1>1, <2>1
    <3>3. next = "resuming" => NoAttemptsYet(run')
      BY <1>1, <2>1
    <3>4. Renews' <=> \A d \in Coord : pc'[d] = "resuming" /\ fresh'[d] => NoAttemptsYet(run')
      BY DEF Renews, NoAttemptsYet
    <3> QED  BY <3>1, <3>2, <3>3, <3>4
  <2>4. Resolves
    <3> SUFFICES ASSUME NEW n \in Node,
                        run.nodes[n].last.status = "orphaned", run.nodes[n].last.differs,
                        run.nodes[n].status # "ready", run'.nodes[n].status = "ready"
                 PROVE  run.nodes[n].pause = "operator" \/ ~Changed(n)
      BY DEF Resolves
    <3>1. Waits(run.nodes[n])
      BY DEF EditsInv, Edited, Remembers, Waits
    <3>2. ~Waits(run'.nodes[n])
      BY DEF Waits
    <3> QED  BY <1>1, <2>2, <3>1, <3>2 DEF Allows
  <2> QED  BY <2>2, <2>3, <2>4 DEF EditsInv, Edited
<1>2. ASSUME pc' = [pc EXCEPT ![c] = next], UNCHANGED <<store, session>>, batch = <<>>
      PROVE  EditsInv' /\ Resolves
  <2>1. ~(next = "resuming" /\ fresh[c])
    BY <1>2
  <2>2. CASE next # "resuming"
    BY <1>2, <2>2, EditsMoves
  <2>3. CASE ~fresh[c]
    <3>1. run' = run /\ fresh' = fresh /\ DOMAIN pc = Coord
      BY <1>2 DEF store, session, IInv, SessionTyped
    <3>2. Edited(run') /\ Resolves
      BY <3>1 DEF EditsInv, Resolves
    <3>3. Renews'
      BY <1>2, <2>3, <3>1 DEF EditsInv, Renews, NoAttemptsYet
    <3> QED  BY <3>2, <3>3 DEF EditsInv, Edited
  <2> QED  BY <2>1, <2>2, <2>3
<1>3. ASSUME NEW place \in {"rejected", "failing"}, pc' = [pc EXCEPT ![c] = place],
             UNCHANGED <<store, session>>
      PROVE  EditsInv' /\ Resolves
  <2>1. place # "resuming"
    OBVIOUS
  <2> QED  BY <1>3, <2>1, EditsMoves
<1> QED  BY <1>1, <1>2, <1>3, Zenon DEF Commit

\* One whose batch heeds edits.
LEMMA HeedingCommit ==
    ASSUME IInv, ControlInv, EditsInv, NEW c \in Coord, NEW batch, NEW next, Commit(c, batch, next), NEW S,
           Heeding(batch, S), next # "resuming", fresh[c] => Allows(S)
    PROVE  EditsInv' /\ Resolves
<1>1. ASSUME fresh[c], NEW s \in Materialized(run, batch) PROVE Minds(s, S)
  <2>1. run \in Run /\ Edited(run)
    BY <1>1, FreshKnows DEF EditsInv
  <2>2. /\ Edited(run) => Edited(s)
        /\ \A n \in Node \ S : Waits(run.nodes[n]) => Waits(s.nodes[n])
    BY <1>1, <2>1, HeedingBatch
  <2> QED  BY <2>1, <2>2 DEF Minds
<1> QED  BY <1>1, EditsCommit

\* One that takes up nothing.
LEMMA HarmlessCommit ==
    ASSUME IInv, ControlInv, EditsInv, NEW c \in Coord, NEW batch, NEW next, Commit(c, batch, next),
           Heeding(batch, {}), next # "resuming"
    PROVE  EditsInv' /\ Resolves
<1>1. Allows({})
  BY DEF Allows
<1> QED  BY <1>1, HeedingCommit

-----------------------------------------------------------------------------
\* The events of the coordinator that neither pause a node nor make one ready.
LEMMA NeutralEvents ==
    ASSUME NEW v, NEW n, NEW k, NEW x
    PROVE  /\ \A type \in {"ArtifactProduced", "WorkspaceObserved", "AttemptSucceeded", "AttemptBlocked",
                           "AttemptCancelled", "AttemptTimeoutRequested", "AttemptStartAuthorized"} :
                 Plain(AttemptEvent(v, type, n), Neutral)
           /\ \A type \in {"NodeSucceeded", "NodeFailed", "NodeBlocked"} : Plain(NodeEvent(type, n), Neutral)
           /\ \A cause \in Cause, outcome \in CleanupOutcome : Plain(Cleanup(v, n, cause, outcome), Neutral)
           /\ \A outcome \in CancellationOutcome : Plain(CancellationCompleted(v, n, outcome), Neutral)
           /\ Plain([type |-> "AttemptFailed", node |-> n, attempt |-> k, exhausted |-> x], Neutral)
           /\ Plain(RunEvent("RuntimeNegotiated"), Neutral) /\ Plain(RunEvent("RunBlocked"), Neutral)
           /\ \A outcome \in {"succeeded", "failed"} :
                 Plain([type |-> "RunCompleted", outcome |-> outcome], Neutral)
<1>1. \A e, types : /\ Plain(e, types) /\ e.type \notin {"NodeReady", "NodePaused"}
                    /\ types \in {Quiet, Closing, Halting, Loud, Steady, Mild}
                    => Plain(e, Neutral)
  <2>1. Loud \subseteq Loud \cup RunWide /\ Mild \subseteq Quiet /\ Steady \subseteq Loud \cup RunWide
    BY GoingSets, NeutralSets
  <2>2. \A types : types \in {Quiet, Closing, Halting, Loud, Steady, Mild} => types \subseteq Loud \cup RunWide
    BY <2>1, NeutralSets
  <2> QED  BY <2>2, NeutralSets, Zenon
<1>2. \A type \in {"ArtifactProduced", "WorkspaceObserved", "AttemptSucceeded", "AttemptBlocked",
                   "AttemptCancelled"} :
         Plain(AttemptEvent(v, type, n), Neutral)
  <2>1. \A type : AttemptEvent(v, type, n).type = type
    BY DEF AttemptEvent
  <2> QED  BY <1>1, <2>1, MildEvents
<1>3. \A type \in {"AttemptTimeoutRequested", "AttemptStartAuthorized"} : Plain(AttemptEvent(v, type, n), Neutral)
  <2>1. \A type : AttemptEvent(v, type, n).type = type
    BY DEF AttemptEvent
  <2>2. \A type \in {"AttemptTimeoutRequested", "AttemptStartAuthorized"} :
          \E types \in {Quiet, Closing, Halting, Loud, Steady, Mild} : Plain(AttemptEvent(v, type, n), types)
    BY TypedEvents, SteadyEvents
  <2> QED  BY <1>1, <2>1, <2>2
<1>4. \A type \in {"NodeSucceeded", "NodeFailed", "NodeBlocked"} : Plain(NodeEvent(type, n), Neutral)
  <2>1. \A type : NodeEvent(type, n).type = type
    BY DEF NodeEvent
  <2> QED  BY <1>1, <2>1, TypedEvents
<1>5. \A cause \in Cause, outcome \in CleanupOutcome : Plain(Cleanup(v, n, cause, outcome), Neutral)
  <2>1. \A cause, outcome : Cleanup(v, n, cause, outcome).type = "ExecutionCleanupObserved"
    BY DEF Cleanup
  <2> QED  BY <1>1, <2>1, MildEvents
<1>6. \A outcome \in CancellationOutcome : Plain(CancellationCompleted(v, n, outcome), Neutral)
  <2>1. \A outcome : CancellationCompleted(v, n, outcome).type = "AttemptCancellationCompleted"
    BY DEF CancellationCompleted
  <2> QED  BY <1>1, <2>1, MildEvents
<1>7. ASSUME NEW e, e = [type |-> "AttemptFailed", node |-> n, attempt |-> k, exhausted |-> x]
      PROVE  Plain(e, Neutral)
  <2>1. Plain(e, Mild) /\ e.type = "AttemptFailed"
    BY <1>7, MildEvents
  <2> QED  BY <1>1, <2>1
<1>8. Plain(RunEvent("RuntimeNegotiated"), Neutral) /\ Plain(RunEvent("RunBlocked"), Neutral)
  <2>1. \A type : RunEvent(type).type = type
    BY DEF RunEvent
  <2>2. Plain(RunEvent("RuntimeNegotiated"), Quiet) /\ Plain(RunEvent("RunBlocked"), Halting)
    BY TypedEvents
  <2> QED  BY <1>1, <2>1, <2>2
<1>9. ASSUME NEW outcome \in {"succeeded", "failed"}, NEW e, e = [type |-> "RunCompleted", outcome |-> outcome]
      PROVE  Plain(e, Neutral)
  <2>1. Plain(e, Closing) /\ e.type = "RunCompleted"
    BY <1>9, TypedEvents
  <2> QED  BY <1>1, <2>1
<1> QED  BY <1>2, <1>3, <1>4, <1>5, <1>6, <1>7, <1>8, <1>9

\* What a control at a boundary does.
LEMMA BoundaryHeeds ==
    ASSUME NEW v, NEW k \in Control, NEW observe \in BOOLEAN
    PROVE  Heeding(BoundaryBatch(v, k, observe), {})
<1> DEFINE a == IF observe THEN <<Observed(k)>> ELSE <<>>
           b == IF ActionOf[k] = "cancel" THEN CancelNodes(v) \o <<Cancelled(k)>>
                ELSE IF v.status # "paused" THEN <<Paused(k)>> ELSE <<>>
<1>1. Heeding(a, {}) /\ Heeding(b, {})
  BY HeedingParts
<1> HIDE DEF a, b
<1>2. Heeding(a \o b, {})
  BY <1>1, HeedingJoined
<1> QED  BY <1>2 DEF BoundaryBatch, a, b

\* A recovered run is reconciled, or stops at once.
LEMMA ReconcilingHeeds ==
    ASSUME IInv, ControlInv, EditsInv, NEW c \in Coord,
           BeginReconciling(c) \/ RecoverBoundary(c) \/ Inspect(c) \/ TerminateRecovered(c) \/ Orphan(c)
    PROVE  EditsInv' /\ Resolves
<1> DEFINE v == view[c]
           n == First(Active(v))
           cause == CauseOf(ctl[c])
<1>1. \A batch, next : Commit(c, batch, next) /\ Heeding(batch, {}) /\ next # "resuming"
        => EditsInv' /\ Resolves
  BY HarmlessCommit
<1>2. \A next : Moves(c, next) /\ next # "resuming" => EditsInv' /\ Resolves
  BY EditsMoves DEF Moves
<1>3. CASE BeginReconciling(c)
  <2>1. Moves(c, "inspect") \/ \E k \in Control : Commit(c, <<Observed(k)>>, "inspect")
    BY <1>3 DEF BeginReconciling, NextControl, ControlInv, ControlTyped
  <2>2. \A k \in Control : Heeding(<<Observed(k)>>, {})
    BY HeedingParts
  <2> QED  BY <1>1, <1>2, <2>1, <2>2
<1>4. CASE RecoverBoundary(c)
  <2>1. \/ Moves(c, "continue")
        \/ \E k \in Control : Commit(c, BoundaryBatch(v, k, ctl[c] = None), "returning")
    BY <1>4 DEF RecoverBoundary, NextControl, ControlInv, ControlTyped
  <2> QED  BY <1>1, <1>2, <2>1, BoundaryHeeds
<1>5. \A batch : Batch(batch, Steady, {}, {}) => Heeding(batch, {})
  BY Wider, NeutralSets, HeedingNeutral
<1>6. cause \in Cause /\ Blocked(c) # "resuming"
  BY CoordinatorConstants DEF CauseOf, Cause, ControlInv, ControlTyped, Blocked
<1>7. CASE Inspect(c)
  <2>1. Batch(<<RecoveryBlocked(v, n, "execution-unknown")>>, Steady, {}, {})
    BY SteadyEvents, PlainEvents
  <2>2. \/ Moves(c, "capture") \/ Moves(c, "terminate")
        \/ Commit(c, <<RecoveryBlocked(v, n, "execution-unknown")>>, Blocked(c))
    BY <1>7 DEF Inspect
  <2> HIDE DEF n, v
  <2> QED  BY <1>1, <1>2, <1>5, <1>6, <2>1, <2>2
<1>8. CASE TerminateRecovered(c)
  <2> DEFINE a == IF CleanupRecorded(v, n, cause) THEN <<>> ELSE <<Cleanup(v, n, cause, "unknown")>>
  <2>1. Batch(a, Steady, {}, {}) /\ Batch(<<RecoveryBlocked(v, n, "cleanup-unknown")>>, Steady, {}, {})
    <3>1. Plain(Cleanup(v, n, cause, "unknown"), Steady)
      BY <1>6, SteadyEvents DEF CleanupOutcome
    <3> QED  BY <3>1, SteadyEvents, NoEvent, PlainEvents
  <2>2. Moves(c, "capture") \/ Commit(c, a \o <<RecoveryBlocked(v, n, "cleanup-unknown")>>, Blocked(c))
    BY <1>8 DEF TerminateRecovered, CleanupUnknown
  <2> HIDE DEF a, n, v
  <2>3. Batch(a \o <<RecoveryBlocked(v, n, "cleanup-unknown")>>, Steady, {}, {})
    BY <2>1, PlainThen
  <2> QED  BY <1>1, <1>2, <1>5, <1>6, <2>2, <2>3
<1>9. CASE Orphan(c)
  <2> DEFINE e == [type |-> "AttemptOrphaned", node |-> n, attempt |-> v.nodes[n].attempts,
                   differs |-> Changed(n)]
             p == IF CleanupRecorded(v, n, cause) THEN <<>> ELSE <<Cleanup(v, n, cause, "confirmed")>>
             a == <<AttemptEvent(v, "ArtifactProduced", n)>>
  <2>1. Commit(c, a \o p \o <<e>>, "orphaned")
    BY <1>9 DEF Orphan
  <2>2. Plain(e, Neutral)
    <3>1. Plain(e, Quiet) /\ e.type = "AttemptOrphaned"
      <4>1. Changed(n) \in BOOLEAN
        BY DEF Changed
      <4> QED  BY <4>1, TypedEvents
    <3> HIDE DEF e
    <3> QED  BY <3>1, NeutralSets
  <2>3. Batch(a, Neutral, {}, {}) /\ Batch(p, Neutral, {}, {})
    <3>1. Plain(AttemptEvent(v, "ArtifactProduced", n), Neutral)
      BY NeutralEvents
    <3>2. Plain(Cleanup(v, n, cause, "confirmed"), Neutral)
      BY <1>6, NeutralEvents DEF CleanupOutcome
    <3> QED  BY <3>1, <3>2, NoEvent, PlainEvents
  <2> HIDE DEF e, p, a
  <2>4. Batch(<<e>>, Neutral, {}, {})
    BY <2>2, PlainEvents
  <2>5. Batch(a \o p \o <<e>>, Neutral, {}, {})
    BY <2>3, <2>4, PlainThen
  <2>6. Heeding(a \o p \o <<e>>, {})
    BY <2>5, HeedingNeutral
  <2> QED  BY <1>1, <2>1, <2>6
<1> QED  BY <1>3, <1>4, <1>7, <1>8, <1>9

\* A failed preflight pauses a node whose attempt left no edits.
LEMMA UnchangedPauses ==
    ASSUME NEW r \in Run, Edited(r), NEW n, ~r.nodes[n].last.differs,
           NEW s \in Materialized(r, PauseBoth(n, PreflightFailure, None))
    PROVE  Edited(s) /\ \A m \in Node : Waits(r.nodes[m]) => Waits(s.nodes[m])
<1> PICK a, b : a = Because("NodePaused", n, PreflightFailure) /\ b = Paused(None)
  OBVIOUS
<1>1. /\ Typed(a) /\ a.type = "NodePaused" /\ a.node = n /\ a.reason = "runtime-unavailable"
      /\ Typed(b) /\ b.type = "RunPaused"
  BY DEF Because, Paused, PreflightFailure, Typed, PauseKind, RunWide, RunOnly, NodeOnly
<1>2. PICK t \in Applied(r, a) : s \in Applied(t, b)
  <2>1. /\ Len(PauseBoth(n, PreflightFailure, None)) = 2
        /\ PauseBoth(n, PreflightFailure, None)[1] = a /\ PauseBoth(n, PreflightFailure, None)[2] = b
    BY DEF PauseBoth
  <2> QED  BY <2>1, Pair
<1>3. t \in Run /\ s.nodes = t.nodes
  <2>1. t \in Run
    BY <1>1, EventEffect
  <2> QED  BY <1>1, <1>2, <2>1, RunEffect DEF RunWide
<1>4. \A m \in Node : Waits(r.nodes[m]) => Waits(t.nodes[m])
  BY <1>1, HeedingEvent
<1>5. ASSUME NEW m \in Node PROVE Remembers(t.nodes[m])
  <2> PICK old : old = NodeOf(r, a)
    OBVIOUS
  <2> PICK pause : pause = a.reason
    OBVIOUS
  <2>1. t = Updated(r, a, [old EXCEPT !.status = "paused", !.pause = pause])
    BY <1>1 DEF Applied, NodePaused, When
  <2> PICK node : node = [old EXCEPT !.status = "paused", !.pause = pause]
    OBVIOUS
  <2>2. t.nodes[m] = IF m = n THEN node ELSE r.nodes[m]
    BY <1>1, <2>1 DEF Updated, Run
  <2>3. CASE m = n
    <3>1. old = r.nodes[n] /\ old \in NodeState
      BY <1>1, <2>3 DEF NodeOf, Run
    <3>2. node.status = "paused" /\ node.attempts = old.attempts /\ node.last = old.last
      BY <3>1 DEF NodeState
    <3>3. Remembers(old)
      BY <2>3, <3>1 DEF Edited
    <3> QED  BY <2>2, <2>3, <3>1, <3>2, <3>3 DEF Remembers
  <2>4. CASE m # n
    BY <2>2, <2>4 DEF Edited
  <2> QED  BY <2>3, <2>4
<1> QED  BY <1>3, <1>4, <1>5 DEF Edited

\* The node of a lost attempt pauses, is schedulable again or is cancelled with the run; a stopped run
\* resumes, stays as it is or goes on.
LEMMA ContinuingHeeds ==
    ASSUME IInv, ControlInv, EditsInv, NEW c \in Coord,
           \/ FinishRecoveredControl(c) \/ ContinueOrphaned(c) \/ PreflightFailsOrphaned(c)
           \/ ResumePaused(c) \/ StayStopped(c) \/ ContinueRunning(c)
    PROVE  EditsInv' /\ Resolves
<1> DEFINE v == view[c]
           n == NodeToContinue(c)
           ready == <<Because("NodeReady", n, "recovered")>>
<1>1. \A batch, next : Commit(c, batch, next) /\ Heeding(batch, {}) /\ next # "resuming"
        => EditsInv' /\ Resolves
  BY HarmlessCommit
<1>2. \A next : Moves(c, next) /\ next # "resuming" => EditsInv' /\ Resolves
  BY EditsMoves DEF Moves
<1>3. ASSUME fresh[c] PROVE v = run /\ run \in Run
  BY <1>3, FreshKnows
<1>4. CASE FinishRecoveredControl(c)
  <2>1. ctl[c] \in Control /\ "operator" \in Holding
    BY <1>4 DEF FinishRecoveredControl, ControlInv, ControlTyped, Holding
  <2>2. PICK b : /\ Commit(c, b, "returning")
                 /\ \/ b = PauseBoth(orphan[c], "operator", ctl[c])
                    \/ b = CancelNodes(v) \o <<Cancelled(ctl[c])>>
    BY <1>4 DEF FinishRecoveredControl
  <2>3. Heeding(PauseBoth(orphan[c], "operator", ctl[c]), {})
        /\ Heeding(CancelNodes(v) \o <<Cancelled(ctl[c])>>, {})
    BY <2>1, HeedingParts
  <2> QED  BY <1>1, <2>2, <2>3
<1>5. CASE ContinueOrphaned(c)
  <2>1. \/ \E reason \in Holding : Commit(c, PauseBoth(n, reason, None), "continue")
        \/ ~v.nodes[n].last.differs /\ Commit(c, ready \o ResumeBlocked(v), "continue")
    BY <1>5 DEF ContinueOrphaned, Holding
  <2>2. /\ \A reason \in Holding : Heeding(PauseBoth(n, reason, None), {})
        /\ Heeding(ready, {n}) /\ Heeding(ResumeBlocked(v), {n})
    <3> HIDE DEF n
    <3> QED  BY HeedingParts DEF ResumeBlocked
  <2> HIDE DEF n, ready
  <2>3. CASE \E reason \in Holding : Commit(c, PauseBoth(n, reason, None), "continue")
    BY <1>1, <2>2, <2>3
  <2>4. CASE ~v.nodes[n].last.differs /\ Commit(c, ready \o ResumeBlocked(v), "continue")
    <3>1. Heeding(ready \o ResumeBlocked(v), {n})
      BY <2>2, HeedingJoined
    <3>2. fresh[c] => Allows({n})
      BY <1>3, <2>4 DEF Allows
    <3> QED  BY <2>4, <3>1, <3>2, HeedingCommit
  <2> QED  BY <2>1, <2>3, <2>4
<1>6. CASE PreflightFailsOrphaned(c)
  <2>1. ~v.nodes[n].last.differs /\ Commit(c, PauseBoth(n, PreflightFailure, None), "continue")
    BY <1>6 DEF PreflightFailsOrphaned
  <2> HIDE DEF n
  <2>2. ASSUME fresh[c], NEW s \in Materialized(run, PauseBoth(n, PreflightFailure, None))
        PROVE  Minds(s, {})
    BY <1>3, <2>1, <2>2, UnchangedPauses DEF EditsInv, Minds
  <2>3. Allows({}) /\ "continue" # "resuming"
    BY DEF Allows
  <2> QED  BY <2>1, <2>2, <2>3, EditsCommit
<1>7. CASE ResumePaused(c)
  <2>1. /\ Commit(c, ReadyBatch(PausedNodes(v), "resumed") \o <<Resumed>>, "schedule")
        /\ pc[c] = "resuming" \/ MayResume(v)
    BY <1>7 DEF ResumePaused, At
  <2>2. Heeding(ReadyBatch(PausedNodes(v), "resumed") \o <<Resumed>>, PausedNodes(v))
    BY HeedingParts, HeedingJoined
  <2>3. fresh[c] => Allows(PausedNodes(v))
    <3> SUFFICES ASSUME fresh[c], NEW m \in PausedNodes(v) \cap Node, Waits(run.nodes[m]),
                        run.nodes[m].last.differs
                 PROVE  run.nodes[m].pause = "operator" \/ ~Changed(m)
      BY DEF Allows
    <3>1. v = run /\ Remembers(run.nodes[m]) /\ run.nodes[m].status = "paused"
      BY <1>3 DEF EditsInv, Edited, PausedNodes
    <3>2. run.nodes[m].last.status = "orphaned" /\ run.nodes[m].pause \in Holding
          /\ run.nodes[m].attempts # 0
      BY <3>1 DEF Remembers, Waits
    <3>3. pc[c] # "resuming"
      BY <3>2 DEF EditsInv, Renews, NoAttemptsYet
    <3>4. ~StaysPaused(run, m)
      BY <2>1, <3>1, <3>3 DEF MayResume
    <3> QED  BY <3>2, <3>4 DEF StaysPaused, Holding
  <2> QED  BY <2>1, <2>2, <2>3, HeedingCommit
<1>8. CASE StayStopped(c) \/ ContinueRunning(c)
  BY <1>2, <1>8 DEF StayStopped, ContinueRunning
<1> QED  BY <1>4, <1>5, <1>6, <1>7, <1>8

\* Its runtime is negotiated.
LEMMA NegotiatingHeeds ==
    ASSUME IInv, ControlInv, EditsInv, NEW c \in Coord, Negotiate(c)
    PROVE  EditsInv' /\ Resolves
<1> PICK b : b = <<RunEvent("RuntimeNegotiated")>>
  OBVIOUS
<1>1. NeedsNegotiation(view[c]) /\ \E next \in {"prepare", "resuming"} : Commit(c, b, next)
  BY DEF Negotiate
<1>2. b # <<>>
  OBVIOUS
<1>3. ASSUME fresh[c], NEW s \in Materialized(run, b)
      PROVE  Minds(s, {}) /\ NoAttemptsYet(s)
  <2>1. view[c] = run /\ run \in Run
    BY <1>3, FreshKnows
  <2>2. s.nodes = run.nodes
    BY <1>3, <2>1, NegotiationKeeps
  <2> QED  BY <1>1, <2>1, <2>2 DEF NeedsNegotiation, NoAttemptsYet, EditsInv, Edited, Minds
<1>4. Allows({})
  BY DEF Allows
<1> QED  BY <1>1, <1>2, <1>3, <1>4, EditsCommit

-----------------------------------------------------------------------------
\* A control at a boundary, the next node and its preflight; its attempt is prepared and started.
LEMMA SchedulingHeeds ==
    ASSUME IInv, ControlInv, EditsInv, NEW c \in Coord,
           \/ Boundary(c) \/ Schedule(c) \/ StopCoordinating(c) \/ Preflight(c) \/ PrepareAttempt(c)
           \/ Authorize(c)
    PROVE  EditsInv' /\ Resolves
<1> DEFINE v == view[c]
<1>1. \A batch, next : Commit(c, batch, next) /\ Heeding(batch, {}) /\ next # "resuming"
        => EditsInv' /\ Resolves
  BY HarmlessCommit
<1>2. \A next : Moves(c, next) /\ next # "resuming" => EditsInv' /\ Resolves
  BY EditsMoves DEF Moves
<1>3. \A batch : Batch(batch, Neutral, {}, {}) => Heeding(batch, {})
  BY HeedingNeutral
<1>4. CASE Boundary(c)
  <2>1. PICK k \in pending : Commit(c, BoundaryBatch(v, k, TRUE), "schedule")
    BY <1>4 DEF Boundary
  <2>2. k \in Control
    BY DEF ControlInv, ControlTyped
  <2>3. Heeding(BoundaryBatch(v, k, TRUE), {})
    BY <2>2, BoundaryHeeds
  <2> QED  BY <1>1, <2>1, <2>3
<1>5. CASE Schedule(c)
  <2>1. \/ Moves(c, "preflight") \/ Moves(c, "returning")
        \/ Commit(c, ReadyBatch(Executable(v), "dependencies-satisfied"), "preflight")
    BY <1>5 DEF Schedule
  <2>2. Heeding(ReadyBatch(Executable(v), "dependencies-satisfied"), {})
    BY HeedingParts
  <2> QED  BY <1>1, <1>2, <2>1, <2>2
<1>6. CASE StopCoordinating(c)
  BY <1>2, <1>6 DEF StopCoordinating
<1>7. CASE Preflight(c)
  <2> DEFINE n == First(Ready(v))
  <2>1. \/ Commit(c, PauseBoth(n, "attempt-budget-exhausted", None), "schedule")
        \/ Moves(c, "prepare")
        \/ Commit(c, <<Paused(None)>>, "schedule")
    BY <1>7 DEF Preflight
  <2> HIDE DEF n
  <2>2. Heeding(PauseBoth(n, "attempt-budget-exhausted", None), {}) /\ Heeding(<<Paused(None)>>, {})
    BY HeedingParts DEF Holding
  <2> QED  BY <1>1, <1>2, <2>1, <2>2
<1>8. CASE PrepareAttempt(c)
  <2> DEFINE n == First(Ready(v))
             k == v.nodes[n].attempts + 1
             Numbered(type) == [type |-> type, node |-> n, attempt |-> k]
             batch == <<Numbered("AttemptScheduled"), Numbered("ArtifactProduced"),
                        Numbered("AttemptPrepared")>>
  <2>1. Commit(c, batch, "preparing")
    BY <1>8 DEF PrepareAttempt
  <2>2. \A type \in Preparing : Plain(Numbered(type), Neutral)
    <3>1. \A type \in Preparing : Typed(Numbered(type)) /\ Numbered(type).type = type
      BY DEF Preparing, Typed, RunWide, RunOnly, NodeOnly
    <3>2. Preparing \subseteq Neutral \ (Asks \cup Answers)
      BY NeutralSets
    <3> QED  BY <3>1, <3>2 DEF Plain
  <2> HIDE DEF n, k, Numbered
  <2>3. Batch(batch, Neutral, {}, {})
    BY <2>2, PlainEvents DEF Preparing
  <2> HIDE DEF batch
  <2> QED  BY <1>1, <1>3, <2>1, <2>3
<1>9. CASE Authorize(c)
  <2> DEFINE e == AttemptEvent(v, "AttemptStartAuthorized", First(Active(v)))
  <2>1. Commit(c, <<e>>, "starting")
    BY <1>9 DEF Authorize
  <2>2. Plain(e, Neutral)
    BY NeutralEvents
  <2> HIDE DEF e
  <2>3. Batch(<<e>>, Neutral, {}, {})
    BY <2>2, PlainEvents
  <2> QED  BY <1>1, <1>3, <2>1, <2>3
<1> QED  BY <1>4, <1>5, <1>6, <1>7, <1>8, <1>9

\* It is driven; its deadline passes or a control is observed; it is collected or cancelled, and may
\* pause or be cancelled with the run.
LEMMA DrivingHeeds ==
    ASSUME IInv, ControlInv, EditsInv, NEW c \in Coord,
           \/ Drive(c) \/ Collect(c) \/ ObserveControl(c) \/ RequestTimeout(c) \/ Cancel(c)
           \/ CancelUnconfirmed(c) \/ FinishActiveControl(c) \/ ReadyDependents(c)
    PROVE  EditsInv' /\ Resolves
<1> DEFINE v == view[c]
           n == First(Active(v))
<1>1. \A batch, next : Commit(c, batch, next) /\ Heeding(batch, {}) /\ next # "resuming"
        => EditsInv' /\ Resolves
  BY HarmlessCommit
<1>2. \A next : Moves(c, next) /\ next # "resuming" => EditsInv' /\ Resolves
  BY EditsMoves DEF Moves
<1>3. \A batch : Batch(batch, Neutral, {}, {}) \/ Batch(batch, Steady, {}, {}) => Heeding(batch, {})
  BY Wider, NeutralSets, HeedingNeutral
<1>4. ASSUME pc[c] \in Controlling PROVE ctl[c] \in Control /\ ActionOf[ctl[c]] \in Cause
  <2>1. fresh[c]
    BY <1>4 DEF IInv, ActingIsFresh, Acting, Executing, Controlling
  <2>2. ctl[c] # None
    BY <1>4, <2>1, FreshKnows DEF Known
  <2> QED  BY <2>2, CoordinatorConstants DEF ControlInv, ControlTyped, Cause
<1>5. CASE Drive(c) \/ Collect(c) \/ Cancel(c)
  BY <1>2, <1>5 DEF Drive, Collect, Cancel
<1>6. CASE ObserveControl(c)
  <2>1. PICK k \in pending : Commit(c, <<Observed(k)>>, "control")
    BY <1>6 DEF ObserveControl
  <2>2. k \in Control
    BY DEF ControlInv, ControlTyped
  <2>3. Heeding(<<Observed(k)>>, {})
    BY <2>2, HeedingParts
  <2> QED  BY <1>1, <2>1, <2>3
<1>7. CASE RequestTimeout(c)
  <2>1. Commit(c, <<AttemptEvent(v, "AttemptTimeoutRequested", n)>>, "timeout")
    BY <1>7 DEF RequestTimeout
  <2>2. Batch(<<AttemptEvent(v, "AttemptTimeoutRequested", n)>>, Steady, {}, {})
    BY SteadyEvents, PlainEvents
  <2> HIDE DEF n
  <2> QED  BY <1>1, <1>3, <2>1, <2>2
<1>8. CASE CancelUnconfirmed(c)
  <2> DEFINE late == <<CancellationCompleted(v, n, "failed"), Cleanup(v, n, "timeout", "unknown")>>
             stuck == <<Cleanup(v, n, ActionOf[ctl[c]], "unknown")>>
             blocked == <<RecoveryBlocked(v, n, "cleanup-unknown")>>
  <2>1. \/ Commit(c, late \o blocked, "schedule")
        \/ pc[c] \in Controlling /\ Commit(c, stuck \o blocked, "schedule")
    BY <1>8 DEF CancelUnconfirmed, At, Controlling
  <2>2. Batch(late, Steady, {}, {}) /\ Batch(blocked, Steady, {}, {})
    <3>1. /\ Plain(CancellationCompleted(v, n, "failed"), Steady)
          /\ Plain(Cleanup(v, n, "timeout", "unknown"), Steady)
          /\ Plain(RecoveryBlocked(v, n, "cleanup-unknown"), Steady)
      BY SteadyEvents DEF Cause, CleanupOutcome, CancellationOutcome
    <3> QED  BY <3>1, PlainEvents
  <2>3. ASSUME pc[c] \in Controlling PROVE Batch(stuck, Steady, {}, {})
    <3>1. Plain(Cleanup(v, n, ActionOf[ctl[c]], "unknown"), Steady)
      BY <1>4, <2>3, SteadyEvents DEF CleanupOutcome
    <3> QED  BY <3>1, PlainEvents
  <2> HIDE DEF late, stuck, blocked
  <2>4. Heeding(late \o blocked, {}) /\ (pc[c] \in Controlling => Heeding(stuck \o blocked, {}))
    BY <1>3, <2>2, <2>3, HeedingJoined
  <2> QED  BY <1>1, <2>1, <2>4
<1>9. CASE FinishActiveControl(c)
  <2> DEFINE a == <<AttemptEvent(v, "ArtifactProduced", n), AttemptEvent(v, "WorkspaceObserved", n),
                    Cleanup(v, n, ActionOf[ctl[c]], "confirmed"), AttemptEvent(v, "AttemptCancelled", n)>>
  <2>1. ctl[c] \in Control /\ ActionOf[ctl[c]] \in Cause
    BY <1>4, <1>9 DEF FinishActiveControl, At, Controlling
  <2>2. PICK b : /\ Commit(c, a \o b, "schedule")
                 /\ \/ b = PauseBoth(n, "operator", ctl[c])
                    \/ b = CancelNodes(v) \o <<Cancelled(ctl[c])>>
    BY <1>9 DEF FinishActiveControl
  <2>3. Batch(a, Neutral, {}, {})
    <3>1. /\ Plain(AttemptEvent(v, "ArtifactProduced", n), Neutral)
          /\ Plain(AttemptEvent(v, "WorkspaceObserved", n), Neutral)
          /\ Plain(Cleanup(v, n, ActionOf[ctl[c]], "confirmed"), Neutral)
          /\ Plain(AttemptEvent(v, "AttemptCancelled", n), Neutral)
      BY <2>1, NeutralEvents DEF CleanupOutcome
    <3> HIDE DEF n
    <3> QED  BY <3>1, PlainEvents
  <2> HIDE DEF a, n
  <2>4. Heeding(PauseBoth(n, "operator", ctl[c]), {}) /\ Heeding(CancelNodes(v) \o <<Cancelled(ctl[c])>>, {})
    BY <2>1, HeedingParts DEF Holding
  <2>5. Heeding(a \o b, {})
    BY <1>3, <2>2, <2>3, <2>4, HeedingJoined
  <2> QED  BY <1>1, <2>2, <2>5
<1>10. CASE ReadyDependents(c)
  <2>1. Heeding(ReadyBatch(Executable(v), "dependencies-satisfied"), {})
    BY HeedingParts
  <2> QED  BY <1>1, <1>10, <2>1 DEF ReadyDependents
<1> QED  BY <1>5, <1>6, <1>7, <1>8, <1>9, <1>10

\* What follows a failure: a conflict, a retry, or the end of the run.
LEMMA FailureHeeds ==
    ASSUME NEW v, NEW n, NEW exhausted
    PROVE  Heeding(FailureBatch(v, n, exhausted), {})
<1> PICK e, last : /\ e = [type |-> "AttemptFailed", node |-> n, attempt |-> v.nodes[n].attempts,
                           exhausted |-> exhausted]
                   /\ last = [type |-> "RunCompleted", outcome |-> "failed"]
  OBVIOUS
<1> PICK failed, retry, conflict :
      /\ failed = <<NodeEvent("NodeFailed", n)>> /\ retry = <<Because("NodeReady", n, "retry")>>
      /\ conflict = PauseBoth(n, "workspace-conflict", None)
  OBVIOUS
<1> PICK b : b = IF Changed(n) THEN conflict ELSE IF BudgetLeft(v, n) THEN retry
                 ELSE failed \o BlockOthers(v, n) \o <<last>>
  OBVIOUS
<1>1. FailureBatch(v, n, exhausted) = <<e>> \o b
  BY DEF FailureBatch
<1>2. Heeding(<<e>>, {}) /\ Heeding(failed, {}) /\ Heeding(<<last>>, {})
  <2>1. Plain(e, Neutral) /\ Plain(NodeEvent("NodeFailed", n), Neutral) /\ Plain(last, Neutral)
    BY NeutralEvents
  <2>2. Batch(<<e>>, Neutral, {}, {}) /\ Batch(failed, Neutral, {}, {}) /\ Batch(<<last>>, Neutral, {}, {})
    BY <2>1, PlainEvents
  <2> QED  BY <2>2, HeedingNeutral
<1>3. Heeding(conflict, {}) /\ Heeding(retry, {}) /\ Heeding(BlockOthers(v, n), {})
  BY HeedingParts DEF Holding
<1>4. Heeding(failed \o BlockOthers(v, n), {})
  BY <1>2, <1>3, HeedingJoined
<1>5. Heeding(failed \o BlockOthers(v, n) \o <<last>>, {})
  BY <1>2, <1>4, HeedingJoined
<1>6. Heeding(b, {})
  BY <1>3, <1>5
<1> QED  BY <1>1, <1>2, <1>6, HeedingJoined

\* The attempt ends: its node succeeds, or ends the run with the others.
LEMMA FinishHeeds ==
    ASSUME IInv, ControlInv, EditsInv, NEW c \in Coord,
           FinishExecution(c) \/ FinishTimeout(c) \/ CompleteRun(c)
    PROVE  EditsInv' /\ Resolves
<1> DEFINE v == view[c]
           n == First(Active(v))
           x(type) == AttemptEvent(v, type, n)
           evidence == <<x("ArtifactProduced"), x("WorkspaceObserved")>>
<1>1. \A batch, next : Commit(c, batch, next) /\ Heeding(batch, {}) /\ next # "resuming"
        => EditsInv' /\ Resolves
  BY HarmlessCommit
<1>2. \A next : Moves(c, next) /\ next # "resuming" => EditsInv' /\ Resolves
  BY EditsMoves DEF Moves
<1>3. \A batch : Batch(batch, Neutral, {}, {}) => Heeding(batch, {})
  BY HeedingNeutral
<1>4. \A type \in {"ArtifactProduced", "WorkspaceObserved", "AttemptSucceeded", "AttemptBlocked",
                   "AttemptCancelled"} : Plain(x(type), Neutral)
  BY NeutralEvents
<1>5. CASE FinishTimeout(c)
  <2> DEFINE a == <<CancellationCompleted(v, n, "succeeded"), Cleanup(v, n, "timeout", "confirmed"),
                    x("ArtifactProduced"), x("WorkspaceObserved")>>
  <2>1. Commit(c, a \o FailureBatch(v, n, TRUE), "schedule")
    BY <1>5 DEF FinishTimeout
  <2>2. /\ Plain(CancellationCompleted(v, n, "succeeded"), Neutral)
        /\ Plain(Cleanup(v, n, "timeout", "confirmed"), Neutral)
    BY NeutralEvents DEF Cause, CleanupOutcome, CancellationOutcome
  <2> HIDE DEF x, n
  <2>3. Batch(a, Neutral, {}, {})
    BY <1>4, <2>2, PlainEvents
  <2> HIDE DEF a
  <2>4. Heeding(a \o FailureBatch(v, n, TRUE), {})
    BY <1>3, <2>3, FailureHeeds, HeedingJoined
  <2> QED  BY <1>1, <2>1, <2>4
<1>6. CASE FinishExecution(c)
  <2> DEFINE succeeded == <<x("AttemptSucceeded"), NodeEvent("NodeSucceeded", n)>>
             blocked == <<x("AttemptBlocked"), NodeEvent("NodeBlocked", n)>>
             cancelled == <<x("AttemptCancelled")>>
             last == [type |-> "RunCancelled", durable |-> FALSE, control |-> None]
             stop == RunEvent("RunBlocked")
  <2>1. \/ Commit(c, evidence \o succeeded, "succeeded")
        \/ Commit(c, evidence \o FailureBatch(v, n, FALSE), "schedule")
        \/ Commit(c, evidence \o blocked \o BlockOthers(v, n) \o <<stop>>, "schedule")
        \/ Commit(c, evidence \o cancelled \o CancelNodes(v) \o <<last>>, "schedule")
    BY <1>6 DEF FinishExecution
  <2>2. /\ Plain(NodeEvent("NodeSucceeded", n), Neutral) /\ Plain(NodeEvent("NodeBlocked", n), Neutral)
        /\ Plain(stop, Neutral)
    BY NeutralEvents
  <2>3. Batch(<<last>>, Neutral, {}, {})
    <3>1. Typed(last) /\ last.type = "RunCancelled" /\ last.control = None
      BY DEF Typed, RunWide
    <3>2. NamedBy(last, Asks) = {} /\ NamedBy(last, Answers) = {} /\ last.type \in Neutral
      BY <3>1, NeutralSets DEF NamedBy, Asks, Answers
    <3> HIDE DEF last
    <3>3. Batch(<<last>>, Neutral, NamedBy(last, Asks), NamedBy(last, Answers))
      BY <3>1, <3>2, OneEvent
    <3> QED  BY <3>2, <3>3
  <2> HIDE DEF x, n, last, stop
  <2>4. /\ Heeding(evidence, {}) /\ Heeding(succeeded, {}) /\ Heeding(blocked, {})
        /\ Heeding(cancelled, {}) /\ Heeding(<<last>>, {}) /\ Heeding(<<stop>>, {})
    <3>1. /\ Batch(evidence, Neutral, {}, {}) /\ Batch(succeeded, Neutral, {}, {})
          /\ Batch(blocked, Neutral, {}, {}) /\ Batch(cancelled, Neutral, {}, {})
          /\ Batch(<<stop>>, Neutral, {}, {})
      BY <1>4, <2>2, PlainEvents
    <3> QED  BY <1>3, <2>3, <3>1
  <2>5. Heeding(BlockOthers(v, n), {}) /\ Heeding(CancelNodes(v), {})
    BY HeedingParts
  <2> HIDE DEF evidence, succeeded, blocked, cancelled
  <2>6. /\ Heeding(evidence \o succeeded, {}) /\ Heeding(evidence \o FailureBatch(v, n, FALSE), {})
    BY <2>4, FailureHeeds, HeedingJoined
  <2>7. Heeding(evidence \o blocked \o BlockOthers(v, n) \o <<stop>>, {})
    <3>1. Heeding(evidence \o blocked \o BlockOthers(v, n), {})
      <4>1. Heeding(evidence \o blocked, {})
        BY <2>4, HeedingJoined
      <4> QED  BY <2>5, <4>1, HeedingJoined
    <3> QED  BY <2>4, <3>1, HeedingJoined
  <2>8. Heeding(evidence \o cancelled \o CancelNodes(v) \o <<last>>, {})
    <3>1. Heeding(evidence \o cancelled \o CancelNodes(v), {})
      <4>1. Heeding(evidence \o cancelled, {})
        BY <2>4, HeedingJoined
      <4> QED  BY <2>5, <4>1, HeedingJoined
    <3> QED  BY <2>4, <3>1, HeedingJoined
  <2> QED  BY <1>1, <2>1, <2>6, <2>7, <2>8
<1>7. CASE CompleteRun(c)
  <2> PICK e : e = [type |-> "RunCompleted", outcome |-> "succeeded"]
    OBVIOUS
  <2>1. Moves(c, "schedule") \/ Commit(c, <<e>>, "schedule")
    BY <1>7 DEF CompleteRun
  <2>2. Plain(e, Neutral)
    BY NeutralEvents
  <2>3. Batch(<<e>>, Neutral, {}, {})
    BY <2>2, PlainEvents
  <2> QED  BY <1>1, <1>2, <1>3, <2>1, <2>3
<1> QED  BY <1>5, <1>6, <1>7

\* Every step of a session heeds edits.
LEMMA EditsInductive ==
    ASSUME IInv, ControlInv, EditsInv, [Next]_vars
    PROVE  EditsInv' /\ Resolves
<1>1. ASSUME NEW c \in Coord, Load(c) \/ Acquire(c) \/ Refused(c) \/ End(c) \/ SessionFails(c) \/ Crash(c)
      PROVE  EditsInv' /\ Resolves
  <2>1. /\ UNCHANGED run
        /\ \E next \in {"loaded", "recover", "idle", "abandon", "failing"} : pc' = [pc EXCEPT ![c] = next]
    BY <1>1 DEF Load, Acquire, Refused, End, HostFails, Abandon, Release, SessionFails, Crash, Moves, Gone,
                store
  <2>2. \A d \in Coord \ {c} : fresh'[d] = fresh[d]
    BY <1>1 DEF Load, Acquire, Refused, End, HostFails, Abandon, Release, SessionFails, Crash, Moves, Gone,
                session, IInv, SessionTyped
  <2>3. DOMAIN pc = Coord
    BY DEF IInv, SessionTyped
  <2>4. pc'[c] # "resuming" /\ \A d \in Coord \ {c} : pc'[d] = pc[d] /\ fresh'[d] = fresh[d]
    BY <2>1, <2>2, <2>3
  <2> QED  BY <2>1, <2>4, EditsStay
<1>2. CASE \/ \E k \in Control : SubmitControl(k)
           \/ \E e \in Execution : Host(e)
           \/ OperatorEdits
           \/ UNCHANGED vars
  <2>1. UNCHANGED <<run, pc, fresh>>
    BY <1>2 DEF SubmitControl, Host, PrepareReturns, AuthorizeReturns, WorkerEnds, SupervisorStops,
                WorkerChangesWorkspace, OperatorEdits, vars, store, session
  <2>2. Resolves
    BY <2>1 DEF Resolves
  <2> QED  BY <2>1, <2>2 DEF EditsInv, Edited, Renews, NoAttemptsYet
<1>3. ASSUME NEW c \in Coord, Recovery(c) PROVE EditsInv' /\ Resolves
  BY <1>1, <1>3, ReconcilingHeeds, ContinuingHeeds, NegotiatingHeeds DEF Recovery
<1>4. ASSUME NEW c \in Coord, Coordination(c) PROVE EditsInv' /\ Resolves
  BY <1>4, SchedulingHeeds, DrivingHeeds, FinishHeeds DEF Coordination
<1> QED  BY <1>1, <1>2, <1>3, <1>4 DEF Next

\* resumePaused, continueOrphaned, finishRecoveredControl, finishResult: no crash, takeover, retry or
\* control makes the node of an attempt that left edits schedulable in a workspace that is not the one
\* the attempt started from, unless an operator's control paused it.
THEOREM EditsStayResolved == Spec => EditsAreResolved
<1>1. Init => EditsInv
  <2>1. ASSUME NEW n \in Node
        PROVE  /\ InitialRun.nodes[n].status \in {"pending", "ready"}
               /\ InitialRun.nodes[n].last.status = "none"
    <3> PICK N : N = Executable(CreatedRun)
      OBVIOUS
    <3>1. CreatedRun.nodes[n].status = "pending" /\ CreatedRun.nodes[n].last.status = "none"
      BY DEF CreatedRun, NoAttempt
    <3>2. InitialRun.nodes[n] = IF n \in N THEN [CreatedRun.nodes[n] EXCEPT !.status = "ready"]
                                ELSE CreatedRun.nodes[n]
      BY DEF InitialRun, CreatedRun
    <3>3. LET x == [CreatedRun.nodes[n] EXCEPT !.status = "ready"]
          IN x.status = "ready" /\ x.last = CreatedRun.nodes[n].last
      BY DEF CreatedRun
    <3> QED  BY <3>1, <3>2, <3>3
  <2>2. Init => run = InitialRun /\ \A c \in Coord : pc[c] # "resuming"
    BY DEF Init
  <2> QED  BY <2>1, <2>2 DEF EditsInv, Edited, Remembers, Renews
<1>2. IInv /\ ControlInv /\ EditsInv /\ [Next]_vars => EditsInv' /\ [Resolves]_vars
  BY EditsInductive
<1>3. Spec => [][Resolves]_vars
  BY <1>1, <1>2, ControlInvariance, PTL DEF Spec
<1> QED  BY <1>3 DEF EditsAreResolved, Resolves

-----------------------------------------------------------------------------
(* What a node's latest attempt has *)

\* An attempt that may run has its plan, and one that was only prepared a node that does not run.
Fit(x) ==
    /\ x.last.status \in {"prepared", "running"} => x.last.plan
    /\ x.last.status = "prepared" => x.status \in {"ready", "paused", "blocked", "cancelled"}

\* The cleanup of an attempt is not confirmed before its end.
Past(x) == x.last.status \notin {"scheduled", "prepared", "running"}
Doubted(x) == ~Past(x) => \A c \in x.last.cleanup : c[2] = "unknown"
Vague(e) == e.type = "ExecutionCleanupObserved" => e.outcome = "unknown"

Sound(r) == r.configured /\ \A n \in Node : Fit(r.nodes[n]) /\ Doubted(r.nodes[n])

\* What an event makes of that.
Becomes(old, e, node) ==
    /\ Fit(old) => Fit(node)
    /\ Vague(e) /\ Doubted(old) => Doubted(node)
    /\ Past(old) /\ e.type # "AttemptScheduled" => Past(node)
    /\ e.type \in EndsAttempt => Past(node)
LEMMA SoundNode ==
    ASSUME NEW r \in Run, r.configured, NEW e, Typed(e), e.type \in NodeOnly, e.node \in Node,
           NEW s \in Applied(r, e)
    PROVE  \E node : s = Updated(r, e, node) /\ Becomes(NodeOf(r, e), e, node)
<1>1. PICK old, last : old = NodeOf(r, e) /\ last = old.last
  OBVIOUS
<1>2. old \in NodeState /\ last \in Attempt
  BY <1>1 DEF NodeOf, Run, NodeState
<1> USE DEF When
<1>3. CASE e.type \in {"RuntimeEventObserved", "AttemptTimeoutRequested", "AttemptCancellationCompleted",
                       "LateResultObserved"}
  <2>1. PICK l : /\ s = Updated(r, e, [old EXCEPT !.last = l])
                 /\ \E x : l \in {[last EXCEPT !.timeout = x], [last EXCEPT !.usage = x],
                                  [last EXCEPT !.late = x]}
    <3>1. CASE e.type = "RuntimeEventObserved"
      <4>1. \E x : s = Updated(r, e, [old EXCEPT !.last = [last EXCEPT !.usage = x]])
        BY <1>1, <3>1 DEF Applied, RuntimeEventObserved, AttemptBecomes
      <4> QED  BY <4>1
    <3>2. CASE e.type \in {"AttemptTimeoutRequested", "AttemptCancellationCompleted"}
      <4>1. \E x : s = Updated(r, e, [old EXCEPT !.last = [last EXCEPT !.timeout = x]])
        BY <1>1, <3>2 DEF Applied, AttemptTimeoutRequested, AttemptCancellationCompleted, AttemptBecomes
      <4> QED  BY <4>1
    <3>3. CASE e.type = "LateResultObserved"
      <4>1. \E x : s = Updated(r, e, [old EXCEPT !.last = [last EXCEPT !.late = x]])
        BY <1>1, <3>3 DEF Applied, LateResultObserved, AttemptBecomes
      <4> QED  BY <4>1
    <3> QED  BY <1>3, <3>1, <3>2, <3>3
  <2>2. l.status = last.status /\ l.plan = last.plan /\ l.cleanup = last.cleanup
    BY <1>2, <2>1 DEF Attempt
  <2>3. PICK node : node = [old EXCEPT !.last = l]
    OBVIOUS
  <2>4. node.status = old.status /\ node.last = l
    BY <1>2, <2>3 DEF NodeState
  <2>5. Becomes(old, e, node)
    BY <1>1, <1>3, <2>2, <2>4 DEF Becomes, Fit, Doubted, Past, EndsAttempt
  <2> QED  BY <1>1, <2>1, <2>3, <2>5
<1>4. CASE e.type = "ExecutionCleanupObserved"
  <2>1. PICK l : l = [last EXCEPT !.cleanup = @ \cup {<<e.cause, e.outcome>>}]
    OBVIOUS
  <2>2. s = Updated(r, e, [old EXCEPT !.last = l])
    BY <1>1, <1>4, <2>1 DEF Applied, ExecutionCleanupObserved, AttemptBecomes
  <2>3. l.status = last.status /\ l.plan = last.plan /\ l.cleanup = last.cleanup \cup {<<e.cause, e.outcome>>}
    BY <1>2, <2>1 DEF Attempt
  <2>4. PICK node : node = [old EXCEPT !.last = l]
    OBVIOUS
  <2>5. node.status = old.status /\ node.last = l
    BY <1>2, <2>4 DEF NodeState
  <2>6. Becomes(old, e, node)
    BY <1>1, <1>4, <2>3, <2>5 DEF Becomes, Fit, Doubted, Past, Vague, EndsAttempt
  <2> QED  BY <1>1, <2>2, <2>4, <2>6
<1>5. CASE e.type = "AttemptPrepared"
  <2>1. PICK l : l = [last EXCEPT !.status = "prepared", !.plan = TRUE]
    OBVIOUS
  <2>2. s = Updated(r, e, [old EXCEPT !.last = l]) /\ old.status = "ready" /\ last.status = "scheduled"
    BY <1>1, <1>5, <2>1 DEF Applied, AttemptPrepared, AttemptBecomes, NodeIn, CurrentAttempt
  <2>3. l.status = "prepared" /\ l.plan /\ l.cleanup = last.cleanup
    BY <1>2, <2>1 DEF Attempt
  <2>4. PICK node : node = [old EXCEPT !.last = l]
    OBVIOUS
  <2>5. node.status = old.status /\ node.last = l
    BY <1>2, <2>4 DEF NodeState
  <2>6. Becomes(old, e, node)
    BY <1>1, <1>5, <2>2, <2>3, <2>5 DEF Becomes, Fit, Doubted, Past, EndsAttempt
  <2> QED  BY <1>1, <2>2, <2>4, <2>6
<1>6. CASE e.type \in {"AttemptFailed", "AttemptSucceeded", "AttemptBlocked", "AttemptCancelled"}
  <2>1. PICK x \in {"failed", "succeeded", "blocked", "cancelled"} :
          s = Updated(r, e, [old EXCEPT !.last = [last EXCEPT !.status = x]])
    BY <1>1, <1>6 DEF Applied, AttemptFailed, AttemptEnded, AttemptBecomes
  <2>2. PICK l : l = [last EXCEPT !.status = x]
    OBVIOUS
  <2>3. l.status = x
    BY <1>2, <2>2 DEF Attempt
  <2>4. PICK node : node = [old EXCEPT !.last = l]
    OBVIOUS
  <2>5. node.status = old.status /\ node.last = l
    BY <1>2, <2>4 DEF NodeState
  <2>6. Becomes(old, e, node)
    BY <2>3, <2>5 DEF Becomes, Fit, Doubted, Past
  <2> QED  BY <1>1, <2>1, <2>2, <2>4, <2>6
<1>7. CASE e.type = "AttemptScheduled"
  <2>1. PICK l, attempts : l = [NoAttempt EXCEPT !.status = "scheduled"] /\ attempts = e.attempt
    OBVIOUS
  <2>2. s = Updated(r, e, [old EXCEPT !.attempts = attempts, !.last = l])
    BY <1>1, <1>7, <2>1 DEF Applied, AttemptScheduled
  <2>3. PICK node : node = [old EXCEPT !.attempts = attempts, !.last = l]
    OBVIOUS
  <2>4. node.last = l /\ l.status = "scheduled" /\ l.cleanup = {}
    BY <1>2, <2>1, <2>3 DEF NodeState, NoAttempt
  <2>5. Becomes(old, e, node)
    BY <1>7, <2>4 DEF Becomes, Fit, Doubted, Past, EndsAttempt
  <2> QED  BY <1>1, <2>2, <2>3, <2>5
<1>8. CASE e.type \in {"AttemptStartAuthorized", "AttemptStarted"}
  <2>1. PICK l : l = [last EXCEPT !.status = "running"]
    OBVIOUS
  <2>2. /\ s = Updated(r, e, [old EXCEPT !.status = "running", !.last = l]) /\ last.status = "prepared"
    BY <1>1, <1>8, <2>1 DEF Applied, AttemptStartAuthorized, AttemptStarted, Started, CurrentAttempt
  <2>3. PICK node : node = [old EXCEPT !.status = "running", !.last = l]
    OBVIOUS
  <2>4. node.last = l /\ l.status = "running" /\ l.cleanup = last.cleanup /\ l.plan = last.plan
    BY <1>2, <2>1, <2>3 DEF NodeState, Attempt
  <2>5. Becomes(old, e, node)
    BY <1>1, <1>8, <2>2, <2>4 DEF Becomes, Fit, Doubted, Past, EndsAttempt
  <2> QED  BY <1>1, <2>2, <2>3, <2>5
<1>9. CASE e.type = "AttemptOrphaned"
  <2>1. PICK l : l = [last EXCEPT !.status = "orphaned", !.differs = e.differs]
    OBVIOUS
  <2>2. s = Updated(r, e, [old EXCEPT !.status = "running", !.last = l])
    BY <1>1, <1>9, <2>1 DEF Applied, AttemptOrphaned
  <2>3. PICK node : node = [old EXCEPT !.status = "running", !.last = l]
    OBVIOUS
  <2>4. node.last = l /\ l.status = "orphaned"
    BY <1>2, <2>1, <2>3 DEF NodeState, Attempt
  <2>5. Becomes(old, e, node)
    BY <2>4 DEF Becomes, Fit, Doubted, Past
  <2> QED  BY <1>1, <2>2, <2>3, <2>5
<1>10. CASE e.type \in {"NodeSucceeded", "NodeFailed", "NodeBlocked", "NodeCancelled"}
  <2>1. PICK status \in {"succeeded", "failed", "blocked", "cancelled"} :
          /\ s = Updated(r, e, [old EXCEPT !.status = status])
          /\ status \in {"succeeded", "failed"} => last.status = status
    BY <1>1, <1>10 DEF Applied, NodeEnded, NodeBlocked, NodeCancelled, NodeBecomes
  <2>2. PICK node : node = [old EXCEPT !.status = status]
    OBVIOUS
  <2>3. node.status = status /\ node.last = last
    BY <1>1, <1>2, <2>2 DEF NodeState
  <2>4. Becomes(old, e, node)
    BY <1>1, <1>10, <2>1, <2>3 DEF Becomes, Fit, Doubted, Past, EndsAttempt
  <2> QED  BY <1>1, <2>1, <2>2, <2>4
<1>11. CASE e.type \in {"NodeReady", "NodePaused"}
  <2>1. \E status \in {"ready", "paused"} : \E pause :
          s = Updated(r, e, [old EXCEPT !.status = status, !.pause = pause])
    <3>1. [old EXCEPT !.status = "paused", !.pause = old.pause] = [old EXCEPT !.status = "paused"]
      BY <1>2 DEF NodeState
    <3>2. CASE e.type = "NodeReady"
      BY <1>1, <3>2 DEF Applied, NodeReady
    <3>3. CASE e.type = "NodePaused"
      BY <1>1, <3>1, <3>3 DEF Applied, NodePaused, NodeBecomes
    <3> QED  BY <1>11, <3>2, <3>3
  <2>5. PICK status \in {"ready", "paused"} : \E pause :
          s = Updated(r, e, [old EXCEPT !.status = status, !.pause = pause])
    BY <2>1
  <2>6. PICK pause : s = Updated(r, e, [old EXCEPT !.status = status, !.pause = pause])
    BY <2>5
  <2>2. PICK node : node = [old EXCEPT !.status = status, !.pause = pause]
    OBVIOUS
  <2>3. node.status = status /\ node.last = last
    BY <1>1, <1>2, <2>2 DEF NodeState
  <2>4. Becomes(old, e, node)
    BY <1>1, <1>11, <2>5, <2>3 DEF Becomes, Fit, Doubted, Past, EndsAttempt
  <2> QED  BY <1>1, <2>6, <2>2, <2>4
<1> QED  BY <1>3, <1>4, <1>5, <1>6, <1>7, <1>8, <1>9, <1>10, <1>11 DEF NodeOnly

\* What it makes of the run.
LEMMA SoundEvent ==
    ASSUME NEW r \in Run, r.configured, NEW e, Typed(e), NEW s \in Applied(r, e)
    PROVE  /\ s.configured
           /\ \A n \in Node :
                 /\ Fit(r.nodes[n]) => Fit(s.nodes[n])
                 /\ Doubted(r.nodes[n]) /\ (Vague(e) \/ e.node # n) => Doubted(s.nodes[n])
                 /\ Past(r.nodes[n]) /\ e.type # "AttemptScheduled" => Past(s.nodes[n])
                 /\ e.type \in EndsAttempt /\ e.node = n => Past(s.nodes[n])
<1>1. CASE e.type \in RunWide \cup RunOnly
  <2>1. s.nodes = r.nodes /\ e.type \notin EndsAttempt
    BY <1>1, RunEffect DEF RunWide, RunOnly, EndsAttempt
  <2>2. s.configured
    BY <1>1 DEF Applied, RunWide, RunOnly, When, Run, RuntimeConfigured, RuntimeNegotiated, WorkspaceAssigned,
                ControlRequestObserved, ArtifactProduced, ResultEvidence, RunPaused, RunResumed, RunBlocked,
                RunCancelled, RunCompleted, RunRecoveryBlocked
  <2> QED  BY <2>1, <2>2
<1>2. CASE e.type \in NodeOnly /\ e.node \in Node
  <2>1. PICK node : s = Updated(r, e, node) /\ Becomes(NodeOf(r, e), e, node)
    BY <1>2, SoundNode
  <2>2. s.configured /\ \A n \in Node : s.nodes[n] = IF n = e.node THEN node ELSE r.nodes[n]
    BY <1>2, <2>1 DEF Updated, Run
  <2>3. NodeOf(r, e) = r.nodes[e.node]
    BY DEF NodeOf
  <2> QED  BY <1>2, <2>1, <2>2, <2>3 DEF Becomes
<1>3. CASE e.type \in NodeOnly /\ e.node \notin Node
  <2>1. PICK node : s = Updated(r, e, node)
    BY <1>3, NodeEffect DEF NodeMoves
  <2>2. s.configured /\ \A n \in Node : s.nodes[n] = r.nodes[n]
    BY <1>3, <2>1 DEF Updated, Run
  <2> QED  BY <1>3, <2>2
<1> QED  BY <1>1, <1>2, <1>3 DEF Typed

\* A batch leaves a run so in which a cleanup is confirmed only for a node whose attempt it ends.
LEMMA SoundBatch ==
    ASSUME NEW r \in Run, Sound(r), NEW batch, NEW types, NEW seen, NEW done, Batch(batch, types, seen, done),
           NEW n, \A i \in 1..Len(batch) : Vague(batch[i]) \/ batch[i].node = n,
           \/ \A i \in 1..Len(batch) : Vague(batch[i])
           \/ "AttemptScheduled" \notin types /\ \E e : Has(batch, e) /\ e.type \in EndsAttempt /\ e.node = n,
           NEW s \in Materialized(r, batch)
    PROVE  Sound(s)
<1>1. Len(batch) \in Nat
  BY DEF Batch
<1> DEFINE Base == {t \in Run : t.configured /\ \A m \in Node : Fit(t.nodes[m]) /\ (m # n => Doubted(t.nodes[m]))}
<1>2. r \in Base
  BY DEF Sound
<1>3. ASSUME NEW k \in 1..Len(batch), NEW t \in Base, NEW u \in Applied(t, batch[k]) PROVE u \in Base
  <2>1. Typed(batch[k]) /\ (Vague(batch[k]) \/ batch[k].node = n)
    BY DEF Batch
  <2>2. u \in Run
    BY <2>1, EventEffect
  <2>3. u.configured /\ \A m \in Node : Fit(u.nodes[m]) /\ (m # n => Doubted(u.nodes[m]))
    BY <2>1, SoundEvent
  <2> QED  BY <2>2, <2>3
<1>4. CASE \A i \in 1..Len(batch) : Vague(batch[i])
  <2> DEFINE S == {t \in Base : Sound(t)}
  <2>1. ASSUME NEW k \in 1..Len(batch), NEW t \in S, NEW u \in Applied(t, batch[k]) PROVE u \in S
    <3>1. Typed(batch[k]) /\ Vague(batch[k]) /\ u \in Base
      BY <1>3, <1>4 DEF Batch
    <3>2. Sound(u)
      BY <3>1, SoundEvent DEF Sound
    <3> QED  BY <3>1, <3>2
  <2>2. r \in S
    BY <1>2
  <2> HIDE DEF S, Base
  <2>3. Materialized(r, batch) \subseteq S
    BY <1>1, <2>1, <2>2, BatchPreserves
  <2> QED  BY <2>3 DEF S
<1>5. ASSUME "AttemptScheduled" \notin types, NEW e, Has(batch, e), e.type \in EndsAttempt, e.node = n
      PROVE  Sound(s)
  <2>1. PICK i \in 1..Len(batch) : batch[i] = e
    BY <1>5 DEF Has
  <2> DEFINE P == [k \in 0..Len(batch) |-> {t \in Base : k >= i /\ n \in Node => Past(t.nodes[n])}]
  <2>2. r \in P[0]
    BY <1>1, <1>2
  <2>3. ASSUME NEW k \in 1..Len(batch), NEW t \in P[k - 1] PROVE Applied(t, batch[k]) \subseteq P[k]
    <3> SUFFICES ASSUME NEW u \in Applied(t, batch[k]) PROVE u \in P[k]
      OBVIOUS
    <3>1. k - 1 \in 0..Len(batch) /\ k \in 0..Len(batch)
      BY <1>1
    <3>2. t \in Base /\ (k - 1 >= i /\ n \in Node => Past(t.nodes[n]))
      BY <3>1
    <3>3. u \in Base /\ Typed(batch[k]) /\ batch[k].type # "AttemptScheduled" /\ t \in Run /\ t.configured
      BY <1>3, <1>5, <3>2 DEF Batch
    <3>4. ASSUME k >= i, n \in Node PROVE Past(u.nodes[n])
      <4>1. CASE k = i
        BY <1>5, <2>1, <3>3, <3>4, <4>1, SoundEvent
      <4>2. CASE k # i
        <5>1. Past(t.nodes[n])
          BY <1>1, <3>2, <3>4, <4>2
        <5> QED  BY <3>3, <3>4, <5>1, SoundEvent
      <4> QED  BY <4>1, <4>2
    <3> HIDE DEF Base
    <3> QED  BY <3>1, <3>3, <3>4
  <2>4. Materialized(r, batch) \subseteq P[Len(batch)]
    <3> HIDE DEF P
    <3> QED  BY <1>1, <2>2, <2>3, StepsLead
  <2>5. s \in Base /\ (n \in Node => Past(s.nodes[n]))
    <3>1. Len(batch) \in 0..Len(batch) /\ Len(batch) >= i
      BY <1>1
    <3> HIDE DEF Base
    <3> QED  BY <2>4, <3>1
  <2> QED  BY <2>5 DEF Sound, Doubted
<1> QED  BY <1>4, <1>5

-----------------------------------------------------------------------------
(* Batches that leave a run sound *)

\* The events of a run that goes on or stops, but for the evidence of a cleanup.
Dry == Halting \ {"ExecutionCleanupObserved"}

\* A batch without such evidence leaves the run sound.
LEMMA DryKeeps ==
    ASSUME NEW r \in Run, Sound(r), NEW batch, NEW types, NEW seen, NEW done, Batch(batch, types, seen, done),
           "ExecutionCleanupObserved" \notin types, NEW s \in Materialized(r, batch)
    PROVE  Sound(s)
<1>1. \A i \in 1..Len(batch) : Vague(batch[i])
  BY DEF Batch, Vague
<1>2. PICK n : n \in {1}
  OBVIOUS
<1>3. \A i \in 1..Len(batch) : Vague(batch[i]) \/ batch[i].node = n
  BY <1>1
<1> QED  BY <1>1, <1>3, SoundBatch

\* A batch that confirms the cleanup of certain nodes only.
Wary(batch, S) ==
    /\ \E seen, done : Batch(batch, Halting, seen, done)
    /\ \A i \in 1..Len(batch) : Vague(batch[i]) \/ batch[i].node \in S

\* It leaves the run sound if these are none, or if it ends the attempt of the node.
LEMMA WaryKeeps ==
    ASSUME NEW r \in Run, Sound(r), NEW batch, NEW n,
           \/ Wary(batch, {})
           \/ Wary(batch, {n}) /\ \E e : Has(batch, e) /\ e.type \in EndsAttempt /\ e.node = n,
           NEW s \in Materialized(r, batch)
    PROVE  Sound(s)
<1>1. PICK seen, done : Batch(batch, Halting, seen, done)
  BY DEF Wary
<1>2. "AttemptScheduled" \notin Halting
  BY DEF Halting, Starting
<1>3. \A i \in 1..Len(batch) : Vague(batch[i]) \/ batch[i].node = n
  BY DEF Wary
<1>4. \/ \A i \in 1..Len(batch) : Vague(batch[i])
      \/ \E e : Has(batch, e) /\ e.type \in EndsAttempt /\ e.node = n
  BY DEF Wary
<1> QED  BY <1>1, <1>2, <1>3, <1>4, SoundBatch

\* One after the other.
LEMMA WaryJoined ==
    ASSUME NEW S, NEW a, Wary(a, S), NEW b, Wary(b, S)
    PROVE  Wary(a \o b, S)
<1> PICK c : c = a \o b
  OBVIOUS
<1>1. PICK sa, da, sb, db : Batch(a, Halting, sa, da) /\ Batch(b, Halting, sb, db)
  BY DEF Wary
<1>2. Batch(c, Halting, sa \cup sb, da \cup db)
  BY <1>1, Joined
<1>3. \A i \in 1..Len(c) : \/ i \in 1..Len(a) /\ c[i] = a[i]
                           \/ i - Len(a) \in 1..Len(b) /\ c[i] = b[i - Len(a)]
  <2>1. PICK X : a \in Seq(X) /\ b \in Seq(X)
    <3>1. PICK A, B : a \in Seq(A) /\ b \in Seq(B)
      BY <1>1 DEF Batch
    <3>2. a \in Seq(A \cup B) /\ b \in Seq(A \cup B)
      BY <3>1
    <3> QED  BY <3>2
  <2> QED  BY <2>1
<1>4. \A i \in 1..Len(c) : Vague(c[i]) \/ c[i].node \in S
  BY <1>3, Zenon DEF Wary
<1> QED  BY <1>2, <1>4 DEF Wary

\* A batch without the evidence of a cleanup, and one event.
LEMMA WaryParts ==
    ASSUME NEW S
    PROVE  /\ \A batch, seen, done : Batch(batch, Dry, seen, done) => Wary(batch, S)
           /\ \A e, types : Plain(e, types) /\ types \subseteq Halting /\ (Vague(e) \/ e.node \in S)
                => Wary(<<e>>, S)
<1>1. ASSUME NEW batch, NEW seen, NEW done, Batch(batch, Dry, seen, done) PROVE Wary(batch, S)
  <2>1. Batch(batch, Halting, seen, done)
    BY <1>1, Wider DEF Dry
  <2>2. \A i \in 1..Len(batch) : Vague(batch[i])
    BY <1>1 DEF Batch, Dry, Vague
  <2> QED  BY <2>1, <2>2 DEF Wary
<1>2. ASSUME NEW e, NEW types, Plain(e, types), types \subseteq Halting, Vague(e) \/ e.node \in S
      PROVE  Wary(<<e>>, S)
  <2>1. Plain(e, Halting)
    BY <1>2, Wider
  <2>2. Batch(<<e>>, Halting, {}, {})
    BY <2>1, PlainEvents
  <2>3. \A i \in 1..Len(<<e>>) : <<e>>[i] = e
    OBVIOUS
  <2> QED  BY <1>2, <2>2, <2>3 DEF Wary
<1> QED  BY <1>1, <1>2

\* What is dry.
LEMMA DrySets ==
    /\ {"NodeReady", "NodePaused", "NodeCancelled", "NodeBlocked", "RunPaused", "RunCancelled",
        "ControlRequestObserved", "RunResumed"} \subseteq Dry
    /\ "ExecutionCleanupObserved" \notin Dry /\ Dry \subseteq Halting
    /\ Quiet \subseteq Halting /\ Closing \subseteq Halting /\ Steady \subseteq Halting
    /\ \A e, types : Plain(e, types) /\ types \subseteq Halting
                     /\ e.type # "ExecutionCleanupObserved" => Plain(e, Dry)
<1>1. \A e, types : Plain(e, types) /\ types \subseteq Halting
                    /\ e.type # "ExecutionCleanupObserved" => Plain(e, Dry)
  BY DEF Plain, Dry
<1>2. /\ {"NodeReady", "NodePaused", "NodeCancelled", "NodeBlocked", "RunPaused", "RunCancelled",
          "ControlRequestObserved", "RunResumed"} \subseteq Dry
      /\ "ExecutionCleanupObserved" \notin Dry /\ Dry \subseteq Halting
      /\ Quiet \subseteq Halting /\ Closing \subseteq Halting /\ Steady \subseteq Halting
  BY DEF Dry, Halting, Closing, Quiet, Steady, Loud, RunOnly, NodeOnly, RunWide, Starting
<1> QED  BY <1>1, <1>2

\* The coordinator's events.
LEMMA DryEvents ==
    ASSUME NEW v, NEW n, NEW k, NEW x
    PROVE  /\ \A type \in {"ArtifactProduced", "WorkspaceObserved", "AttemptSucceeded", "AttemptBlocked",
                           "AttemptCancelled", "AttemptTimeoutRequested"} :
                 Plain(AttemptEvent(v, type, n), Dry)
           /\ \A type \in {"NodeSucceeded", "NodeFailed", "NodeBlocked"} : Plain(NodeEvent(type, n), Dry)
           /\ \A reason : Plain(Because("NodeReady", n, reason), Dry)
           /\ \A outcome \in CancellationOutcome : Plain(CancellationCompleted(v, n, outcome), Dry)
           /\ Plain([type |-> "AttemptFailed", node |-> n, attempt |-> k, exhausted |-> x], Dry)
           /\ \A differs \in BOOLEAN :
                 Plain([type |-> "AttemptOrphaned", node |-> n, attempt |-> k, differs |-> differs], Dry)
           /\ Plain(RunEvent("RuntimeNegotiated"), Dry) /\ Plain(RunEvent("RunBlocked"), Dry)
           /\ \A outcome \in {"succeeded", "failed"} :
                 Plain([type |-> "RunCompleted", outcome |-> outcome], Dry)
           /\ Plain(Resumed, Dry) /\ \A kind : Plain(RecoveryBlocked(v, n, kind), Dry)
<1>1. \A type \in {"ArtifactProduced", "WorkspaceObserved", "AttemptSucceeded", "AttemptBlocked",
                   "AttemptCancelled", "AttemptTimeoutRequested"} :
         Plain(AttemptEvent(v, type, n), Dry)
  <2>1. \A type : AttemptEvent(v, type, n).type = type
    BY DEF AttemptEvent
  <2> QED  BY <2>1, TypedEvents, DrySets
<1>2. \A type \in {"NodeSucceeded", "NodeFailed", "NodeBlocked"} : Plain(NodeEvent(type, n), Dry)
  <2>1. \A type : NodeEvent(type, n).type = type
    BY DEF NodeEvent
  <2> QED  BY <2>1, TypedEvents, DrySets
<1>3. \A reason : Plain(Because("NodeReady", n, reason), Dry)
  <2>1. \A reason : Because("NodeReady", n, reason).type = "NodeReady"
    BY DEF Because
  <2> QED  BY <2>1, TypedEvents, DrySets
<1>4. \A outcome \in CancellationOutcome : Plain(CancellationCompleted(v, n, outcome), Dry)
  <2>1. \A outcome : CancellationCompleted(v, n, outcome).type = "AttemptCancellationCompleted"
    BY DEF CancellationCompleted
  <2> QED  BY <2>1, TypedEvents, DrySets
<1>5. Plain([type |-> "AttemptFailed", node |-> n, attempt |-> k, exhausted |-> x], Dry)
  <2>1. PICK e : e = [type |-> "AttemptFailed", node |-> n, attempt |-> k, exhausted |-> x]
    OBVIOUS
  <2>2. e.type = "AttemptFailed" /\ Plain(e, Quiet)
    BY <2>1, TypedEvents
  <2> QED  BY <2>1, <2>2, DrySets
<1>6. ASSUME NEW differs \in BOOLEAN
      PROVE  Plain([type |-> "AttemptOrphaned", node |-> n, attempt |-> k, differs |-> differs], Dry)
  <2>1. PICK e : e = [type |-> "AttemptOrphaned", node |-> n, attempt |-> k, differs |-> differs]
    OBVIOUS
  <2>2. e.type = "AttemptOrphaned" /\ Plain(e, Quiet)
    BY <2>1, TypedEvents
  <2> QED  BY <2>1, <2>2, DrySets
<1>7. Plain(RunEvent("RuntimeNegotiated"), Dry) /\ Plain(RunEvent("RunBlocked"), Dry)
  <2>1. \A type : RunEvent(type).type = type
    BY DEF RunEvent
  <2> QED  BY <2>1, TypedEvents, DrySets
<1>8. ASSUME NEW outcome \in {"succeeded", "failed"}
      PROVE  Plain([type |-> "RunCompleted", outcome |-> outcome], Dry)
  <2>1. PICK e : e = [type |-> "RunCompleted", outcome |-> outcome]
    OBVIOUS
  <2>2. e.type = "RunCompleted" /\ Plain(e, Closing)
    BY <2>1, TypedEvents
  <2> QED  BY <2>1, <2>2, DrySets
<1>9. Plain(Resumed, Dry) /\ \A kind : Plain(RecoveryBlocked(v, n, kind), Dry)
  <2>1. Resumed.type = "RunResumed" /\ \A kind : RecoveryBlocked(v, n, kind).type = "RunRecoveryBlocked"
    BY DEF Resumed, RecoveryBlocked
  <2> QED  BY <2>1, TypedEvents, DrySets
<1> QED  BY <1>1, <1>2, <1>3, <1>4, <1>5, <1>6, <1>7, <1>8, <1>9

\* Parts of its batches: what a control does at a boundary, what stops a run, and a failure.
LEMMA DryParts ==
    ASSUME NEW v, NEW n
    PROVE  /\ \A k \in Control \cup {None} :
                /\ \A reason \in PauseKind : \E done : Batch(PauseBoth(n, reason, k), Dry, {}, done)
                /\ \E done : Batch(CancelNodes(v) \o <<Cancelled(k)>>, Dry, {}, done)
                /\ \E done : Batch(<<Paused(k)>>, Dry, {}, done)
                /\ \E seen : Batch(<<Observed(k)>>, Dry, seen, {})
           /\ \A exhausted : Batch(FailureBatch(v, n, exhausted), Dry, {}, {})
<1>1. ASSUME NEW k \in Control \cup {None}
      PROVE  /\ \A reason \in PauseKind : \E done : Batch(PauseBoth(n, reason, k), Dry, {}, done)
             /\ \E done : Batch(CancelNodes(v) \o <<Cancelled(k)>>, Dry, {}, done)
             /\ \E done : Batch(<<Paused(k)>>, Dry, {}, done)
             /\ \E seen : Batch(<<Observed(k)>>, Dry, seen, {})
  <2>1. \A reason \in PauseKind : \E done : Batch(PauseBoth(n, reason, k), Dry, {}, done)
    <3> SUFFICES ASSUME NEW reason \in PauseKind PROVE \E done : Batch(PauseBoth(n, reason, k), Dry, {}, done)
      OBVIOUS
    <3>1. Batch(PauseBoth(n, reason, k), Dry, {}, {k} \ {None})
      BY StoppingBatches, DrySets
    <3> QED  BY <3>1
  <2>2. PICK one : one = {k} \ {None}
    OBVIOUS
  <2>3. /\ Batch(<<Cancelled(k)>>, Dry, {}, one) /\ Batch(<<Paused(k)>>, Dry, {}, one)
        /\ Batch(<<Observed(k)>>, Dry, one, {})
    <3>1. "operator" \in PauseKind
      BY DEF PauseKind
    <3> QED  BY <2>2, <3>1, StoppingBatches, DrySets
  <2>4. Batch(CancelNodes(v), Dry, {}, {})
    BY NodeBatches, DrySets
  <2>5. Batch(CancelNodes(v) \o <<Cancelled(k)>>, Dry, {}, one)
    BY <2>3, <2>4, PlainThen
  <2> QED  BY <2>1, <2>3, <2>5
<1>2. ASSUME NEW exhausted PROVE Batch(FailureBatch(v, n, exhausted), Dry, {}, {})
  <2> PICK e, last : /\ e = [type |-> "AttemptFailed", node |-> n, attempt |-> v.nodes[n].attempts,
                             exhausted |-> exhausted]
                     /\ last = [type |-> "RunCompleted", outcome |-> "failed"]
    OBVIOUS
  <2> PICK failed, retry, conflict :
        /\ failed = <<NodeEvent("NodeFailed", n)>> /\ retry = <<Because("NodeReady", n, "retry")>>
        /\ conflict = PauseBoth(n, "workspace-conflict", None)
    OBVIOUS
  <2> PICK b : b = IF Changed(n) THEN conflict ELSE IF BudgetLeft(v, n) THEN retry
                   ELSE failed \o BlockOthers(v, n) \o <<last>>
    OBVIOUS
  <2>1. FailureBatch(v, n, exhausted) = <<e>> \o b
    BY DEF FailureBatch
  <2>2. Batch(<<e>>, Dry, {}, {}) /\ Batch(failed, Dry, {}, {}) /\ Batch(<<last>>, Dry, {}, {})
        /\ Batch(retry, Dry, {}, {})
    <3>1. /\ Plain(e, Dry) /\ Plain(NodeEvent("NodeFailed", n), Dry) /\ Plain(last, Dry)
          /\ Plain(Because("NodeReady", n, "retry"), Dry)
      BY DryEvents
    <3> QED  BY <3>1, PlainEvents
  <2>3. Batch(conflict, Dry, {}, {})
    <3>1. "workspace-conflict" \in PauseKind /\ {None} \ {None} = {}
      BY DEF PauseKind
    <3>2. Batch(conflict, Dry, {}, {None} \ {None})
      BY <3>1, StoppingBatches, DrySets
    <3> QED  BY <3>1, <3>2
  <2>4. Batch(BlockOthers(v, n), Dry, {}, {})
    BY NodeBatches, DrySets
  <2>5. Batch(failed \o BlockOthers(v, n), Dry, {}, {})
    BY <2>2, <2>4, PlainThen
  <2>6. Batch(failed \o BlockOthers(v, n) \o <<last>>, Dry, {}, {})
    BY <2>2, <2>5, PlainThen
  <2>7. Batch(b, Dry, {}, {})
    BY <2>2, <2>3, <2>6
  <2> QED  BY <2>1, <2>2, <2>7, PlainThen
<1> QED  BY <1>1, <1>2

\* What a control does at a boundary.
LEMMA DryBoundary ==
    ASSUME NEW v, NEW k \in Control, NEW observe \in BOOLEAN
    PROVE  \E seen, done : Batch(BoundaryBatch(v, k, observe), Dry, seen, done)
<1> DEFINE a == IF observe THEN <<Observed(k)>> ELSE <<>>
           b == IF ActionOf[k] = "cancel" THEN CancelNodes(v) \o <<Cancelled(k)>>
                ELSE IF v.status # "paused" THEN <<Paused(k)>> ELSE <<>>
<1>1. Batch(<<>>, Dry, {}, {})
  BY NoEvent
<1>2. (\E seen : Batch(a, Dry, seen, {})) /\ (\E done : Batch(b, Dry, {}, done))
  BY <1>1, DryParts
<1> HIDE DEF a, b
<1>3. PICK seen : Batch(a, Dry, seen, {})
  BY <1>2
<1>4. PICK done : Batch(b, Dry, {}, done)
  BY <1>2
<1>5. Batch(a \o b, Dry, seen \cup {}, {} \cup done)
  BY <1>3, <1>4, Joined
<1> QED  BY <1>5 DEF BoundaryBatch, a, b

-----------------------------------------------------------------------------
\* A run is blocked over an attempt whose cleanup is not known, with the evidence of that.
LEMMA UnknownAccepted ==
    ASSUME NEW r, NEW n, NEW k, NEW status, NEW attempt \in {"prepared", "running"}, NEW timeout, NEW cleanup,
           Holds(r, n, k, status, attempt, timeout, cleanup), ~Settled(r.status),
           NEW v, v.nodes[n].attempts = k, NEW cause \in Cause, NEW e, e = Cleanup(v, n, cause, "unknown"),
           FirstOf(e, cleanup)
    PROVE  Accepts(r, <<e>> \o <<RecoveryBlocked(v, n, "cleanup-unknown")>>)
<1>1. /\ e.node = n /\ e.attempt = k /\ e.type = "ExecutionCleanupObserved"
      /\ e.cause \in Cause /\ e.outcome \in CleanupOutcome /\ e.outcome = "unknown"
  BY DEF Cleanup, CleanupOutcome
<1>2. Reaches(r, e, n, k, status, attempt, timeout, WithEvidence(e, cleanup))
  BY <1>1, CleanupLeads
<1>3. PICK t : /\ Leads(r, <<e>>, t) /\ Beyond(r, t, {n})
               /\ Holds(t, n, k, status, attempt, timeout, WithEvidence(e, cleanup))
  BY <1>2 DEF Reaches
<1>4. /\ t \in Run /\ ~Settled(t.status) /\ n \in Node /\ t.nodes[n].last.status \in {"prepared", "running"}
      /\ t.nodes[n].last.plan /\ t.nodes[n].attempts = k /\ t.nodes[n].last.cleanup = WithEvidence(e, cleanup)
  BY <1>3 DEF Holds, Stage, Beyond
<1>5. \E c \in t.nodes[n].last.cleanup : c[2] = "unknown"
  <2>1. <<e.cause, e.outcome>> \in t.nodes[n].last.cleanup
    BY <1>4 DEF WithEvidence
  <2> QED  BY <1>1, <2>1
<1>6. PICK f : f = RecoveryBlocked(v, n, "cleanup-unknown")
  OBVIOUS
<1>7. f.type = "RunRecoveryBlocked" /\ f.node = n /\ f.attempt = t.nodes[n].attempts
  BY <1>4, <1>6 DEF RecoveryBlocked
<1>8. Accepts(t, <<f>>)
  BY <1>4, <1>5, <1>7, RecoveryBlockedAccepted
<1> QED  BY <1>3, <1>6, <1>8, AcceptsOnward

\* Its evidence is there already, and says no more.
LEMMA CleanupUnknownAccepted ==
    ASSUME NEW r \in Run, ~Settled(r.status), Sound(r), NEW n \in Active(r), NEW cause \in Cause
    PROVE  Accepts(r, CleanupUnknown(r, n, cause))
<1>1. /\ n \in Node /\ r.nodes[n] \in NodeState /\ r.nodes[n].last.status \in {"prepared", "running"}
      /\ r.configured /\ Fit(r.nodes[n]) /\ Doubted(r.nodes[n]) /\ r.status \notin TerminalRun
  BY DEF Active, Sound, Run, Settled
<1>2. r.nodes[n].last.plan /\ \A c \in r.nodes[n].last.cleanup : c[2] = "unknown"
  BY <1>1 DEF Fit, Doubted, Past
<1>3. CASE CleanupRecorded(r, n, cause)
  <2>1. \E c \in r.nodes[n].last.cleanup : c[2] = "unknown"
    BY <1>2, <1>3 DEF CleanupRecorded
  <2>2. PICK f : f = RecoveryBlocked(r, n, "cleanup-unknown")
    OBVIOUS
  <2>3. f.type = "RunRecoveryBlocked" /\ f.node = n /\ f.attempt = r.nodes[n].attempts
    BY <2>2 DEF RecoveryBlocked
  <2>4. Accepts(r, <<f>>)
    BY <1>1, <1>2, <2>1, <2>3, RecoveryBlockedAccepted
  <2>5. CleanupUnknown(r, n, cause) = <<>> \o <<f>>
    BY <1>3, <2>2 DEF CleanupUnknown
  <2> QED  BY <2>4, <2>5, LeadsNowhere, AcceptsOnward
<1>4. CASE ~CleanupRecorded(r, n, cause)
  <2>1. PICK e : e = Cleanup(r, n, cause, "unknown")
    OBVIOUS
  <2>2. FirstOf(e, r.nodes[n].last.cleanup)
    BY <1>4, <2>1 DEF CleanupRecorded, FirstOf, Cleanup
  <2>3. Holds(r, n, r.nodes[n].attempts, r.nodes[n].status, r.nodes[n].last.status, r.nodes[n].last.timeout,
              r.nodes[n].last.cleanup)
    BY <1>1, <1>2 DEF Holds, Stage
  <2>4. Accepts(r, <<e>> \o <<RecoveryBlocked(r, n, "cleanup-unknown")>>)
    BY <1>1, <2>1, <2>2, <2>3, UnknownAccepted
  <2> QED  BY <1>4, <2>1, <2>4 DEF CleanupUnknown
<1> QED  BY <1>3, <1>4

\* So is one whose attempt timed out and was not cancelled, or for a control.
LEMMA UnconfirmedAccepted ==
    ASSUME NEW r, NEW n, NEW timeout, Holds(r, n, r.nodes[n].attempts, "running", "running", timeout, {}),
           ~Settled(r.status), NEW blocked, blocked = <<RecoveryBlocked(r, n, "cleanup-unknown")>>
    PROVE  /\ \A cause \in Cause : Accepts(r, <<Cleanup(r, n, cause, "unknown")>> \o blocked)
           /\ timeout = "requested" =>
                 Accepts(r, <<CancellationCompleted(r, n, "failed"), Cleanup(r, n, "timeout", "unknown")>> \o blocked)
<1> DEFINE k == r.nodes[n].attempts
<1>1. \A e : FirstOf(e, {})
  BY DEF FirstOf
<1>2. ASSUME NEW cause \in Cause PROVE Accepts(r, <<Cleanup(r, n, cause, "unknown")>> \o blocked)
  <2>1. PICK e : e = Cleanup(r, n, cause, "unknown")
    OBVIOUS
  <2>2. FirstOf(e, {})
    BY <1>1
  <2>3. Accepts(r, <<e>> \o <<RecoveryBlocked(r, n, "cleanup-unknown")>>)
    BY <1>2, <2>1, <2>2, UnknownAccepted
  <2> QED  BY <2>1, <2>3
<1>3. ASSUME timeout = "requested"
      PROVE  Accepts(r, <<CancellationCompleted(r, n, "failed"), Cleanup(r, n, "timeout", "unknown")>> \o blocked)
  <2>1. PICK a : a = CancellationCompleted(r, n, "failed")
    OBVIOUS
  <2>2. /\ a.node = n /\ a.attempt = k /\ a.type = "AttemptCancellationCompleted"
        /\ a.outcome = "failed" /\ a.outcome \in CancellationOutcome
    BY <2>1 DEF CancellationCompleted, CancellationOutcome
  <2>3. Reaches(r, a, n, k, "running", "running", "failed", {})
    BY <1>3, <2>2, TimeoutLeads
  <2>4. PICK t \in Applied(r, a) : /\ Leads(r, <<a>>, t) /\ Beyond(r, t, {n})
                                   /\ Holds(t, n, k, "running", "running", "failed", {})
    BY <2>3 DEF Reaches
  <2>5. PICK e : e = Cleanup(r, n, "timeout", "unknown")
    OBVIOUS
  <2>6. /\ e.node = n /\ e.attempt = k /\ e.type = "ExecutionCleanupObserved" /\ FirstOf(e, {})
        /\ e.cause \in Cause /\ e.outcome \in CleanupOutcome /\ e.outcome = "unknown"
    BY <1>1, <2>5 DEF Cleanup, CleanupOutcome, Cause
  <2>7. Reaches(t, e, n, k, "running", "running", "failed", WithEvidence(e, {}))
    BY <2>4, <2>6, CleanupLeads
  <2>8. PICK u \in Applied(t, e) : /\ Leads(t, <<e>>, u) /\ Beyond(t, u, {n})
                                   /\ Holds(u, n, k, "running", "running", "failed", WithEvidence(e, {}))
    BY <2>7 DEF Reaches
  <2>9. /\ u \in Run /\ ~Settled(u.status) /\ n \in Node /\ u.nodes[n].last.status \in {"prepared", "running"}
        /\ u.nodes[n].last.plan /\ u.nodes[n].attempts = k /\ u.nodes[n].last.cleanup = WithEvidence(e, {})
    BY <2>4, <2>8 DEF Holds, Stage, Beyond
  <2>10. \E c \in u.nodes[n].last.cleanup : c[2] = "unknown"
    <3>1. <<e.cause, e.outcome>> \in u.nodes[n].last.cleanup
      BY <2>9 DEF WithEvidence
    <3> QED  BY <2>6, <3>1
  <2>11. PICK f : f = RecoveryBlocked(r, n, "cleanup-unknown")
    OBVIOUS
  <2>12. f.type = "RunRecoveryBlocked" /\ f.node = n /\ f.attempt = u.nodes[n].attempts
    BY <2>9, <2>11 DEF RecoveryBlocked
  <2>13. Accepts(u, <<f>>)
    BY <2>9, <2>10, <2>12, RecoveryBlockedAccepted
  <2>14. Leads(r, <<a, e>>, u)
    BY <2>4, <2>8, LeadsBy
  <2>15. Accepts(r, <<a, e>> \o <<f>>)
    BY <2>13, <2>14, AcceptsOnward
  <2> QED  BY <2>1, <2>5, <2>11, <2>15
<1> QED  BY <1>2, <1>3

-----------------------------------------------------------------------------
(* What a session has in hand *)
\* No node's attempt is orphaned or shelved.
Clear(r) == Orphaned(r) \cup Shelved(r) = {}

\* Then what runs, or is prepared, is one node that goes on, and beside it none runs.
LEMMA ClearRun ==
    ASSUME NEW r \in Run, RunSound(r), Sound(r), Hale(r), Clear(r)
    PROVE  /\ Runs(r) = {} \/ Active(r) = {} => Still(r)
           /\ \A n \in Active(r) : \/ r.nodes[n].status = "ready" /\ r.nodes[n].last.status = "prepared"
                                   \/ r.nodes[n].status = "running" /\ r.nodes[n].last.status = "running"
           /\ \A n \in Active(r) : r.nodes[n].last.plan
           /\ Active(r) # {} => First(Active(r)) \in Active(r) /\ Alone(r, First(Active(r)))
<1>1. \A m \in Node : r.nodes[m].status = "running" => m \in Runs(r)
  BY DEF Clear, RunSound, Parted, Runs, Orphaned
<1>2. Runs(r) \subseteq Active(r) /\ Active(r) \subseteq Node
  BY DEF Runs, Active
<1>3. ASSUME NEW n \in Active(r)
      PROVE  /\ r.nodes[n].last.plan
             /\ \/ r.nodes[n].status = "ready" /\ r.nodes[n].last.status = "prepared"
                \/ r.nodes[n].status = "running" /\ r.nodes[n].last.status = "running"
  <2>1. n \in Node /\ r.nodes[n].last.status \in {"prepared", "running"} /\ Fit(r.nodes[n])
        /\ r.nodes[n].status \notin {"blocked", "cancelled"} /\ r.nodes[n].status # "paused"
    BY <1>3 DEF Active, Sound, Hale, Clear, Shelved
  <2>2. r.nodes[n].last.status = "running" => r.nodes[n].status = "running"
    BY <2>1 DEF RunSound, Runs
  <2> QED  BY <2>1, <2>2 DEF Fit
<1>4. ASSUME Active(r) # {} PROVE First(Active(r)) \in Active(r) /\ Alone(r, First(Active(r)))
  <2>1. First(Active(r)) \in Active(r)
    BY <1>2, <1>4, FirstIsMember
  <2>2. \A m \in Node : r.nodes[m].status = "running" => m = First(Active(r))
    BY <1>1 DEF RunSound
  <2> QED  BY <2>1, <2>2 DEF Alone
<1> QED  BY <1>1, <1>2, <1>3, <1>4 DEF Still

\* The first of some nodes is the first of any of them it is among.
LEMMA FirstOfPart ==
    ASSUME NEW S \in SUBSET Node, NEW T \in SUBSET S, First(S) \in T
    PROVE  First(T) = First(S)
<1> DEFINE Least(X, i) == i \in DOMAIN Order /\ Order[i] \in X /\ \A j \in 1..(i - 1) : Order[j] \notin X
<1>1. \A X \in (SUBSET Node) \ {{}} : \E i : Least(X, i)
  <2> SUFFICES ASSUME NEW X \in (SUBSET Node) \ {{}} PROVE \E i : Least(X, i)
    OBVIOUS
  <2>1. PICK n \in X : n \in Node
    OBVIOUS
  <2>2. Order \in Seq(Node) /\ \E i \in DOMAIN Order : Order[i] = n
    BY <2>1, CoordinatorConstants
  <2> DEFINE I == {i \in DOMAIN Order : Order[i] \in X}
  <2>3. I \in SUBSET Nat /\ I # {} /\ DOMAIN Order = 1..Len(Order) /\ Len(Order) \in Nat
    BY <2>1, <2>2
  <2>4. PICK i \in I : \A m \in I : i <= m
    BY <2>3, LeastNumber
  <2>5. \A j \in 1..(i - 1) : Order[j] \notin X
    <3> SUFFICES ASSUME NEW j \in 1..(i - 1), Order[j] \in X PROVE FALSE
      OBVIOUS
    <3>1. i \in 1..Len(Order) /\ j \in 1..Len(Order) /\ j < i
      BY <2>3, <2>4
    <3>2. j \in I
      BY <2>3, <3>1
    <3> QED  BY <2>4, <3>1, <3>2
  <2> QED  BY <2>4, <2>5
<1>2. PICK i : i = CHOOSE x \in DOMAIN Order : Order[x] \in S /\ \A j \in 1..(x - 1) : Order[j] \notin S
  OBVIOUS
<1>3. PICK k : k = CHOOSE x \in DOMAIN Order : Order[x] \in T /\ \A j \in 1..(x - 1) : Order[j] \notin T
  OBVIOUS
<1>4. First(S) = Order[i] /\ First(T) = Order[k]
  BY <1>2, <1>3 DEF First
<1>5. Least(S, i)
  <2>1. \E x \in DOMAIN Order : Order[x] \in S /\ \A j \in 1..(x - 1) : Order[j] \notin S
    BY <1>1
  <2> QED  BY <1>2, <2>1
<1>6. Least(T, k)
  <2>1. \E x \in DOMAIN Order : Order[x] \in T /\ \A j \in 1..(x - 1) : Order[j] \notin T
    BY <1>1
  <2> QED  BY <1>3, <2>1
<1>7. i \in Nat /\ k \in Nat /\ i >= 1 /\ k >= 1
  BY <1>5, <1>6, CoordinatorConstants
<1>8. ~(i < k)
  <2>1. Order[i] \in T
    BY <1>4
  <2> QED  BY <1>6, <1>7, <2>1
<1>9. ~(k < i)
  <2>1. Order[k] \in S
    BY <1>6
  <2> QED  BY <1>5, <1>7, <2>1
<1>10. i = k
  BY <1>7, <1>8, <1>9
<1> QED  BY <1>4, <1>10

\* The attempt that a session would take up, and its node.
Held(r, ready, status, timeout) ==
    /\ Active(r) # {}
    /\ LET x == r.nodes[First(Active(r))]
       IN x.status = ready /\ x.last.status = status /\ x.last.timeout = timeout /\ x.last.cleanup = {}

\* An attempt under way is all such a run works on.
LEMMA HeldWorks ==
    ASSUME NEW r \in Run, RunSound(r), Sound(r), Hale(r), Clear(r), r.status = "running", NEW timeout,
           Held(r, "running", "running", timeout)
    PROVE  WorksOn(r, First(Active(r)), timeout)
<1>1. First(Active(r)) \in Active(r) /\ Alone(r, First(Active(r))) /\ r.nodes[First(Active(r))].last.plan
  BY ClearRun DEF Held
<1>2. r.configured /\ First(Active(r)) \in Node /\ r.status \notin TerminalRun
      /\ r.nodes[First(Active(r))] \in NodeState
  BY <1>1 DEF Sound, Active, TerminalRun, Run
<1> QED  BY <1>1, <1>2 DEF WorksOn, Holds, Stage, Held

-----------------------------------------------------------------------------
(* When a batch is rejected *)
\* What a fresh session holds, by where it is, with the control it acts on and the node it orphaned.
Poised(place, r, k, n) ==
    /\ place \in {"loaded", "recover"} \cup Reconciling => ~Settled(r.status)
    /\ place = "resuming" => r.status = "paused"
    /\ place = "orphaned" => n \in Orphaned(r)
    /\ place \in Working \cup {"continue", "resuming"} => k = None
    /\ place = "schedule" /\ r.status = "running" => k = None
    /\ Shelved(r) = {} =>
         /\ place = "preparing" => Held(r, "ready", "prepared", "none")
         /\ place \in {"starting", "driving", "finishing"} \cup Controlling =>
               Held(r, "running", "running", "none")
         /\ place \in {"timeout", "timedOut"} => Held(r, "running", "running", "requested")

SessionPoised == \A c \in Coord : fresh[c] => Poised(pc[c], run, ctl[c], orphan[c])

\* An active attempt left edits, and nothing runs that could still change the workspace.
Spoilt == Threats = {} /\ \E n \in Active(run) : Changed(n)

\* What a rejected batch of a fresh session found.
Gaps == \A c \in Coord : At(c, {"rejected"}) /\ fresh[c] => (ctl[c] = None /\ Spoilt) \/ ~Clear(run)

RejectInv == Sound(run) /\ SessionPoised /\ Gaps

\* Where nothing runs, nothing starts to, and the workspace stays as it is.
Tame == Threats = {} => Threats' = {} /\ UNCHANGED <<content, checkpoint>>

\* It stays spoilt so.
LEMMA StaysSpoilt ==
    ASSUME Tame, UNCHANGED run, Spoilt
    PROVE  Spoilt'
BY DEF Tame, Spoilt, Changed, Active

\* Nothing starts by itself, by a terminate request or as a result is collected.
LEMMA TameWorld ==
    ASSUME WorkInv
    PROVE  /\ UNCHANGED world => Tame
           /\ UNCHANGED <<host, inflight, content, checkpoint>> => Tame
           /\ \A c \in Coord : \A observation : Terminated(c, observation) => Tame
           /\ \A c \in Coord : Collect(c) => Tame
<1>1. UNCHANGED <<host, inflight, content, checkpoint>> => Tame
  BY DEF Tame, Threats
<1>2. UNCHANGED world => Tame
  BY <1>1 DEF world
<1>3. ASSUME NEW c \in Coord, NEW observation, Terminated(c, observation) PROVE Tame
  <2>1. Threats' \subseteq Threats
    BY <1>3, CalmWorld DEF Calm
  <2> QED  BY <1>3, <2>1 DEF Terminated, Tame
<1>4. ASSUME NEW c \in Coord, Collect(c) PROVE Tame
  <2>1. Threats' \subseteq Threats
    <3>1. host \in [Execution -> HostStatus] /\ inflight' = inflight
      BY <1>4 DEF WorkInv, Collect
    <3>2. host' = [host EXCEPT ![Current(c)] = "absent"]
      BY <1>4 DEF Collect
    <3>3. \A e \in Execution : host'[e] = host[e] \/ host'[e] = "absent"
      BY <3>1, <3>2
    <3> QED  BY <3>1, <3>3 DEF Threats, MaybeRunning
  <2> QED  BY <1>4, <2>1 DEF Collect, Tame
<1> QED  BY <1>1, <1>2, <1>3, <1>4

\* Nor by what the supervisors and workers do themselves.
LEMMA TameHost ==
    ASSUME WorkInv, NEW e \in Execution, Host(e)
    PROVE  Tame
<1>1. host \in [Execution -> HostStatus] /\ Sent(run, inflight)
  BY DEF WorkInv
<1>2. CASE PrepareReturns(e)
  <2>1. <<"authorize", e>> \notin inflight' /\ inflight' \subseteq inflight
    BY <1>1, <1>2 DEF PrepareReturns, Sent
  <2>2. \A d \in Execution : host'[d] = host[d] \/ (d = e /\ host'[d] = "waiting")
    BY <1>1, <1>2 DEF PrepareReturns, SetHost
  <2>3. Threats' \subseteq Threats
    BY <2>1, <2>2 DEF Threats, MaybeRunning
  <2> QED  BY <1>2, <2>3 DEF PrepareReturns, Tame
<1>3. CASE AuthorizeReturns(e)
  <2>1. <<"authorize", e>> \in inflight /\ inflight' \subseteq inflight
    BY <1>3 DEF AuthorizeReturns
  <2>2. \A d \in Execution : host'[d] = host[d] \/ (d = e /\ host[d] = "waiting")
    BY <1>1, <1>3 DEF AuthorizeReturns, SetHost
  <2>3. Threats' \subseteq Threats
    BY <2>1, <2>2 DEF Threats, MaybeRunning
  <2> QED  BY <1>3, <2>3 DEF AuthorizeReturns, Tame
<1>4. CASE WorkerEnds(e) \/ SupervisorStops(e)
  <2>1. inflight' = inflight /\ UNCHANGED <<content, checkpoint>>
    BY <1>4 DEF WorkerEnds, SupervisorStops
  <2>2. \A d \in Execution : host'[d] \in {host[d], "absent", "finished"} \/ (d = e /\ host[d] \in MaybeRunning)
    BY <1>1, <1>4 DEF WorkerEnds, SupervisorStops, SetHost, MaybeRunning
  <2>3. Threats' \subseteq Threats
    BY <2>1, <2>2 DEF Threats, MaybeRunning
  <2> QED  BY <2>1, <2>3 DEF Tame
<1>5. CASE WorkerChangesWorkspace(e)
  <2>1. e \in Threats
    BY <1>5 DEF WorkerChangesWorkspace, Threats
  <2> QED  BY <2>1 DEF Tame
<1> QED  BY <1>2, <1>3, <1>4, <1>5 DEF Host

\* Where an execution is over, none runs.
LEMMA OverIsQuiet ==
    ASSUME WorkInv, NEW c \in Coord, fresh[c], pc[c] \in Over
    PROVE  Threats = {}
<1>1. Stands(pc[c], run, Threats) /\ RunSound(run) /\ Owned(run, Threats) /\ Threats \in SUBSET Execution
  BY DEF WorkInv, Threats
<1>2. \A e \in Threats : e = ExecutionOf(run, First(Active(run))) /\ Active(run) # {}
  BY <1>1, OneThreat
<1> QED  BY <1>1, <1>2 DEF Stands

\* A place that says nothing of what the session holds.
LEMMA Unpoised ==
    ASSUME NEW place \in Ending \cup {"idle"}, NEW r, NEW k, NEW n
    PROVE  Poised(place, r, k, n)
BY DEF Poised, Ending, Working, Controlling, Reconciling, Executing

\* Nothing is stored, and one process goes elsewhere than to a rejected batch.
LEMMA RejectStays ==
    ASSUME IInv, RejectInv, UNCHANGED run, NEW c \in Coord, NEW next, next # "rejected",
           pc' = [pc EXCEPT ![c] = next],
           \A d \in Coord \ {c} : fresh'[d] = fresh[d] /\ ctl'[d] = ctl[d] /\ orphan'[d] = orphan[d],
           fresh'[c] => Poised(next, run, ctl'[c], orphan'[c]), Tame
    PROVE  RejectInv'
<1>1. DOMAIN pc = Coord
  BY DEF IInv, SessionTyped
<1>2. ASSUME NEW d \in Coord, fresh'[d] PROVE Poised(pc'[d], run, ctl'[d], orphan'[d])
  <2>1. CASE d = c
    BY <1>1, <1>2, <2>1
  <2>2. CASE d # c
    BY <1>1, <1>2, <2>2 DEF RejectInv, SessionPoised
  <2> QED  BY <2>1, <2>2
<1>3. ASSUME NEW d \in Coord, pc'[d] = "rejected", fresh'[d]
      PROVE  (ctl'[d] = None /\ Spoilt') \/ ~Clear(run)
  <2>1. d # c
    BY <1>1, <1>3
  <2>2. At(d, {"rejected"}) /\ fresh[d] /\ ctl'[d] = ctl[d]
    BY <1>1, <1>3, <2>1 DEF At
  <2>3. (ctl[d] = None /\ Spoilt) \/ ~Clear(run)
    BY <2>2 DEF RejectInv, Gaps
  <2> QED  BY <2>2, <2>3, StaysSpoilt
<1> QED  BY <1>2, <1>3 DEF RejectInv, SessionPoised, Gaps, At

\* A commit of a fresh session; a stale one stores nothing.
CommitPoises(c, batch, next) ==
    fresh[c] /\ pc'[c] = next => \A s \in Materialized(run, batch) : Sound(s) /\ Poised(next, s, ctl'[c], orphan'[c])
CommitExcused(c, batch) ==
    fresh[c] /\ pc'[c] = "rejected" /\ Materialized(run, batch) = {} =>
        (ctl'[c] = None /\ Spoilt) \/ ~Clear(run)

LEMMA RejectCommit ==
    ASSUME IInv, ControlInv, RejectInv, NEW c \in Coord, NEW batch, NEW next,
           next \notin {"rejected", "failing"}, Commit(c, batch, next),
           \A d \in Coord \ {c} : ctl'[d] = ctl[d] /\ orphan'[d] = orphan[d],
           CommitPoises(c, batch, next), CommitExcused(c, batch),
           Tame \/ (batch # <<>> /\ pc'[c] = next)
    PROVE  RejectInv'
<1> USE DEF store, session, lease
<1>0. DOMAIN pc = Coord
  BY DEF IInv, SessionTyped
<1>1. ASSUME batch # <<>>, fresh[c], run' \in Materialized(view[c], batch),
             fresh' = [d \in Coord |-> d = c], pc' = [pc EXCEPT ![c] = next]
      PROVE  RejectInv'
  <2>1. view[c] = run /\ pc'[c] = next
    BY <1>0, <1>1 DEF IInv, FreshIsCurrent
  <2>2. Sound(run') /\ Poised(next, run', ctl'[c], orphan'[c])
    BY <1>1, <2>1 DEF CommitPoises
  <2>3. \A d \in Coord : fresh'[d] => d = c
    BY <1>1
  <2> QED  BY <2>1, <2>2, <2>3 DEF RejectInv, SessionPoised, Gaps, At
<1>2. ASSUME pc' = [pc EXCEPT ![c] = next], UNCHANGED <<store, session>>, batch = <<>>
      PROVE  RejectInv'
  <2>1. run \in Materialized(run, batch)
    BY <1>2, EmptyBatch
  <2>2. pc'[c] = next
    BY <1>0, <1>2
  <2>3. fresh'[c] => Poised(next, run, ctl'[c], orphan'[c])
    BY <1>2, <2>1, <2>2 DEF CommitPoises
  <2>4. next # "rejected" /\ Tame
    BY <1>2
  <2>5. \A d \in Coord \ {c} : fresh'[d] = fresh[d] /\ ctl'[d] = ctl[d] /\ orphan'[d] = orphan[d]
    BY <1>2
  <2> QED  BY <1>2, <2>3, <2>4, <2>5, RejectStays
<1>3. ASSUME pc' = [pc EXCEPT ![c] = "failing"], UNCHANGED <<store, session>>
      PROVE  RejectInv'
  <2>1. Poised("failing", run, ctl'[c], orphan'[c])
    BY Unpoised DEF Ending
  <2>2. pc'[c] = "failing"
    BY <1>0, <1>3
  <2>3. Tame
    BY <2>2
  <2>4. \A d \in Coord \ {c} : fresh'[d] = fresh[d] /\ ctl'[d] = ctl[d] /\ orphan'[d] = orphan[d]
    BY <1>3
  <2> QED  BY <1>3, <2>1, <2>3, <2>4, RejectStays
<1>4. ASSUME pc' = [pc EXCEPT ![c] = "rejected"], UNCHANGED <<store, session>>,
             Materialized(view[c], batch) = {}
      PROVE  RejectInv'
  <2>2. Tame
    BY <1>0, <1>4
  <2>3. ASSUME NEW d \in Coord, fresh'[d] PROVE Poised(pc'[d], run, ctl'[d], orphan'[d])
    <3>1. CASE d = c
      <4>1. pc'[d] = "rejected"
        BY <1>0, <1>4, <3>1
      <4> QED  BY <4>1, Unpoised DEF Ending
    <3>2. CASE d # c
      BY <1>0, <1>4, <2>3, <3>2 DEF RejectInv, SessionPoised
    <3> QED  BY <3>1, <3>2
  <2>4. ASSUME NEW d \in Coord, pc'[d] = "rejected", fresh'[d]
        PROVE  (ctl'[d] = None /\ Spoilt') \/ ~Clear(run)
    <3>1. CASE d = c
      <4>1. fresh[c] /\ view[c] = run /\ pc'[c] = "rejected"
        BY <1>4, <2>4, <3>1 DEF IInv, FreshIsCurrent
      <4>2. (ctl'[c] = None /\ Spoilt) \/ ~Clear(run)
        BY <1>4, <4>1 DEF CommitExcused
      <4> QED  BY <1>4, <2>2, <3>1, <4>2, StaysSpoilt
    <3>2. CASE d # c
      <4>1. At(d, {"rejected"}) /\ fresh[d] /\ ctl'[d] = ctl[d]
        BY <1>0, <1>4, <2>4, <3>2 DEF At
      <4>2. (ctl[d] = None /\ Spoilt) \/ ~Clear(run)
        BY <4>1 DEF RejectInv, Gaps
      <4> QED  BY <1>4, <2>2, <4>1, <4>2, StaysSpoilt
    <3> QED  BY <3>1, <3>2
  <2> QED  BY <1>4, <2>3, <2>4 DEF RejectInv, SessionPoised, Gaps, At
<1> QED  BY <1>1, <1>2, <1>3, <1>4, Zenon DEF Commit

\* What a fresh session relies on.
LEMMA FreshHolds ==
    ASSUME IInv, ControlInv, WorkInv, Left(run), RejectInv, NEW c \in Coord, fresh[c]
    PROVE  /\ view[c] = run /\ run \in Run /\ RunSound(run) /\ Sound(run)
           /\ Poised(pc[c], run, ctl[c], orphan[c]) /\ Stands(pc[c], run, Threats)
           /\ ~Settled(run.status) => Hale(run)
           /\ pc[c] \in Working \cup Controlling =>
                 run.status = "running" /\ ~Settled(run.status) /\ run.status \notin TerminalRun
<1>1. view[c] = run /\ run \in Run /\ Stands(pc[c], run, Threats)
  BY FreshWork
<1>2. pc[c] \in Working \cup Controlling => run.status = "running"
  BY FreshKnows
<1> QED  BY <1>1, <1>2 DEF WorkInv, RejectInv, SessionPoised, Left, Settled, TerminalRun

\* Where a session goes that acts on no control, and where its run is stopped.
Free == {"continue", "schedule", "preflight", "prepare", "succeeded", "complete"}
LEMMA PoisedFree ==
    ASSUME NEW r, NEW n
    PROVE  /\ \A place \in Free : Poised(place, r, None, n)
           /\ \A k : r.status # "running" => Poised("schedule", r, k, n)
<1>1. \A place \in Free : Poised(place, r, None, n)
  BY DEF Poised, Free, Reconciling, Controlling
<1>2. \A k : r.status # "running" => Poised("schedule", r, k, n)
  BY DEF Poised, Reconciling, Controlling, Working, Executing
<1> QED  BY <1>1, <1>2

\* A commit of one that ends its session, or after which it acts on no control.
FreeAfter(c, next) == fresh[c] => next = "returning" \/ (next \in Free /\ ctl'[c] = None)
SoundAfter(c, batch) == fresh[c] => \A s \in Materialized(run, batch) : Sound(s)
Taken(c, batch) == fresh[c] /\ Clear(run) => Accepts(run, batch) \/ (ctl'[c] = None /\ Spoilt)

LEMMA FreeCommits ==
    ASSUME IInv, ControlInv, RejectInv, NEW c \in Coord, NEW batch, NEW next,
           next \notin {"rejected", "failing"}, Commit(c, batch, next),
           \A d \in Coord \ {c} : ctl'[d] = ctl[d] /\ orphan'[d] = orphan[d],
           FreeAfter(c, next), SoundAfter(c, batch), Taken(c, batch), Tame
    PROVE  RejectInv'
<1>1. CommitPoises(c, batch, next)
  <2> SUFFICES ASSUME fresh[c], NEW s \in Materialized(run, batch)
               PROVE  Sound(s) /\ Poised(next, s, ctl'[c], orphan'[c])
    BY DEF CommitPoises
  <2>1. Sound(s)
    BY DEF SoundAfter
  <2>2. CASE next = "returning"
    BY <2>1, <2>2, Unpoised DEF Ending
  <2>3. CASE next \in Free /\ ctl'[c] = None
    <3>1. Poised(next, s, None, orphan'[c])
      BY <2>3, PoisedFree
    <3> QED  BY <2>1, <2>3, <3>1
  <2> QED  BY <2>2, <2>3 DEF FreeAfter
<1>2. CommitExcused(c, batch)
  BY AcceptsMaterialized DEF CommitExcused, Taken
<1>3. Tame
  OBVIOUS
<1> QED  BY <1>1, <1>2, <1>3, RejectCommit

\* A batch without the evidence of a cleanup.
LEMMA DrySound ==
    ASSUME IInv, ControlInv, RejectInv, NEW c \in Coord, NEW batch, \E seen, done : Batch(batch, Dry, seen, done)
    PROVE  SoundAfter(c, batch)
<1> SUFFICES ASSUME fresh[c], NEW s \in Materialized(run, batch) PROVE Sound(s)
  BY DEF SoundAfter
<1>1. run \in Run /\ Sound(run)
  BY FreshKnows DEF RejectInv
<1>2. PICK seen, done : Batch(batch, Dry, seen, done)
  OBVIOUS
<1> QED  BY <1>1, <1>2, DrySets, DryKeeps

\* A step of a session that stores nothing.
LEMMA RejectMoves ==
    ASSUME IInv, RejectInv, NEW c \in Coord, NEW next, next # "rejected", Moves(c, next),
           UNCHANGED task /\ Tame,
           \/ next \in Ending
           \/ fresh[c] => Poised(next, run, ctl[c], orphan[c])
    PROVE  RejectInv'
<1>1. /\ UNCHANGED run /\ pc' = [pc EXCEPT ![c] = next] /\ fresh' = fresh /\ ctl' = ctl /\ orphan' = orphan
  BY DEF Moves, store, session, task
<1>2. fresh'[c] => Poised(next, run, ctl'[c], orphan'[c])
  BY <1>1, Unpoised
<1>3. \A d \in Coord \ {c} : fresh'[d] = fresh[d] /\ ctl'[d] = ctl[d] /\ orphan'[d] = orphan[d]
  BY <1>1
<1> QED  BY <1>1, <1>2, <1>3, RejectStays

-----------------------------------------------------------------------------
\* A session reconciles a run that has not settled.
LEMMA PoisedReconciling ==
    ASSUME NEW place \in Reconciling, NEW r, ~Settled(r.status), NEW k, NEW n
    PROVE  Poised(place, r, k, n)
BY DEF Poised, Reconciling, Controlling, Working, Executing

\* An observed control leaves the run.
LEMMA ObservedStays ==
    ASSUME NEW r, NEW k
    PROVE  \A s \in Materialized(r, <<Observed(k)>>) : s = r
<1>1. Materialized(r, <<Observed(k)>>) = Applied(r, Observed(k))
  BY Single
<1>2. Observed(k).type = "ControlRequestObserved"
  BY DEF Observed
<1>3. \A s \in Applied(r, Observed(k)) : s = r
  BY <1>2 DEF Applied, ControlRequestObserved
<1> QED  BY <1>1, <1>3

\* A session acts on another control.
LEMMA ActsOnly ==
    ASSUME IInv, ControlInv, NEW c \in Coord, NEW k \in pending \cup {None}, ActsOn(c, k)
    PROVE  ctl'[c] = k /\ \A d \in Coord \ {c} : ctl'[d] = ctl[d] /\ orphan'[d] = orphan[d]
BY StillTyped DEF ActsOn

\* coordinateRecovered: a control is observed before the attempt is reconciled.
LEMMA BeginReconcilingRejects ==
    ASSUME IInv, ControlInv, WorkInv, Left(run), RejectInv, NEW c \in Coord, BeginReconciling(c)
    PROVE  RejectInv'
<1>1. pc[c] = "recover" /\ Tame
  BY TameWorld DEF BeginReconciling, At
<1>2. fresh[c] => view[c] = run /\ run \in Run /\ ~Settled(run.status) /\ Sound(run)
  BY <1>1, FreshHolds DEF Poised
<1>3. fresh[c] => \A k, n : Poised("inspect", run, k, n)
  BY <1>2, PoisedReconciling DEF Reconciling
<1>4. CASE Moves(c, "inspect") /\ UNCHANGED task
  BY <1>1, <1>3, <1>4, RejectMoves
<1>5. ASSUME NEW k \in NextControl, ActsOn(c, k), k = None, Moves(c, "inspect")
      PROVE  RejectInv'
  <2>1. ctl'[c] = k /\ \A d \in Coord \ {c} : ctl'[d] = ctl[d] /\ orphan'[d] = orphan[d]
    BY <1>5, ActsOnly
  <2>2. UNCHANGED run /\ pc' = [pc EXCEPT ![c] = "inspect"] /\ fresh' = fresh
    BY <1>5 DEF Moves, store, session
  <2> QED  BY <1>1, <1>3, <2>1, <2>2, RejectStays
<1>6. ASSUME NEW k \in NextControl, ActsOn(c, k), k # None, Commit(c, <<Observed(k)>>, "inspect")
      PROVE  RejectInv'
  <2>1. k \in pending
    BY <1>6 DEF NextControl
  <2>2. ctl'[c] = k /\ \A d \in Coord \ {c} : ctl'[d] = ctl[d] /\ orphan'[d] = orphan[d]
    BY <1>6, <2>1, ActsOnly
  <2>3. CommitPoises(c, <<Observed(k)>>, "inspect")
    BY <1>2, <1>3, ObservedStays DEF CommitPoises
  <2>4. CommitExcused(c, <<Observed(k)>>)
    <3>1. fresh[c] => Accepts(run, <<Observed(k)>>)
      BY <1>2, RunAccepted DEF Settled
    <3> QED  BY <3>1, AcceptsMaterialized DEF CommitExcused
  <2>5. Tame
    BY <1>1
  <2> QED  BY <1>6, <2>2, <2>3, <2>4, <2>5, RejectCommit
<1> QED  BY <1>4, <1>5, <1>6 DEF BeginReconciling

\* applyBoundaryControl of a recovered run without an attempt under way.
LEMMA RecoverBoundaryRejects ==
    ASSUME IInv, ControlInv, WorkInv, Left(run), RejectInv, NEW c \in Coord, RecoverBoundary(c)
    PROVE  RejectInv'
<1>1. pc[c] = "recover" /\ Tame /\ Active(view[c]) = {}
  BY TameWorld DEF RecoverBoundary, At
<1>2. fresh[c] => /\ view[c] = run /\ run \in Run /\ ~Settled(run.status) /\ Sound(run)
                  /\ RunSound(run) /\ Hale(run)
  BY <1>1, FreshHolds DEF Poised
<1>3. PICK k \in IF ctl[c] = None THEN NextControl ELSE {ctl[c]} :
          /\ ActsOn(c, k)
          /\ IF k = None THEN Moves(c, "continue")
             ELSE Commit(c, BoundaryBatch(view[c], k, ctl[c] = None), "returning")
  BY DEF RecoverBoundary
<1>4. k \in Control \cup {None} /\ ctl[c] \in Control \cup {None}
  BY <1>3, StillTyped DEF NextControl
<1>5. ctl'[c] = k /\ \A d \in Coord \ {c} : ctl'[d] = ctl[d] /\ orphan'[d] = orphan[d]
  BY <1>3, <1>4, StillTyped DEF ActsOn
<1>6. CASE k = None
  <2>1. UNCHANGED run /\ pc' = [pc EXCEPT ![c] = "continue"] /\ fresh' = fresh
    BY <1>3, <1>6 DEF Moves, store, session
  <2>2. Poised("continue", run, ctl'[c], orphan'[c])
    BY <1>5, <1>6, PoisedFree DEF Free
  <2> QED  BY <1>1, <1>5, <2>1, <2>2, RejectStays
<1>7. CASE k # None
  <2> DEFINE b == BoundaryBatch(view[c], k, ctl[c] = None)
  <2>1. k \in Control /\ (ctl[c] = None) \in BOOLEAN /\ Commit(c, b, "returning")
    BY <1>3, <1>4, <1>7
  <2>2. SoundAfter(c, b)
    <3>1. \E seen, done : Batch(b, Dry, seen, done)
      BY <2>1, DryBoundary
    <3> QED  BY <3>1, DrySound
  <2>3. Taken(c, b)
    <3> SUFFICES ASSUME fresh[c], Clear(run) PROVE Accepts(run, b)
      BY DEF Taken
    <3>1. Still(run) /\ view[c] = run
      BY <1>1, <1>2, ClearRun
    <3> QED  BY <1>2, <3>1, BoundaryAccepted
  <2>4. FreeAfter(c, "returning")
    BY DEF FreeAfter
  <2> HIDE DEF b
  <2> QED  BY <1>1, <1>5, <2>1, <2>2, <2>3, <2>4, FreeCommits
<1> QED  BY <1>6, <1>7

-----------------------------------------------------------------------------
\* establishRecoveredAbsence: what is not known of an execution blocks the run over its attempt.
LEMMA InspectRejects ==
    ASSUME IInv, ControlInv, WorkInv, Left(run), RejectInv, NEW c \in Coord,
           Inspect(c) \/ TerminateRecovered(c)
    PROVE  RejectInv'
<1> DEFINE v == view[c]
           n == First(Active(v))
           next == Blocked(c)
<1>1. /\ pc[c] \in Reconciling /\ UNCHANGED task /\ Tame
      /\ \/ Moves(c, "capture") \/ Moves(c, "terminate")
         \/ Commit(c, <<RecoveryBlocked(v, n, "execution-unknown")>>, next)
         \/ Commit(c, CleanupUnknown(v, n, CauseOf(ctl[c])), next)
  <2>1. CASE Inspect(c)
    BY <2>1, TameWorld DEF Inspect, At, Reconciling
  <2>2. CASE TerminateRecovered(c)
    BY <2>2, TameWorld DEF TerminateRecovered, At, Reconciling
  <2> QED  BY <2>1, <2>2
<1>2. fresh[c] => /\ v = run /\ run \in Run /\ ~Settled(run.status) /\ Sound(run) /\ Active(run) # {}
  <2>1. fresh[c] => Known(pc[c], ctl[c], Open, run)
    BY FreshKnows
  <2>2. fresh[c] => Active(run) # {}
    BY <1>1, <2>1 DEF Known
  <2> QED  BY <1>1, <2>2, FreshHolds DEF Poised
<1>3. fresh[c] => /\ n \in Active(run) /\ n \in Node /\ run.nodes[n].last.status \in {"prepared", "running"}
                  /\ run.nodes[n].last.plan
  <2>1. ASSUME fresh[c] PROVE n \in Active(run)
    <3>1. Active(run) \in SUBSET Node
      BY DEF Active
    <3> QED  BY <1>2, <2>1, <3>1, FirstIsMember
  <2> QED  BY <1>2, <2>1 DEF Active, Sound, Fit
<1>4. FreeAfter(c, next) /\ next \notin {"rejected", "failing"}
  <2>1. next = "returning" \/ (next = "continue" /\ ctl'[c] = None)
    BY <1>1 DEF Blocked, task
  <2> QED  BY <2>1 DEF FreeAfter, Free
<1>5. \A d \in Coord \ {c} : ctl'[d] = ctl[d] /\ orphan'[d] = orphan[d]
  BY <1>1 DEF task
<1>6. CauseOf(ctl[c]) \in Cause
  <2>1. ctl[c] \in Control \cup {None}
    BY StillTyped
  <2> QED  BY <2>1, CoordinatorConstants DEF CauseOf, Cause
<1> HIDE DEF n, v, next
<1>7. ASSUME NEW place \in {"capture", "terminate"}, Moves(c, place) PROVE RejectInv'
  <2>1. place \in Reconciling
    BY DEF Reconciling
  <2>2. fresh[c] => Poised(place, run, ctl[c], orphan[c])
    BY <1>2, <2>1, PoisedReconciling
  <2> QED  BY <1>1, <1>7, <2>2, RejectMoves
<1>8. ASSUME Commit(c, <<RecoveryBlocked(v, n, "execution-unknown")>>, next) PROVE RejectInv'
  <2>1. PICK e : e = RecoveryBlocked(v, n, "execution-unknown")
    OBVIOUS
  <2>2. SoundAfter(c, <<e>>)
    <3>1. Plain(e, Dry)
      BY <2>1, DryEvents
    <3>2. Batch(<<e>>, Dry, {}, {})
      BY <3>1, PlainEvents
    <3> QED  BY <3>2, DrySound
  <2>3. Taken(c, <<e>>)
    <3> SUFFICES ASSUME fresh[c] PROVE Accepts(run, <<e>>)
      BY DEF Taken
    <3>1. e.type = "RunRecoveryBlocked" /\ e.node = n /\ e.attempt = run.nodes[n].attempts
          /\ e.kind # "cleanup-unknown"
      BY <1>2, <2>1 DEF RecoveryBlocked
    <3> QED  BY <1>2, <1>3, <3>1, RecoveryBlockedAccepted
  <2>4. Commit(c, <<e>>, next)
    BY <1>8, <2>1
  <2> QED  BY <1>1, <1>4, <1>5, <2>2, <2>3, <2>4, FreeCommits
<1>9. ASSUME Commit(c, CleanupUnknown(v, n, CauseOf(ctl[c])), next) PROVE RejectInv'
  <2>1. PICK cause \in Cause : cause = CauseOf(ctl[c])
    BY <1>6
  <2>2. PICK b : b = CleanupUnknown(v, n, cause)
    OBVIOUS
  <2>3. Wary(b, {})
    <3>1. PICK e : e = Cleanup(v, n, cause, "unknown")
      OBVIOUS
    <3>2. Plain(e, Quiet) /\ Vague(e)
      <4>1. "unknown" \in CleanupOutcome /\ e.outcome = "unknown"
        BY <3>1 DEF CleanupOutcome, Cleanup
      <4> QED  BY <3>1, <4>1, TypedEvents DEF Vague
    <3>3. Wary(<<e>>, {})
      BY <3>2, DrySets, WaryParts
    <3>4. Wary(<<>>, {})
      BY NoEvent, WaryParts
    <3>5. PICK f : f = RecoveryBlocked(v, n, "cleanup-unknown")
      OBVIOUS
    <3>6. Wary(<<f>>, {})
      <4>1. Plain(f, Dry)
        BY <3>5, DryEvents
      <4>2. Batch(<<f>>, Dry, {}, {})
        BY <4>1, PlainEvents
      <4> QED  BY <4>2, WaryParts
    <3>7. PICK a \in {<<>>, <<e>>} : b = a \o <<f>>
      BY <2>2, <3>1, <3>5 DEF CleanupUnknown
    <3>8. Wary(a, {})
      BY <3>3, <3>4, <3>7
    <3> QED  BY <3>6, <3>7, <3>8, WaryJoined
  <2>4. SoundAfter(c, b)
    <3> SUFFICES ASSUME fresh[c], NEW s \in Materialized(run, b) PROVE Sound(s)
      BY DEF SoundAfter
    <3>1. run \in Run /\ Sound(run)
      BY <1>2
    <3> QED  BY <2>3, <3>1, WaryKeeps
  <2>5. Taken(c, b)
    <3> SUFFICES ASSUME fresh[c] PROVE Accepts(run, b)
      BY DEF Taken
    <3>1. Accepts(run, CleanupUnknown(run, n, cause))
      BY <1>2, <1>3, <2>1, CleanupUnknownAccepted
    <3> QED  BY <1>2, <2>2, <3>1
  <2>6. Commit(c, b, next)
    BY <1>9, <2>1, <2>2
  <2> QED  BY <1>1, <1>4, <1>5, <2>4, <2>5, <2>6, FreeCommits
<1> QED  BY <1>1, <1>7, <1>8, <1>9

\* reconcileOwnedAttempt: the attempt of a node that was set aside, and of no other, is not taken.
LEMMA OrphanRejects ==
    ASSUME IInv, ControlInv, WorkInv, Left(run), RejectInv, DOMAIN orphan = Coord, NEW c \in Coord, Orphan(c)
    PROVE  RejectInv'
<1> DEFINE v == view[c]
           n == First(Active(v))
           cause == CauseOf(ctl[c])
           e == [type |-> "AttemptOrphaned", node |-> n, attempt |-> v.nodes[n].attempts,
                 differs |-> Changed(n)]
           o == Cleanup(v, n, cause, "confirmed")
           p == IF CleanupRecorded(v, n, cause) THEN <<>> ELSE <<o>>
           x == AttemptEvent(v, "ArtifactProduced", n)
           b == <<x>> \o p \o <<e>>
<1>1. pc[c] \in Reconciling /\ Commit(c, b, "orphaned") /\ Tame
  BY TameWorld DEF Orphan, At, Reconciling
<1>2. orphan'[c] = n /\ \A d \in Coord \ {c} : ctl'[d] = ctl[d] /\ orphan'[d] = orphan[d]
  BY DEF Orphan
<1>3. cause \in Cause /\ Changed(n) \in BOOLEAN
  BY CoordinatorConstants DEF CauseOf, Cause, ControlInv, ControlTyped, Changed
<1>4. fresh[c] => /\ v = run /\ run \in Run /\ ~Settled(run.status) /\ Sound(run) /\ Active(run) # {}
                  /\ RunSound(run) /\ Hale(run)
  <2>1. fresh[c] => Known(pc[c], ctl[c], Open, run)
    BY FreshKnows
  <2>2. fresh[c] => Active(run) # {}
    BY <1>1, <2>1 DEF Known
  <2> QED  BY <1>1, <2>2, FreshHolds DEF Poised
<1>5. fresh[c] => n \in Active(run) /\ n \in Node
  <2>1. ASSUME fresh[c] PROVE n \in Active(run)
    <3>1. Active(run) \in SUBSET Node
      BY DEF Active
    <3> QED  BY <1>4, <2>1, <3>1, FirstIsMember
  <2> QED  BY <2>1 DEF Active
<1>6. /\ e.type = "AttemptOrphaned" /\ e.node = n /\ e.attempt = v.nodes[n].attempts /\ e.differs \in BOOLEAN
      /\ e.type \in EndsAttempt
  BY <1>3 DEF EndsAttempt
<1>7. /\ x.type = "ArtifactProduced" /\ x.node = n /\ x.attempt = v.nodes[n].attempts
      /\ o.type = "ExecutionCleanupObserved" /\ o.node = n /\ o.attempt = v.nodes[n].attempts
      /\ o.cause = cause /\ o.outcome = "confirmed" /\ o.outcome \in CleanupOutcome
  BY DEF AttemptEvent, Cleanup, CleanupOutcome
<1>8. Plain(e, Dry) /\ Plain(x, Dry) /\ Plain(o, Quiet)
  BY <1>3, <1>7, DryEvents, TypedEvents
<1>9. ASSUME NEW r \in Run, NEW s \in Applied(r, e), n \in Node PROVE n \in Orphaned(s)
  BY <1>9, OrphanEvent
<1>10. p = <<>> \/ (p = <<o>> /\ FirstOf(o, v.nodes[n].last.cleanup))
  BY <1>7 DEF FirstOf, CleanupRecorded
<1> HIDE DEF n, v, cause, e, o, x, p
<1>11. Wary(<<x>>, {n}) /\ Wary(p, {n}) /\ Wary(<<e>>, {n})
  <2>1. Wary(<<x>>, {n}) /\ Wary(<<e>>, {n}) /\ Wary(<<>>, {n})
    BY <1>8, PlainEvents, NoEvent, WaryParts
  <2>2. Wary(<<o>>, {n})
    BY <1>7, <1>8, DrySets, WaryParts
  <2> QED  BY <1>10, <2>1, <2>2
<1>12. Wary(b, {n})
  BY <1>11, WaryJoined
<1>13. EndsIn(b, e) /\ Has(b, e)
  <2>1. PICK a : a = <<x>> \o p
    OBVIOUS
  <2>2. PICK s1, d1 : Batch(a, Halting, s1, d1)
    BY <1>11, <2>1, WaryJoined DEF Wary
  <2>3. PICK s2, d2 : Batch(<<e>>, Halting, s2, d2)
    BY <1>11 DEF Wary
  <2>4. EndsIn(a \o <<e>>, e) /\ Has(a \o <<e>>, e)
    BY <2>2, <2>3, EndOfOne, HasOne, EndOfJoined, HasJoined
  <2> QED  BY <2>1, <2>4
<1> HIDE DEF b
<1>14. CommitPoises(c, b, "orphaned")
  <2> SUFFICES ASSUME fresh[c], NEW s \in Materialized(run, b)
               PROVE  Sound(s) /\ Poised("orphaned", s, ctl'[c], orphan'[c])
    BY DEF CommitPoises
  <2>1. Sound(s)
    <3>1. run \in Run /\ Sound(run)
      BY <1>4
    <3>2. \E f : Has(b, f) /\ f.type \in EndsAttempt /\ f.node = n
      BY <1>6, <1>13
    <3> QED  BY <1>12, <3>1, <3>2, WaryKeeps
  <2>2. n \in Orphaned(s)
    <3>1. PICK seen, done : Batch(b, Halting, seen, done)
      BY <1>12 DEF Wary
    <3>2. run \in Run /\ n \in Node
      BY <1>4, <1>5
    <3>3. \E t \in Run : s \in Applied(t, e)
      BY <1>13, <3>1, <3>2, LastOfBatch
    <3> QED  BY <1>9, <3>2, <3>3
  <2> QED  BY <1>2, <2>1, <2>2 DEF Poised, Reconciling, Controlling, Working, Executing
<1>15. CommitExcused(c, b)
  <2> SUFFICES ASSUME fresh[c], Clear(run) PROVE Materialized(run, b) # {}
    BY DEF CommitExcused
  <2>1. /\ run \in Run /\ run.configured /\ run.status \notin TerminalRun /\ n \in Node /\ v = run
        /\ run.nodes[n] \in NodeState
    BY <1>4, <1>5 DEF Sound, Settled, Run
  <2> PICK y : y = run.nodes[n]
    OBVIOUS
  <2>2. /\ y.last.plan
        /\ \/ y.status = "ready" /\ y.last.status = "prepared"
           \/ y.status = "running" /\ y.last.status = "running"
    BY <1>4, <1>5, ClearRun
  <2>3. Holds(run, n, y.attempts, y.status, y.last.status, y.last.timeout, y.last.cleanup)
    BY <2>1, <2>2 DEF Holds, Stage
  <2>4. x.attempt = y.attempts /\ o.attempt = y.attempts /\ e.attempt = y.attempts
    BY <1>6, <1>7, <2>1
  <2>5. p = <<>> \/ (p = <<o>> /\ FirstOf(o, y.last.cleanup))
    BY <1>10, <2>1
  <2>6. o.cause \in Cause
    BY <1>3, <1>7
  <2>7. Accepts(run, <<x>> \o p \o <<e>>)
    BY <1>6, <1>7, <2>2, <2>3, <2>4, <2>5, <2>6, OrphanAccepted
  <2> QED  BY <2>7, AcceptsMaterialized DEF b
<1> QED  BY <1>1, <1>2, <1>14, <1>15, RejectCommit

\* What a session commits in such a gap need not be taken; what it leaves is sound all the same.
LEMMA GapCommits ==
    ASSUME IInv, ControlInv, RejectInv, NEW c \in Coord, NEW batch, NEW next \in {"returning", "continue"},
           Commit(c, batch, next), \E seen, done : Batch(batch, Dry, seen, done),
           UNCHANGED ctl /\ Tame, \A d \in Coord \ {c} : orphan'[d] = orphan[d],
           fresh[c] => ~Clear(run) /\ (next = "returning" \/ ctl[c] = None)
    PROVE  RejectInv'
<1>1. SoundAfter(c, batch)
  BY DrySound
<1>2. FreeAfter(c, next) /\ Taken(c, batch)
  BY DEF FreeAfter, Free, Taken
<1>3. next \notin {"rejected", "failing"} /\ \A d \in Coord \ {c} : ctl'[d] = ctl[d] /\ orphan'[d] = orphan[d]
  OBVIOUS
<1> QED  BY <1>1, <1>2, <1>3, FreeCommits

\* finishRecoveredControl, continueOrphaned and a preflight of it that fails.
LEMMA OrphanedRejects ==
    ASSUME IInv, ControlInv, WorkInv, Left(run), RejectInv, DOMAIN orphan = Coord, NEW c \in Coord,
           FinishRecoveredControl(c) \/ ContinueOrphaned(c) \/ PreflightFailsOrphaned(c)
    PROVE  RejectInv'
<1>1. CASE FinishRecoveredControl(c)
  <2> DEFINE v == view[c]
             k == ctl[c]
  <2>1. /\ pc[c] = "orphaned" /\ UNCHANGED <<ctl, orphan>> /\ Tame /\ k \in Control
        /\ Commit(c, IF ActionOf[k] = "pause" THEN PauseBoth(orphan[c], "operator", k)
                     ELSE CancelNodes(v) \o <<Cancelled(k)>>, "returning")
    BY <1>1, StillTyped, TameWorld DEF FinishRecoveredControl, At, task
  <2>2. fresh[c] => ~Clear(run)
    BY <2>1, FreshHolds DEF Poised, Clear
  <2> HIDE DEF v, k
  <2>3. PICK b : b = IF ActionOf[k] = "pause" THEN PauseBoth(orphan[c], "operator", k)
                     ELSE CancelNodes(v) \o <<Cancelled(k)>>
    OBVIOUS
  <2>4. \E seen, done : Batch(b, Dry, seen, done)
    <3>1. "operator" \in PauseKind /\ k \in Control \cup {None}
      BY <2>1 DEF PauseKind
    <3>2. \E done : Batch(PauseBoth(orphan[c], "operator", k), Dry, {}, done)
      BY <3>1, DryParts
    <3>3. \E done : Batch(CancelNodes(v) \o <<Cancelled(k)>>, Dry, {}, done)
      BY <3>1, DryParts
    <3> QED  BY <2>3, <3>2, <3>3
  <2>5. Commit(c, b, "returning")
    BY <2>1, <2>3
  <2> QED  BY <2>1, <2>2, <2>4, <2>5, GapCommits
<1>2. ASSUME ContinueOrphaned(c) \/ PreflightFailsOrphaned(c) PROVE RejectInv'
  <2> DEFINE v == view[c]
             n == NodeToContinue(c)
  <2>0. OrphanToContinue(c) /\ UNCHANGED ctl /\ Tame /\ \A d \in Coord \ {c} : orphan'[d] = orphan[d]
    BY <1>2, TameWorld DEF ContinueOrphaned, PreflightFailsOrphaned, Reconciled
  <2>1. \/ \E reason \in PauseKind : Commit(c, PauseBoth(n, reason, None), "continue")
        \/ Commit(c, <<Because("NodeReady", n, "recovered")>> \o ResumeBlocked(v), "continue")
    <3>1. CASE PreflightFailsOrphaned(c)
      BY <3>1 DEF PreflightFailsOrphaned, PauseKind, PreflightFailure
    <3>2. CASE ContinueOrphaned(c)
      <4>1. PICK b : b = IF v.nodes[n].last.differs THEN PauseBoth(n, "workspace-conflict", None)
                         ELSE IF ~BudgetLeft(v, n) THEN PauseBoth(n, "attempt-budget-exhausted", None)
                         ELSE <<Because("NodeReady", n, "recovered")>> \o ResumeBlocked(v)
        OBVIOUS
      <4>2. Commit(c, b, "continue")
        BY <3>2, <4>1 DEF ContinueOrphaned
      <4>3. \/ \E reason \in PauseKind : b = PauseBoth(n, reason, None)
            \/ b = <<Because("NodeReady", n, "recovered")>> \o ResumeBlocked(v)
        BY <4>1 DEF PauseKind
      <4> QED  BY <4>2, <4>3
    <3> QED  BY <1>2, <3>1, <3>2
  <2>2. ASSUME fresh[c] PROVE ~Clear(run) /\ ctl[c] = None
    <3>1. view[c] = run /\ Poised(pc[c], run, ctl[c], orphan[c])
      BY <2>2, FreshHolds
    <3> QED  BY <2>0, <3>1 DEF OrphanToContinue, At, Poised, Clear
  <2> HIDE DEF v, n
  <2>3. ASSUME NEW reason \in PauseKind, Commit(c, PauseBoth(n, reason, None), "continue") PROVE RejectInv'
    <3>1. \E done : Batch(PauseBoth(n, reason, None), Dry, {}, done)
      BY DryParts
    <3> QED  BY <2>0, <2>2, <2>3, <3>1, GapCommits
  <2>4. ASSUME Commit(c, <<Because("NodeReady", n, "recovered")>> \o ResumeBlocked(v), "continue")
        PROVE  RejectInv'
    <3>1. Batch(<<Because("NodeReady", n, "recovered")>>, Dry, {}, {}) /\ Batch(<<Resumed>>, Dry, {}, {})
      BY DryEvents, PlainEvents
    <3>2. Batch(ResumeBlocked(v), Dry, {}, {})
      BY <3>1, NoEvent DEF ResumeBlocked
    <3>3. Batch(<<Because("NodeReady", n, "recovered")>> \o ResumeBlocked(v), Dry, {}, {})
      BY <3>1, <3>2, PlainThen
    <3> QED  BY <2>0, <2>2, <2>4, <3>3, GapCommits
  <2> QED  BY <2>1, <2>3, <2>4
<1> QED  BY <1>1, <1>2

\* A stopped run resumes, stays as it is or goes on, and its runtime is negotiated.
LEMMA ContinuingRejects ==
    ASSUME IInv, ControlInv, WorkInv, Left(run), RejectInv, NEW c \in Coord,
           ResumePaused(c) \/ StayStopped(c) \/ ContinueRunning(c) \/ Negotiate(c)
    PROVE  RejectInv'
<1>1. UNCHANGED task /\ Tame /\ UNCHANGED <<ctl, orphan>>
  BY TameWorld DEF ResumePaused, StayStopped, ContinueRunning, Negotiate, task
<1>2. pc[c] \in {"continue", "resuming", "preflight"}
  BY DEF ResumePaused, StayStopped, ContinueRunning, Negotiate, At
<1>3. ASSUME fresh[c]
      PROVE  /\ view[c] = run /\ run \in Run /\ ctl[c] = None
             /\ pc[c] = "resuming" => run.status = "paused"
             /\ pc[c] = "preflight" => run.status = "running"
  <2>1. pc[c] \in Working \cup {"continue", "resuming"}
    BY <1>2 DEF Working
  <2> QED  BY <1>3, <2>1, FreshHolds DEF Poised
<1>4. CASE ResumePaused(c)
  <2>1. PICK b : b = ReadyBatch(PausedNodes(view[c]), "resumed") \o <<Resumed>>
    OBVIOUS
  <2>2. Commit(c, b, "schedule")
    BY <1>4, <2>1 DEF ResumePaused
  <2>3. SoundAfter(c, b)
    <3>1. Batch(ReadyBatch(PausedNodes(view[c]), "resumed"), Dry, {}, {})
      BY DrySets, NodeBatches
    <3>2. Batch(<<Resumed>>, Dry, {}, {})
      BY DryEvents, PlainEvents
    <3>3. Batch(b, Dry, {}, {})
      BY <2>1, <3>1, <3>2, PlainThen
    <3> QED  BY <3>3, DrySound
  <2>4. Taken(c, b)
    <3> SUFFICES ASSUME fresh[c] PROVE Accepts(run, b)
      BY DEF Taken
    <3>1. run.status = "paused"
      BY <1>3, <1>4 DEF ResumePaused, At, MayResume
    <3> QED  BY <1>3, <2>1, <3>1, ResumeAccepted
  <2>5. FreeAfter(c, "schedule")
    BY <1>1, <1>3 DEF FreeAfter, Free
  <2> QED  BY <1>1, <2>2, <2>3, <2>4, <2>5, FreeCommits
<1>5. CASE StayStopped(c)
  BY <1>1, <1>5, RejectMoves DEF StayStopped, Ending
<1>6. CASE ContinueRunning(c)
  <2>1. fresh[c] => Poised("schedule", run, ctl[c], orphan[c])
    BY <1>3, PoisedFree DEF Free
  <2> QED  BY <1>1, <1>6, <2>1, RejectMoves DEF ContinueRunning
<1>7. CASE Negotiate(c)
  <2>1. PICK b : b = <<RunEvent("RuntimeNegotiated")>>
    OBVIOUS
  <2>2. SoundAfter(c, b)
    <3>1. Batch(b, Dry, {}, {})
      BY <2>1, DryEvents, PlainEvents
    <3> QED  BY <3>1, DrySound
  <2>3. ASSUME fresh[c] PROVE Accepts(run, b)
    <3>1. NeedsNegotiation(run) /\ run.status \in {"paused", "running"}
      BY <1>3, <1>7, <2>3 DEF Negotiate, At, MayResume
    <3> QED  BY <1>3, <2>1, <2>3, <3>1, RunAccepted DEF TerminalRun
  <2>4. CASE pc[c] = "preflight" /\ Commit(c, b, "prepare")
    <3>1. FreeAfter(c, "prepare") /\ Taken(c, b)
      BY <1>1, <1>3, <2>3 DEF FreeAfter, Free, Taken
    <3> QED  BY <1>1, <2>2, <2>4, <3>1, FreeCommits
  <2>5. CASE MayResume(view[c]) /\ Commit(c, b, "resuming")
    <3>1. CommitPoises(c, b, "resuming")
      <4> SUFFICES ASSUME fresh[c], NEW s \in Materialized(run, b)
                   PROVE  Sound(s) /\ Poised("resuming", s, ctl'[c], orphan'[c])
        BY DEF CommitPoises
      <4>1. Sound(s)
        BY <2>2 DEF SoundAfter
      <4>2. s.status = "paused" /\ ctl'[c] = None
        BY <1>1, <1>3, <2>1, <2>5, NegotiationKeeps DEF MayResume
      <4> QED  BY <4>1, <4>2 DEF Poised, Reconciling, Controlling
    <3>2. CommitExcused(c, b)
      BY <2>3, AcceptsMaterialized DEF CommitExcused
    <3>3. Tame
      BY <1>1
    <3> QED  BY <1>1, <2>5, <3>1, <3>2, <3>3, RejectCommit
  <2> QED  BY <1>7, <2>1, <2>4, <2>5 DEF Negotiate, At
<1> QED  BY <1>4, <1>5, <1>6, <1>7

\* Where a session schedules, no control is in its way and nothing runs; nor does a node, but in a gap.
LEMMA ScheduleHolds ==
    ASSUME IInv, ControlInv, WorkInv, Left(run), RejectInv, NEW c \in Coord, fresh[c],
           \/ pc[c] \in {"preflight", "prepare", "succeeded", "complete"}
           \/ pc[c] = "schedule" /\ run.status = "running"
    PROVE  /\ view[c] = run /\ run \in Run /\ Sound(run) /\ run.configured /\ Hale(run) /\ ctl[c] = None
           /\ run.status = "running" /\ ~Settled(run.status) /\ run.status \notin TerminalRun
           /\ Runs(run) = {} /\ (Clear(run) => Still(run))
<1>1. /\ view[c] = run /\ run \in Run /\ RunSound(run) /\ Sound(run)
      /\ Poised(pc[c], run, ctl[c], orphan[c]) /\ Stands(pc[c], run, Threats)
      /\ ~Settled(run.status) => Hale(run)
      /\ pc[c] \in Working \cup Controlling =>
                 run.status = "running" /\ ~Settled(run.status) /\ run.status \notin TerminalRun
  BY FreshHolds
<1>2. pc[c] = "schedule" \/ (pc[c] \in NoneRuns /\ pc[c] \in Working)
  BY Places DEF NoneRuns
<1>3. run.status = "running" /\ ctl[c] = None /\ Runs(run) = {}
  BY <1>1, <1>2 DEF Poised, Stands
<1>4. ~Settled(run.status) /\ run.status \notin TerminalRun
  BY <1>3 DEF Settled, TerminalRun
<1>5. Clear(run) => Still(run)
  BY <1>1, <1>3, <1>4, ClearRun
<1> QED  BY <1>1, <1>3, <1>4, <1>5 DEF Sound

\* A control at a boundary.
LEMMA BoundaryRejects ==
    ASSUME IInv, ControlInv, WorkInv, Left(run), RejectInv, NEW c \in Coord, Boundary(c)
    PROVE  RejectInv'
<1>1. pc[c] = "schedule" /\ view[c].status = "running" /\ Tame
  BY TameWorld DEF Boundary, At
<1>2. PICK k \in pending : /\ Commit(c, BoundaryBatch(view[c], k, TRUE), "schedule")
                           /\ ActsOn(c, IF pc'[c] = "rejected" THEN k ELSE None)
  BY DEF Boundary
<1>3. k \in Control
  BY DEF ControlInv, ControlTyped
<1>4. PICK kk : kk = IF pc'[c] = "rejected" THEN k ELSE None
  OBVIOUS
<1>5. ctl'[c] = kk /\ \A d \in Coord \ {c} : ctl'[d] = ctl[d] /\ orphan'[d] = orphan[d]
  <2>1. kk \in pending \cup {None} /\ ActsOn(c, kk)
    BY <1>2, <1>4
  <2> QED  BY <2>1, ActsOnly
<1>6. PICK b : b = BoundaryBatch(view[c], k, TRUE)
  OBVIOUS
<1>7. Commit(c, b, "schedule")
  BY <1>2, <1>6
<1>8. SoundAfter(c, b)
  <2>1. \E seen, done : Batch(b, Dry, seen, done)
    BY <1>3, <1>6, DryBoundary
  <2> QED  BY <2>1, DrySound
<1>9. CommitPoises(c, b, "schedule")
  <2> SUFFICES ASSUME fresh[c], pc'[c] = "schedule", NEW s \in Materialized(run, b)
               PROVE  Sound(s) /\ Poised("schedule", s, ctl'[c], orphan'[c])
    BY DEF CommitPoises
  <2>1. ctl'[c] = None
    BY <1>4, <1>5
  <2>2. Poised("schedule", s, None, orphan'[c])
    BY PoisedFree DEF Free
  <2> QED  BY <1>8, <2>1, <2>2 DEF SoundAfter
<1>10. CommitExcused(c, b)
  <2> SUFFICES ASSUME fresh[c], Clear(run) PROVE Materialized(run, b) # {}
    BY DEF CommitExcused
  <2>1. view[c] = run
    BY FreshHolds
  <2>2. run \in Run /\ ~Settled(run.status) /\ Still(run)
    BY <1>1, <2>1, ScheduleHolds
  <2>3. Accepts(run, b)
    BY <1>6, <2>1, <2>2, BoundaryAccepted
  <2> QED  BY <2>3, AcceptsMaterialized
<1> QED  BY <1>1, <1>5, <1>7, <1>9, <1>10, RejectCommit

\* The next node, or none; what depends on one that succeeded; the end of the run.
LEMMA SchedulingRejects ==
    ASSUME IInv, ControlInv, WorkInv, Left(run), RejectInv, NEW c \in Coord,
           Schedule(c) \/ StopCoordinating(c) \/ ReadyDependents(c) \/ CompleteRun(c)
    PROVE  RejectInv'
<1>1. UNCHANGED task /\ Tame /\ UNCHANGED <<ctl, orphan>>
  BY TameWorld DEF Schedule, StopCoordinating, ReadyDependents, CompleteRun, task
<1>2. ASSUME fresh[c], ~StopCoordinating(c)
      PROVE  /\ view[c] = run /\ run \in Run /\ ctl[c] = None
             /\ run.status = "running" /\ run.status \notin TerminalRun
  <2>1. view[c] = run
    BY <1>2, FreshHolds
  <2>2. pc[c] \in {"succeeded", "complete"} \/ (pc[c] = "schedule" /\ run.status = "running")
    BY <1>2, <2>1 DEF Schedule, ReadyDependents, CompleteRun, At
  <2> QED  BY <1>2, <2>2, ScheduleHolds
<1>3. ASSUME ~StopCoordinating(c), NEW next \in Free, next # "rejected", Moves(c, next) PROVE RejectInv'
  <2>1. fresh[c] => Poised(next, run, ctl[c], orphan[c])
    BY <1>2, <1>3, PoisedFree
  <2> QED  BY <1>1, <1>3, <2>1, RejectMoves
<1>4. ASSUME ~StopCoordinating(c), NEW next \in Free, next \notin {"rejected", "failing"}, NEW batch,
             Commit(c, batch, next), \E seen, done : Batch(batch, Dry, seen, done),
             fresh[c] => Accepts(run, batch)
      PROVE  RejectInv'
  <2>1. SoundAfter(c, batch)
    BY <1>4, DrySound
  <2>2. FreeAfter(c, next) /\ Taken(c, batch)
    BY <1>1, <1>2, <1>4 DEF FreeAfter, Taken
  <2>3. Tame /\ \A d \in Coord \ {c} : ctl'[d] = ctl[d] /\ orphan'[d] = orphan[d]
    BY <1>1
  <2> QED  BY <1>4, <2>1, <2>2, <2>3, FreeCommits
<1>5. ASSUME NEW next \in Ending, next # "rejected", Moves(c, next) PROVE RejectInv'
  BY <1>1, <1>5, RejectMoves
<1> DEFINE b == ReadyBatch(Executable(view[c]), "dependencies-satisfied")
<1>6. \E seen, done : Batch(b, Dry, seen, done)
  BY DrySets, NodeBatches
<1>7. ASSUME fresh[c], ~StopCoordinating(c) PROVE Accepts(run, b)
  BY <1>2, <1>7, ReadyAccepted
<1> HIDE DEF b
<1>8. CASE StopCoordinating(c)
  BY <1>5, <1>8 DEF StopCoordinating, Ending
<1>9. CASE Schedule(c) /\ ~StopCoordinating(c)
  <2>1. Moves(c, "preflight") \/ Commit(c, b, "preflight") \/ Moves(c, "returning")
    BY <1>9 DEF Schedule, b
  <2> QED  BY <1>3, <1>4, <1>5, <1>6, <1>7, <1>9, <2>1 DEF Free, Ending
<1>10. CASE ReadyDependents(c) /\ ~StopCoordinating(c)
  <2>1. Commit(c, b, "complete")
    BY <1>10 DEF ReadyDependents, b
  <2> QED  BY <1>4, <1>6, <1>7, <1>10, <2>1 DEF Free
<1>11. CASE CompleteRun(c) /\ ~StopCoordinating(c)
  <2> DEFINE e == [type |-> "RunCompleted", outcome |-> "succeeded"]
  <2>1. \/ Moves(c, "schedule")
        \/ Commit(c, <<e>>, "schedule") /\ \A n \in Node : view[c].nodes[n].status = "succeeded"
    BY <1>11 DEF CompleteRun
  <2>2. CASE Commit(c, <<e>>, "schedule") /\ \A n \in Node : view[c].nodes[n].status = "succeeded"
    <3>1. Batch(<<e>>, Dry, {}, {})
      BY DryEvents, PlainEvents
    <3>2. fresh[c] => Accepts(run, <<e>>)
      BY <1>2, <1>11, <2>2, RunAccepted
    <3>3. \E seen, done : Batch(<<e>>, Dry, seen, done)
      BY <3>1
    <3> HIDE DEF e
    <3> QED  BY <1>4, <1>11, <2>2, <3>2, <3>3 DEF Free
  <2> QED  BY <1>3, <1>11, <2>1, <2>2 DEF Free
<1> QED  BY <1>8, <1>9, <1>10, <1>11

\* ensureAttemptBudget and the preflight of the node that is next.
LEMMA PreflightRejects ==
    ASSUME IInv, ControlInv, WorkInv, NamesInv, Left(run), RejectInv, NEW c \in Coord, Preflight(c)
    PROVE  RejectInv'
<1> DEFINE n == First(Ready(view[c]))
<1>1. pc[c] = "preflight" /\ UNCHANGED task /\ Tame /\ UNCHANGED <<ctl, orphan>>
  BY TameWorld DEF Preflight, At, task
<1>2. ASSUME fresh[c]
      PROVE  /\ view[c] = run /\ run \in Run /\ run.configured /\ ctl[c] = None
             /\ run.status = "running" /\ run.status \notin TerminalRun /\ (Clear(run) => Still(run))
             /\ n \in Ready(run)
  <2>1. /\ view[c] = run /\ run \in Run /\ run.configured /\ ctl[c] = None
        /\ run.status = "running" /\ run.status \notin TerminalRun /\ (Clear(run) => Still(run))
    BY <1>1, <1>2, ScheduleHolds
  <2>2. Ready(run) # {} /\ Ready(run) \in SUBSET Node
    BY <1>1, <1>2 DEF NamesInv, Placed, Choosing, Ready
  <2>3. n \in Ready(run)
    BY <2>1, <2>2, FirstIsMember
  <2> QED  BY <2>1, <2>3
<1> HIDE DEF n
<1>3. ASSUME NEW batch, Commit(c, batch, "schedule"), \E seen, done : Batch(batch, Dry, seen, done),
             fresh[c] /\ Clear(run) => Accepts(run, batch)
      PROVE  RejectInv'
  <2>1. SoundAfter(c, batch)
    BY <1>3, DrySound
  <2>2. FreeAfter(c, "schedule") /\ Taken(c, batch)
    BY <1>1, <1>2, <1>3 DEF FreeAfter, Taken, Free
  <2>3. Tame /\ \A d \in Coord \ {c} : ctl'[d] = ctl[d] /\ orphan'[d] = orphan[d]
    BY <1>1
  <2> QED  BY <1>3, <2>1, <2>2, <2>3, FreeCommits
<1>4. "attempt-budget-exhausted" \in PauseKind
  BY DEF PauseKind
<1>5. CASE Commit(c, PauseBoth(n, "attempt-budget-exhausted", None), "schedule")
  <2>1. \E done : Batch(PauseBoth(n, "attempt-budget-exhausted", None), Dry, {}, done)
    BY <1>4, DryParts
  <2>2. fresh[c] /\ Clear(run) => Accepts(run, PauseBoth(n, "attempt-budget-exhausted", None))
    BY <1>2, <1>4, ReadyPauses
  <2> QED  BY <1>3, <1>5, <2>1, <2>2
<1>6. CASE Commit(c, <<Paused(None)>>, "schedule")
  <2>1. \E done : Batch(<<Paused(None)>>, Dry, {}, done)
    BY DryParts
  <2>2. fresh[c] /\ Clear(run) => Accepts(run, <<Paused(None)>>)
    BY <1>2, RunAccepted
  <2> QED  BY <1>3, <1>6, <2>1, <2>2
<1>7. CASE Moves(c, "prepare")
  <2>1. fresh[c] => Poised("prepare", run, ctl[c], orphan[c])
    BY <1>2, PoisedFree DEF Free
  <2> QED  BY <1>1, <1>7, <2>1, RejectMoves
<1> QED  BY <1>5, <1>6, <1>7 DEF Preflight, n

\* The attempt in hand, as its batches need it.
LEMMA HeldHolds ==
    ASSUME NEW r \in Run, Sound(r), r.status \notin TerminalRun, NEW ready, NEW timeout,
           NEW status \in {"prepared", "running"}, Held(r, ready, status, timeout)
    PROVE  /\ First(Active(r)) \in Active(r) /\ First(Active(r)) \in Node
           /\ Holds(r, First(Active(r)), r.nodes[First(Active(r))].attempts, ready, status, timeout, {})
<1>1. Active(r) # {} /\ Active(r) \in SUBSET Node
  BY DEF Held, Active
<1>2. First(Active(r)) \in Active(r)
  BY <1>1, FirstIsMember
<1> PICK n : n = First(Active(r))
  OBVIOUS
<1>3. n \in Node /\ Fit(r.nodes[n]) /\ r.configured /\ r.nodes[n] \in NodeState
  BY <1>1, <1>2 DEF Sound, Run
<1>4. /\ r.nodes[n].status = ready /\ r.nodes[n].last.status = status
      /\ r.nodes[n].last.timeout = timeout /\ r.nodes[n].last.cleanup = {} /\ r.nodes[n].last.plan
  BY <1>3 DEF Held, Fit
<1> QED  BY <1>2, <1>3, <1>4 DEF Holds, Stage

\* An attempt is prepared of its node, and of no other.
LEMMA PreparedNode ==
    ASSUME NEW r \in Run, NEW n \in Node, NEW k,
           NEW a, a.type = "AttemptScheduled" /\ a.node = n /\ a.attempt = k,
           NEW b, b.type = "ArtifactProduced" /\ b.node = n /\ b.attempt = k,
           NEW c, c.type = "AttemptPrepared" /\ c.node = n /\ c.attempt = k,
           NEW s \in Materialized(r, <<a, b, c>>)
    PROVE  /\ \A m \in Node \ {n} : s.nodes[m] = r.nodes[m]
           /\ s.nodes[n].status = "ready" /\ s.nodes[n].last.status = "prepared"
           /\ s.nodes[n].last.timeout = "none" /\ s.nodes[n].last.cleanup = {}
<1> DEFINE Made(status) ==
             {u \in Run : /\ \A m \in Node \ {n} : u.nodes[m] = r.nodes[m]
                          /\ u.nodes[n].status = "ready" /\ u.nodes[n].last.status = status
                          /\ u.nodes[n].last.timeout = "none" /\ u.nodes[n].last.cleanup = {}}
<1>1. Applied(r, a) \subseteq Made("scheduled")
  <2> SUFFICES ASSUME NEW u \in Applied(r, a) PROVE u \in Made("scheduled")
    OBVIOUS
  <2>1. u \in AttemptScheduled(r, a)
    BY DEF Applied
  <2> DEFINE l == [NoAttempt EXCEPT !.status = "scheduled"]
             x == [NodeOf(r, a) EXCEPT !.attempts = a.attempt, !.last = l]
  <2>2. /\ NodeOf(r, a).status = "ready" /\ a.attempt = NodeOf(r, a).attempts + 1 /\ u = Updated(r, a, x)
        /\ NodeOf(r, a) \in NodeState /\ NodeOf(r, a).attempts \in Nat
    BY <2>1 DEF AttemptScheduled, When, NodeIn, NodeOf, Run, NodeState
  <2>3. l \in Attempt /\ l.status = "scheduled" /\ l.timeout = "none" /\ l.cleanup = {}
    BY DEF NoAttempt, Attempt, AttemptStatus
  <2> HIDE DEF l
  <2>4. /\ x.status = "ready" /\ x.last.status = "scheduled" /\ x.last.timeout = "none" /\ x.last.cleanup = {}
        /\ x \in NodeState
    <3> PICK o : o = NodeOf(r, a)
      OBVIOUS
    <3>1. o \in NodeState /\ o.status = "ready" /\ a.attempt \in Nat
      BY <2>2
    <3> QED  BY <2>3, <3>1 DEF NodeState
  <2> HIDE DEF x
  <2>5. u \in Run /\ \A m \in Node : u.nodes[m] = IF m = n THEN x ELSE r.nodes[m]
    BY <2>2, <2>4, UpdatedRun
  <2> QED  BY <2>4, <2>5
<1>2. ASSUME NEW t \in Made("scheduled") PROVE Applied(t, b) \subseteq Made("scheduled")
  BY <1>2 DEF Applied, ArtifactProduced, When
<1>3. ASSUME NEW t \in Made("scheduled") PROVE Applied(t, c) \subseteq Made("prepared")
  <2> SUFFICES ASSUME NEW u \in Applied(t, c) PROVE u \in Made("prepared")
    OBVIOUS
  <2>1. u \in AttemptPrepared(t, c)
    BY DEF Applied
  <2> DEFINE l == [NodeOf(t, c).last EXCEPT !.status = "prepared", !.plan = TRUE]
             x == [NodeOf(t, c) EXCEPT !.last = l]
  <2>2. /\ t \in Run /\ u = Updated(t, c, x) /\ NodeOf(t, c) \in NodeState /\ NodeOf(t, c) = t.nodes[n]
        /\ NodeOf(t, c).last \in Attempt
    <3>1. t \in Run /\ NodeOf(t, c) = t.nodes[n] /\ t.nodes[n] \in NodeState
      BY <1>3 DEF NodeOf, Run
    <3>2. t.nodes[n].last \in Attempt
      BY <3>1 DEF NodeState
    <3>3. u = AttemptBecomes(t, c, l)
      BY <2>1 DEF AttemptPrepared, When
    <3>4. u = Updated(t, c, x)
      BY <3>3 DEF AttemptBecomes
    <3> QED  BY <3>1, <3>2, <3>4
  <2>3. l \in Attempt /\ l.status = "prepared" /\ l.timeout = "none" /\ l.cleanup = {}
    BY <1>3, <2>2 DEF Attempt, AttemptStatus
  <2> HIDE DEF l
  <2>4. x \in NodeState /\ x.status = "ready" /\ x.last = l
    BY <1>3, <2>2, <2>3 DEF NodeState
  <2> HIDE DEF x
  <2>5. u \in Run /\ \A m \in Node : u.nodes[m] = IF m = n THEN x ELSE t.nodes[m]
    BY <2>2, <2>4, UpdatedRun
  <2> QED  BY <1>3, <2>3, <2>4, <2>5
<1> HIDE DEF Made
<1> DEFINE P == [i \in 0..3 |-> IF i = 0 THEN {r} ELSE IF i = 3 THEN Made("prepared") ELSE Made("scheduled")]
           batch == <<a, b, c>>
<1>4. Len(batch) = 3 /\ batch[1] = a /\ batch[2] = b /\ batch[3] = c
  OBVIOUS
<1>5. P[0] = {r} /\ P[1] = Made("scheduled") /\ P[2] = Made("scheduled") /\ P[3] = Made("prepared")
  OBVIOUS
<1> HIDE DEF P, batch
<1>6. ASSUME NEW i \in 1..Len(batch), NEW t \in P[i - 1] PROVE Applied(t, batch[i]) \subseteq P[i]
  <2>1. i = 1 \/ i = 2 \/ i = 3
    BY <1>4
  <2>2. CASE i = 1
    BY <1>1, <1>4, <1>5, <1>6, <2>2
  <2>3. CASE i = 2
    BY <1>2, <1>4, <1>5, <1>6, <2>3
  <2>4. CASE i = 3
    BY <1>3, <1>4, <1>5, <1>6, <2>4
  <2> QED  BY <2>1, <2>2, <2>3, <2>4
<1>7. Len(batch) \in Nat /\ r \in P[0]
  BY <1>4, <1>5
<1>8. Materialized(r, batch) \subseteq P[Len(batch)]
  BY <1>6, <1>7, StepsLead
<1>9. s \in Made("prepared")
  BY <1>4, <1>5, <1>8 DEF batch
<1> QED  BY <1>9 DEF Made

\* So it is what a session has in hand, unless another node's was set aside.
LEMMA PreparedHeld ==
    ASSUME NEW r \in Run, Sound(r), Hale(r), Runs(r) = {}, NEW n, n = First(Ready(r)), n \in Ready(r),
           NEW s, \A m \in Node \ {n} : s.nodes[m] = r.nodes[m],
           s.nodes[n].status = "ready" /\ s.nodes[n].last.status = "prepared",
           s.nodes[n].last.timeout = "none" /\ s.nodes[n].last.cleanup = {}, Shelved(s) = {}
    PROVE  Held(s, "ready", "prepared", "none")
<1>1. n \in Node /\ n \in Active(s) /\ Ready(r) \in SUBSET Node
  BY DEF Ready, Active
<1>2. ASSUME NEW m \in Active(s) PROVE m \in Ready(r)
  <2>1. CASE m = n
    BY <2>1
  <2>2. CASE m # n
    <3>1. /\ m \in Node /\ s.nodes[m] = r.nodes[m] /\ r.nodes[m].last.status \in {"prepared", "running"}
          /\ r.nodes[m].status # "paused"
      BY <1>2, <2>2 DEF Active, Shelved
    <3>2. r.nodes[m].last.status = "prepared" /\ Fit(r.nodes[m])
      BY <3>1 DEF Runs, Sound
    <3>3. r.nodes[m].status = "ready"
      BY <3>1, <3>2 DEF Fit, Hale
    <3> QED  BY <3>1, <3>3 DEF Ready
  <2> QED  BY <2>1, <2>2
<1>3. Active(s) \in SUBSET Ready(r)
  BY <1>2
<1>4. First(Active(s)) = n
  BY <1>1, <1>3, FirstOfPart
<1> QED  BY <1>1, <1>4 DEF Held

\* prepareAttempt: its commit is accepted, and takes the attempt in hand.
LEMMA PrepareRejects ==
    ASSUME IInv, ControlInv, WorkInv, NamesInv, Left(run), RejectInv, NEW c \in Coord, PrepareAttempt(c)
    PROVE  RejectInv'
<1> DEFINE v == view[c]
           n == First(Ready(v))
           k == v.nodes[n].attempts + 1
           Numbered(type) == [type |-> type, node |-> n, attempt |-> k]
           x == Numbered("AttemptScheduled")
           y == Numbered("ArtifactProduced")
           z == Numbered("AttemptPrepared")
           b == <<x, y, z>>
<1>1. /\ pc[c] = "prepare" /\ Commit(c, b, "preparing") /\ UNCHANGED <<ctl, orphan>>
      /\ pc'[c] # "preparing" => Tame
  BY TameWorld DEF PrepareAttempt, At, task
<1>2. ASSUME fresh[c]
      PROVE  /\ v = run /\ run \in Run /\ Sound(run) /\ run.configured /\ Hale(run) /\ ctl[c] = None
             /\ run.status \notin TerminalRun /\ Runs(run) = {} /\ n \in Ready(run) /\ n = First(Ready(run))
             /\ n \in Node
  <2>1. /\ v = run /\ run \in Run /\ Sound(run) /\ run.configured /\ Hale(run) /\ ctl[c] = None
        /\ run.status \notin TerminalRun /\ Runs(run) = {}
    BY <1>1, <1>2, ScheduleHolds
  <2>2. Ready(run) # {} /\ Ready(run) \in SUBSET Node
    BY <1>1, <1>2 DEF NamesInv, Placed, Choosing, Ready
  <2>3. First(Ready(run)) \in Ready(run)
    BY <2>2, FirstIsMember
  <2> QED  BY <2>1, <2>2, <2>3
<1>3. /\ x.type = "AttemptScheduled" /\ x.node = n /\ x.attempt = k
      /\ y.type = "ArtifactProduced" /\ y.node = n /\ y.attempt = k
      /\ z.type = "AttemptPrepared" /\ z.node = n /\ z.attempt = k
  OBVIOUS
<1>4. fresh[c] => k = run.nodes[n].attempts + 1
  BY <1>2
<1> HIDE DEF v, n, k, x, y, z
<1>5. Batch(b, Preparing, {}, {})
  <2>1. Plain(x, Preparing) /\ Plain(y, Preparing) /\ Plain(z, Preparing)
    BY <1>3 DEF Plain, Typed, Preparing, Asks, Answers, NodeOnly, RunOnly
  <2> QED  BY <2>1, PlainEvents
<1>6. CommitPoises(c, b, "preparing")
  <2> SUFFICES ASSUME fresh[c], NEW s \in Materialized(run, b)
               PROVE  Sound(s) /\ Poised("preparing", s, ctl'[c], orphan'[c])
    BY DEF CommitPoises
  <2>1. run \in Run /\ Sound(run) /\ "ExecutionCleanupObserved" \notin Preparing /\ n \in Node
    BY <1>2 DEF Preparing
  <2>2. Sound(s)
    BY <1>5, <2>1, DryKeeps
  <2>3. /\ \A m \in Node \ {n} : s.nodes[m] = run.nodes[m]
        /\ s.nodes[n].status = "ready" /\ s.nodes[n].last.status = "prepared"
        /\ s.nodes[n].last.timeout = "none" /\ s.nodes[n].last.cleanup = {}
    BY <1>3, <2>1, PreparedNode
  <2>4. Shelved(s) = {} => Held(s, "ready", "prepared", "none")
    BY <1>2, <2>3, PreparedHeld
  <2>5. ctl'[c] = None
    BY <1>1, <1>2
  <2> QED  BY <2>2, <2>4, <2>5 DEF Poised, Reconciling, Controlling
<1>7. CommitExcused(c, b)
  <2> SUFFICES ASSUME fresh[c] PROVE Materialized(run, b) # {}
    BY DEF CommitExcused
  <2>1. Gets(run, b, n, k, "ready", "prepared", "none", {})
    BY <1>2, <1>3, <1>4, PrepareReaches
  <2>2. Accepts(run, b)
    BY <2>1 DEF Gets, Accepts
  <2> QED  BY <2>2, AcceptsMaterialized
<1>8. b # <<>>
  OBVIOUS
<1> HIDE DEF b
<1>9. Tame \/ (b # <<>> /\ pc'[c] = "preparing")
  BY <1>1, <1>8
<1> QED  BY <1>1, <1>6, <1>7, <1>9, RejectCommit

\* The start of an attempt, and the request of its timeout, leave the other nodes.
LEMMA StartedNode ==
    ASSUME NEW r \in Run, NEW n \in Node, NEW e, e.type = "AttemptStartAuthorized", e.node = n,
           NEW s \in Applied(r, e)
    PROVE  /\ \A m \in Node \ {n} : s.nodes[m] = r.nodes[m]
           /\ r.nodes[n].status = "ready" /\ r.nodes[n].last.status = "prepared"
           /\ s.nodes[n].status = "running" /\ s.nodes[n].last.status = "running"
           /\ s.nodes[n].last.timeout = r.nodes[n].last.timeout
           /\ s.nodes[n].last.cleanup = r.nodes[n].last.cleanup
<1>1. s \in AttemptStartAuthorized(r, e)
  BY DEF Applied
<1> PICK o : o = r.nodes[n]
  OBVIOUS
<1>2. o \in NodeState /\ o.last \in Attempt /\ NodeOf(r, e) = o
  BY DEF Run, NodeState, NodeOf
<1> DEFINE l == [o.last EXCEPT !.status = "running"]
           x == [o EXCEPT !.status = "running", !.last = l]
<1>3. o.status = "ready" /\ o.last.status = "prepared" /\ s = Updated(r, e, x)
  <2>1. o.status = "ready" /\ o.last.status = "prepared" /\ s = Started(r, e)
    BY <1>1, <1>2 DEF AttemptStartAuthorized, When, NodeIn, CurrentAttempt
  <2>2. Started(r, e) = Updated(r, e, [o EXCEPT !.status = "running", !.last = [@ EXCEPT !.status = "running"]])
    BY <1>2 DEF Started
  <2>3. [o EXCEPT !.status = "running", !.last = [@ EXCEPT !.status = "running"]] = x
    BY <1>2 DEF NodeState
  <2> QED  BY <2>1, <2>2, <2>3
<1>4. l \in Attempt /\ l.status = "running" /\ l.timeout = o.last.timeout /\ l.cleanup = o.last.cleanup
  BY <1>2 DEF Attempt, AttemptStatus
<1> HIDE DEF l
<1>5. x \in NodeState /\ x.status = "running" /\ x.last = l
  BY <1>2, <1>4 DEF NodeState, NodeStatus
<1> HIDE DEF x
<1>6. \A m \in Node : s.nodes[m] = IF m = n THEN x ELSE r.nodes[m]
  BY <1>3, <1>5, UpdatedRun
<1> QED  BY <1>3, <1>4, <1>5, <1>6

\* A timeout is requested of an attempt once.
LEMMA TimedNode ==
    ASSUME NEW r \in Run, NEW n \in Node, NEW e, e.type = "AttemptTimeoutRequested", e.node = n,
           NEW s \in Applied(r, e)
    PROVE  /\ \A m \in Node \ {n} : s.nodes[m] = r.nodes[m]
           /\ s.nodes[n].status = r.nodes[n].status /\ s.nodes[n].last.status = r.nodes[n].last.status
           /\ s.nodes[n].last.timeout = "requested"
           /\ s.nodes[n].last.cleanup = r.nodes[n].last.cleanup
<1>1. s \in AttemptTimeoutRequested(r, e)
  BY DEF Applied
<1> PICK o : o = r.nodes[n]
  OBVIOUS
<1>2. o \in NodeState /\ o.last \in Attempt /\ NodeOf(r, e) = o
  BY DEF Run, NodeState, NodeOf
<1> DEFINE l == [o.last EXCEPT !.timeout = "requested"]
           x == [o EXCEPT !.last = l]
<1>3. s = Updated(r, e, x)
  BY <1>1, <1>2 DEF AttemptTimeoutRequested, AttemptBecomes, When
<1>4. l \in Attempt /\ l.status = o.last.status /\ l.timeout = "requested" /\ l.cleanup = o.last.cleanup
  BY <1>2 DEF Attempt
<1> HIDE DEF l
<1>5. x \in NodeState /\ x.status = o.status /\ x.last = l
  BY <1>2, <1>4 DEF NodeState
<1> HIDE DEF x
<1>6. \A m \in Node : s.nodes[m] = IF m = n THEN x ELSE r.nodes[m]
  BY <1>3, <1>5, UpdatedRun
<1> QED  BY <1>4, <1>5, <1>6

\* What the session has in hand it still has, as long as nothing is set aside.
LEMMA HeldOn ==
    ASSUME NEW r \in Run, NEW n, n = First(Active(r)), n \in Active(r), NEW s,
           \A m \in Node \ {n} : s.nodes[m] = r.nodes[m], s.nodes[n].last.status = "running",
           s.nodes[n].status = "running", r.nodes[n].status # "paused", s.nodes[n].last.cleanup = r.nodes[n].last.cleanup,
           NEW ready, NEW status, NEW timeout, Shelved(r) = {} => Held(r, ready, status, timeout),
           NEW after, Held(r, ready, status, timeout) => s.nodes[n].last.timeout = after
    PROVE  Shelved(s) = {} => Held(s, "running", "running", after)
<1> SUFFICES ASSUME Shelved(s) = {} PROVE Held(s, "running", "running", after)
  OBVIOUS
<1>1. Active(s) = Active(r)
  <2>1. ASSUME NEW m \in Node PROVE m \in Active(s) <=> m \in Active(r)
    <3>1. CASE m = n
      BY <3>1 DEF Active
    <3>2. CASE m # n
      BY <3>2 DEF Active
    <3> QED  BY <3>1, <3>2
  <2> QED  BY <2>1 DEF Active
<1>2. Shelved(r) = {}
  <2>1. ASSUME NEW m \in Shelved(r) PROVE m \in Shelved(s)
    <3>1. m \in Active(r) /\ r.nodes[m].status = "paused" /\ m # n /\ m \in Node
      BY <2>1 DEF Shelved, Active
    <3> QED  BY <1>1, <3>1 DEF Shelved
  <2> QED  BY <2>1
<1>3. Held(r, ready, status, timeout)
  BY <1>2
<1> QED  BY <1>1, <1>3 DEF Held

\* What a session with an attempt under way relies on.
LEMMA InHandHolds ==
    ASSUME IInv, ControlInv, WorkInv, Left(run), RejectInv, NEW c \in Coord, fresh[c],
           pc[c] \in {"preparing", "starting", "driving", "finishing", "timeout", "timedOut"} \cup Controlling
    PROVE  /\ view[c] = run /\ run \in Run /\ Sound(run) /\ RunSound(run) /\ Hale(run)
           /\ run.status = "running" /\ ~Settled(run.status) /\ run.status \notin TerminalRun
           /\ pc[c] \notin Controlling => ctl[c] = None
           /\ Shelved(run) = {} =>
                /\ pc[c] = "preparing" => Held(run, "ready", "prepared", "none")
                /\ pc[c] \in {"starting", "driving", "finishing"} \cup Controlling =>
                      Held(run, "running", "running", "none")
                /\ pc[c] \in {"timeout", "timedOut"} => Held(run, "running", "running", "requested")
<1>1. pc[c] \in Working \cup Controlling /\ (pc[c] \notin Controlling => pc[c] \in Working)
  BY Places
<1> QED  BY <1>1, FreshHolds DEF Poised

\* What it holds on its way from one place to the next.
LEMMA PoisedAlong ==
    ASSUME NEW r, NEW k, NEW n
    PROVE  /\ Poised("starting", r, k, n) => Poised("driving", r, k, n)
           /\ Poised("driving", r, k, n) => Poised("finishing", r, k, n)
           /\ Poised("timeout", r, k, n) => Poised("timedOut", r, k, n)
           /\ Poised("control", r, k, n) => Poised("controlled", r, k, n)
BY DEF Poised, Reconciling, Controlling, Working, Executing

\* A session that finishes an attempt which left edits finds the run spoilt.
LEMMA SpoiltWhenOver ==
    ASSUME WorkInv, NEW c \in Coord, fresh[c], pc[c] \in Over, NEW n, NEW timeout,
           WorksOn(run, n, timeout), ~Spoilt
    PROVE  ~Changed(n)
<1>1. n \in Active(run)
  BY DEF WorksOn, Holds, Stage, Active
<1>2. Threats = {}
  BY OverIsQuiet
<1> QED  BY <1>1, <1>2 DEF Spoilt

\* The attempt is driven and collected, or cancelled.
LEMMA DrivingRejects ==
    ASSUME IInv, ControlInv, WorkInv, Left(run), RejectInv, NEW c \in Coord,
           Drive(c) \/ Collect(c) \/ Cancel(c)
    PROVE  RejectInv'
<1>1. UNCHANGED task /\ Tame
  BY TameWorld DEF Drive, Collect, Cancel
<1>2. \/ pc[c] = "starting" /\ Moves(c, "driving")
      \/ pc[c] = "driving" /\ Moves(c, "finishing")
      \/ pc[c] = "timeout" /\ Moves(c, "timedOut")
      \/ pc[c] = "control" /\ Moves(c, "controlled")
  BY DEF Drive, Collect, Cancel, At
<1>3. fresh[c] => Poised(pc[c], run, ctl[c], orphan[c])
  BY FreshHolds
<1>4. PICK next : /\ next # "rejected" /\ Moves(c, next)
                  /\ fresh[c] => Poised(next, run, ctl[c], orphan[c])
  BY <1>2, <1>3, PoisedAlong
<1> QED  BY <1>1, <1>4, RejectMoves

\* Its start is authorized: the attempt in hand is one the reducer starts.
LEMMA AuthorizeRejects ==
    ASSUME IInv, ControlInv, WorkInv, NamesInv, Left(run), RejectInv, NEW c \in Coord, Authorize(c)
    PROVE  RejectInv'
<1> DEFINE v == view[c]
           n == First(Active(v))
           e == AttemptEvent(v, "AttemptStartAuthorized", n)
<1>1. /\ pc[c] = "preparing" /\ Commit(c, <<e>>, "starting") /\ UNCHANGED <<ctl, orphan>>
      /\ pc'[c] # "starting" => Tame
  BY TameWorld DEF Authorize, At, task
<1>2. ASSUME fresh[c]
      PROVE  /\ v = run /\ run \in Run /\ Sound(run) /\ run.status \notin TerminalRun /\ ctl[c] = None
             /\ Shelved(run) = {} => Held(run, "ready", "prepared", "none")
             /\ n \in Active(run) /\ n = First(Active(run)) /\ n \in Node
  <2>1. /\ v = run /\ run \in Run /\ Sound(run) /\ run.status \notin TerminalRun /\ ctl[c] = None
        /\ Shelved(run) = {} => Held(run, "ready", "prepared", "none")
    BY <1>1, <1>2, InHandHolds DEF Controlling
  <2>2. Active(run) # {} /\ Active(run) \in SUBSET Node
    BY <1>1, <1>2 DEF NamesInv, Placed, Attempting, Active
  <2>3. n \in Active(run)
    BY <2>1, <2>2, FirstIsMember
  <2> QED  BY <2>1, <2>2, <2>3
<1>3. /\ e.type = "AttemptStartAuthorized" /\ e.node = n /\ e.attempt = v.nodes[n].attempts
      /\ Plain(e, Loud)
  BY TypedEvents DEF AttemptEvent
<1> HIDE DEF v, n, e
<1>4. Batch(<<e>>, {"AttemptStartAuthorized"}, {}, {})
  <2>1. Plain(e, {"AttemptStartAuthorized"})
    BY <1>3 DEF Plain
  <2> QED  BY <2>1, PlainEvents
<1>5. CommitPoises(c, <<e>>, "starting")
  <2> SUFFICES ASSUME fresh[c], NEW s \in Materialized(run, <<e>>)
               PROVE  Sound(s) /\ Poised("starting", s, ctl'[c], orphan'[c])
    BY DEF CommitPoises
  <2>1. Sound(s)
    BY <1>2, <1>4, DryKeeps
  <2>2. s \in Applied(run, e)
    BY Single
  <2>3. /\ \A m \in Node \ {n} : s.nodes[m] = run.nodes[m]
        /\ run.nodes[n].status = "ready"
        /\ s.nodes[n].status = "running" /\ s.nodes[n].last.status = "running"
        /\ s.nodes[n].last.timeout = run.nodes[n].last.timeout
        /\ s.nodes[n].last.cleanup = run.nodes[n].last.cleanup
    BY <1>2, <1>3, <2>2, StartedNode
  <2>4. Held(run, "ready", "prepared", "none") => s.nodes[n].last.timeout = "none"
    BY <1>2, <2>3 DEF Held
  <2>5. Shelved(s) = {} => Held(s, "running", "running", "none")
    BY <1>2, <2>3, <2>4, HeldOn
  <2>6. ctl'[c] = None
    BY <1>1, <1>2
  <2> QED  BY <2>1, <2>5, <2>6 DEF Poised, Reconciling, Controlling
<1>6. CommitExcused(c, <<e>>)
  <2> SUFFICES ASSUME fresh[c], Clear(run) PROVE Materialized(run, <<e>>) # {}
    BY DEF CommitExcused
  <2>1. Held(run, "ready", "prepared", "none")
    BY <1>2 DEF Clear
  <2>2. Holds(run, n, e.attempt, "ready", "prepared", "none", {})
    BY <1>2, <1>3, <2>1, HeldHolds
  <2>3. Reaches(run, e, n, e.attempt, "running", "running", "none", {})
    BY <1>3, <2>2, StartReaches
  <2>4. Accepts(run, <<e>>)
    BY <2>3 DEF Reaches, Accepts
  <2> QED  BY <2>4, AcceptsMaterialized
<1>7. <<e>> # <<>>
  OBVIOUS
<1> QED  BY <1>1, <1>5, <1>6, <1>7, RejectCommit

\* The deadline passes.
LEMMA RequestTimeoutRejects ==
    ASSUME IInv, ControlInv, WorkInv, NamesInv, Left(run), RejectInv, NEW c \in Coord, RequestTimeout(c)
    PROVE  RejectInv'
<1> DEFINE v == view[c]
           n == First(Active(v))
           e == AttemptEvent(v, "AttemptTimeoutRequested", n)
<1>1. pc[c] = "driving" /\ Commit(c, <<e>>, "timeout") /\ UNCHANGED <<ctl, orphan>> /\ Tame
  BY TameWorld DEF RequestTimeout, At, task
<1>2. ASSUME fresh[c]
      PROVE  /\ v = run /\ run \in Run /\ Sound(run) /\ run.status \notin TerminalRun /\ ctl[c] = None
             /\ Shelved(run) = {} => Held(run, "running", "running", "none")
             /\ n \in Active(run) /\ n = First(Active(run)) /\ n \in Node
  <2>1. /\ v = run /\ run \in Run /\ Sound(run) /\ run.status \notin TerminalRun /\ ctl[c] = None
        /\ Shelved(run) = {} => Held(run, "running", "running", "none")
    BY <1>1, <1>2, InHandHolds DEF Controlling
  <2>2. Active(run) # {} /\ Active(run) \in SUBSET Node
    BY <1>1, <1>2 DEF NamesInv, Placed, Attempting, Active
  <2>3. n \in Active(run)
    BY <2>1, <2>2, FirstIsMember
  <2> QED  BY <2>1, <2>2, <2>3
<1>3. /\ e.type = "AttemptTimeoutRequested" /\ e.node = n /\ e.attempt = v.nodes[n].attempts
      /\ Plain(e, Dry)
  BY DryEvents DEF AttemptEvent
<1> HIDE DEF v, n, e
<1>4. Batch(<<e>>, Dry, {}, {})
  BY <1>3, PlainEvents
<1>5. CommitPoises(c, <<e>>, "timeout")
  <2> SUFFICES ASSUME fresh[c], NEW s \in Materialized(run, <<e>>)
               PROVE  Sound(s) /\ Poised("timeout", s, ctl'[c], orphan'[c])
    BY DEF CommitPoises
  <2>1. Sound(s)
    BY <1>2, <1>4, DrySets, DryKeeps
  <2>2. s \in Applied(run, e)
    BY Single
  <2>3. /\ \A m \in Node \ {n} : s.nodes[m] = run.nodes[m]
        /\ s.nodes[n].status = run.nodes[n].status /\ s.nodes[n].last.status = run.nodes[n].last.status
        /\ s.nodes[n].last.timeout = "requested"
        /\ s.nodes[n].last.cleanup = run.nodes[n].last.cleanup
    BY <1>2, <1>3, <2>2, TimedNode
  <2>4. run.nodes[n].status = "running" /\ run.nodes[n].last.status = "running"
    <3>1. s \in AttemptTimeoutRequested(run, e)
      BY <1>3, <2>2 DEF Applied
    <3> QED  BY <1>3, <3>1 DEF AttemptTimeoutRequested, When, NodeIn, CurrentAttempt, NodeOf
  <2>5. Shelved(s) = {} => Held(s, "running", "running", "requested")
    BY <1>2, <2>3, <2>4, HeldOn
  <2>6. ctl'[c] = None
    BY <1>1, <1>2
  <2> QED  BY <2>1, <2>5, <2>6 DEF Poised, Reconciling, Controlling
<1>6. CommitExcused(c, <<e>>)
  <2> SUFFICES ASSUME fresh[c], Clear(run) PROVE Materialized(run, <<e>>) # {}
    BY DEF CommitExcused
  <2>1. Held(run, "running", "running", "none")
    BY <1>2 DEF Clear
  <2>2. Holds(run, n, e.attempt, "running", "running", "none", {})
    BY <1>2, <1>3, <2>1, HeldHolds
  <2>3. Reaches(run, e, n, e.attempt, "running", "running", "requested", {})
    BY <1>3, <2>2, TimeoutLeads
  <2>4. Accepts(run, <<e>>)
    BY <2>3 DEF Reaches, Accepts
  <2> QED  BY <2>4, AcceptsMaterialized
<1>7. Tame
  BY <1>1
<1> QED  BY <1>1, <1>5, <1>6, <1>7, RejectCommit

\* A control is observed while the attempt is driven.
LEMMA ObserveControlRejects ==
    ASSUME IInv, ControlInv, WorkInv, Left(run), RejectInv, NEW c \in Coord, ObserveControl(c)
    PROVE  RejectInv'
<1>1. pc[c] = "driving" /\ Tame
  BY TameWorld DEF ObserveControl, At
<1>2. PICK k \in pending : Commit(c, <<Observed(k)>>, "control") /\ ActsOn(c, k)
  BY DEF ObserveControl
<1>3. ctl'[c] = k /\ \A d \in Coord \ {c} : ctl'[d] = ctl[d] /\ orphan'[d] = orphan[d]
  BY <1>2, ActsOnly
<1>4. ASSUME fresh[c]
      PROVE  /\ run \in Run /\ Sound(run) /\ run.status \notin TerminalRun
             /\ Shelved(run) = {} => Held(run, "running", "running", "none")
  BY <1>1, <1>4, InHandHolds
<1>5. CommitPoises(c, <<Observed(k)>>, "control")
  <2> SUFFICES ASSUME fresh[c], NEW s \in Materialized(run, <<Observed(k)>>)
               PROVE  Sound(s) /\ Poised("control", s, ctl'[c], orphan'[c])
    BY DEF CommitPoises
  <2>1. s = run
    BY ObservedStays
  <2> QED  BY <1>4, <2>1 DEF Poised, Reconciling, Controlling, Working, Executing
<1>6. CommitExcused(c, <<Observed(k)>>)
  BY <1>4, RunAccepted, AcceptsMaterialized DEF CommitExcused
<1>7. Tame
  BY <1>1
<1> QED  BY <1>2, <1>3, <1>5, <1>6, <1>7, RejectCommit

\* A commit that stops the run.
StopsAfter(c, batch) == fresh[c] => \A s \in Materialized(run, batch) : s.status # "running"
LEMMA StoppingCommits ==
    ASSUME IInv, ControlInv, RejectInv, NEW c \in Coord, NEW batch, Commit(c, batch, "schedule"),
           UNCHANGED <<ctl, orphan>> /\ Tame, SoundAfter(c, batch), StopsAfter(c, batch), Taken(c, batch)
    PROVE  RejectInv'
<1>1. CommitPoises(c, batch, "schedule")
  <2> SUFFICES ASSUME fresh[c], NEW s \in Materialized(run, batch)
               PROVE  Sound(s) /\ Poised("schedule", s, ctl'[c], orphan'[c])
    BY DEF CommitPoises
  <2> QED  BY PoisedFree DEF SoundAfter, StopsAfter
<1>2. CommitExcused(c, batch)
  BY AcceptsMaterialized DEF CommitExcused, Taken
<1>3. /\ Tame
      /\ \A d \in Coord \ {c} : ctl'[d] = ctl[d] /\ orphan'[d] = orphan[d]
  OBVIOUS
<1> QED  BY <1>1, <1>2, <1>3, RejectCommit

\* A batch that is written out is wary if its parts are.
LEMMA WaryPair ==
    ASSUME NEW S, NEW x, NEW y, Wary(<<x>>, S), Wary(<<y>>, S)
    PROVE  Wary(<<x, y>>, S)
<1>1. PICK s : s[1] = x /\ s[2] = y
  <2>1. <<x, y>>[1] = x /\ <<x, y>>[2] = y
    OBVIOUS
  <2> QED  BY <2>1
<1>2. <<s[1], s[2]>> = <<s[1]>> \o <<s[2]>>
  OBVIOUS
<1>3. Wary(<<s[1]>> \o <<s[2]>>, S)
  BY <1>1, WaryJoined
<1> QED  BY <1>1, <1>2, <1>3

\* Of four events.
LEMMA WaryWritten ==
    ASSUME NEW S, NEW x, NEW y, NEW z, NEW w, Wary(<<x, y>>, S), Wary(<<z>>, S), Wary(<<w>>, S)
    PROVE  Wary(<<x, y, z, w>>, S)
<1>1. PICK s : s[1] = x /\ s[2] = y /\ s[3] = z /\ s[4] = w
  <2>1. <<x, y, z, w>>[1] = x /\ <<x, y, z, w>>[2] = y /\ <<x, y, z, w>>[3] = z /\ <<x, y, z, w>>[4] = w
    OBVIOUS
  <2> QED  BY <2>1
<1>2. <<s[1], s[2], s[3]>> = <<s[1], s[2]>> \o <<s[3]>>
  OBVIOUS
<1>3. <<s[1], s[2], s[3], s[4]>> = <<s[1], s[2], s[3]>> \o <<s[4]>>
  OBVIOUS
<1>4. Wary(<<s[1], s[2]>> \o <<s[3]>>, S)
  BY <1>1, WaryJoined
<1>5. Wary(<<s[1], s[2], s[3]>> \o <<s[4]>>, S)
  BY <1>1, <1>2, <1>4, WaryJoined
<1> QED  BY <1>1, <1>3, <1>5

\* A session that cancels acts on a control.
LEMMA ControllingActs ==
    ASSUME IInv, ControlInv, NEW c \in Coord, fresh[c], pc[c] \in Controlling
    PROVE  ctl[c] \in Control /\ ActionOf[ctl[c]] \in {"pause", "cancel"} /\ ActionOf[ctl[c]] \in Cause
<1>1. Known(pc[c], ctl[c], Open, run) /\ (pc[c] \in Controlling /\ ctl[c] = None => Open = {})
  BY FreshKnows
<1>2. ctl[c] \in Control
  BY <1>1, StillTyped DEF Known
<1> QED  BY <1>2, CoordinatorConstants DEF Cause

\* The cancellation of the attempt in hand is not confirmed.
LEMMA CancelUnconfirmedRejects ==
    ASSUME IInv, ControlInv, WorkInv, Left(run), RejectInv, NEW c \in Coord, CancelUnconfirmed(c)
    PROVE  RejectInv'
<1> DEFINE v == view[c]
           n == First(Active(v))
           z == RecoveryBlocked(v, n, "cleanup-unknown")
           x == CancellationCompleted(v, n, "failed")
           y == Cleanup(v, n, "timeout", "unknown")
           w == Cleanup(v, n, ActionOf[ctl[c]], "unknown")
<1>1. UNCHANGED <<ctl, orphan>> /\ Tame
  BY TameWorld DEF CancelUnconfirmed, task
<1>2. \/ pc[c] = "timeout" /\ Commit(c, <<x, y>> \o <<z>>, "schedule")
      \/ pc[c] = "control" /\ Commit(c, <<w>> \o <<z>>, "schedule")
  BY DEF CancelUnconfirmed, At
<1>3. /\ Plain(x, Dry) /\ Plain(z, Dry) /\ Plain(y, Quiet) /\ Vague(y) /\ z.type = "RunRecoveryBlocked"
      /\ ActionOf[ctl[c]] \in Cause => Plain(w, Quiet) /\ Vague(w)
  BY DryEvents, TypedEvents DEF Cleanup, Vague, RecoveryBlocked, Cause, CleanupOutcome, CancellationOutcome
<1>4. ASSUME fresh[c]
      PROVE  /\ v = run /\ run \in Run /\ Sound(run) /\ run.status \notin TerminalRun /\ ~Settled(run.status)
             /\ pc[c] = "timeout" /\ Clear(run) => Held(run, "running", "running", "requested")
             /\ pc[c] = "control" /\ Clear(run) => Held(run, "running", "running", "none")
             /\ pc[c] = "control" => ActionOf[ctl[c]] \in Cause
  <2>1. pc[c] \in {"timeout"} \cup Controlling /\ (pc[c] = "control" => pc[c] \in Controlling)
    BY <1>2 DEF Controlling
  <2> QED  BY <1>4, <2>1, InHandHolds, ControllingActs DEF Clear
<1>5. ASSUME fresh[c], NEW timeout, Held(run, "running", "running", timeout)
      PROVE  Holds(run, n, run.nodes[n].attempts, "running", "running", timeout, {})
  BY <1>4, <1>5, HeldHolds
<1>6. ASSUME fresh[c], Clear(run), pc[c] = "timeout" PROVE Accepts(run, <<x, y>> \o <<z>>)
  <2>1. Holds(run, n, run.nodes[n].attempts, "running", "running", "requested", {})
    BY <1>4, <1>5, <1>6
  <2> QED  BY <1>4, <1>6, <2>1, UnconfirmedAccepted
<1>7. ASSUME fresh[c], Clear(run), pc[c] = "control" PROVE Accepts(run, <<w>> \o <<z>>)
  <2>1. Holds(run, n, run.nodes[n].attempts, "running", "running", "none", {})
    BY <1>4, <1>5, <1>7
  <2> QED  BY <1>4, <1>7, <2>1, UnconfirmedAccepted
<1> HIDE DEF v, n, x, y, z, w
<1>8. Wary(<<z>>, {})
  BY <1>3, PlainEvents, WaryParts
<1>9. ASSUME NEW a, Wary(a, {}), fresh[c]
      PROVE  \A s \in Materialized(run, a \o <<z>>) : Sound(s) /\ s.status # "running"
  <2> SUFFICES ASSUME NEW s \in Materialized(run, a \o <<z>>) PROVE Sound(s) /\ s.status # "running"
    OBVIOUS
  <2>1. Wary(a \o <<z>>, {})
    BY <1>8, <1>9, WaryJoined
  <2>2. Sound(s)
    BY <1>4, <1>9, <2>1, WaryKeeps
  <2>3. PICK s1, d1 : Batch(a, Halting, s1, d1)
    BY <1>9 DEF Wary
  <2>4. PICK s2, d2 : Batch(<<z>>, Halting, s2, d2)
    BY <1>8 DEF Wary
  <2>5. EndsIn(a \o <<z>>, z)
    BY <2>3, <2>4, EndOfOne, EndOfJoined
  <2>6. PICK s3, d3 : Batch(a \o <<z>>, Halting, s3, d3)
    BY <2>1 DEF Wary
  <2>7. s.status # "running"
    BY <1>3, <1>4, <1>9, <2>5, <2>6, Halted
  <2> QED  BY <2>2, <2>7
<1>10. ASSUME NEW a, NEW b, b = a \o <<z>>, fresh[c] => Wary(a, {}), Commit(c, b, "schedule"),
              fresh[c] /\ Clear(run) => Accepts(run, b)
       PROVE  RejectInv'
  <2>1. SoundAfter(c, b) /\ StopsAfter(c, b)
    BY <1>9, <1>10 DEF SoundAfter, StopsAfter
  <2>2. Taken(c, b)
    BY <1>10 DEF Taken
  <2> QED  BY <1>1, <1>10, <2>1, <2>2, StoppingCommits
<1>11. CASE pc[c] = "timeout" /\ Commit(c, <<x, y>> \o <<z>>, "schedule")
  <2>1. PICK a : a = <<x, y>>
    OBVIOUS
  <2>2. Wary(a, {})
    <3>1. Wary(<<x>>, {}) /\ Wary(<<y>>, {})
      BY <1>3, PlainEvents, DrySets, WaryParts
    <3> QED  BY <2>1, <3>1, WaryPair
  <2>3. PICK b : b = a \o <<z>>
    OBVIOUS
  <2> QED  BY <1>6, <1>10, <1>11, <2>1, <2>2, <2>3
<1>12. CASE pc[c] = "control" /\ Commit(c, <<w>> \o <<z>>, "schedule")
  <2>1. PICK a : a = <<w>>
    OBVIOUS
  <2>2. ASSUME fresh[c] PROVE Wary(a, {})
    <3>1. Plain(w, Quiet) /\ Vague(w)
      BY <1>3, <1>4, <1>12, <2>2
    <3>2. Quiet \subseteq Halting
      BY DrySets
    <3> QED  BY <2>1, <3>1, <3>2, WaryParts
  <2>3. PICK b : b = a \o <<z>>
    OBVIOUS
  <2> QED  BY <1>7, <1>10, <1>12, <2>1, <2>2, <2>3
<1> QED  BY <1>2, <1>11, <1>12

\* finishActiveControl.
LEMMA FinishActiveControlRejects ==
    ASSUME IInv, ControlInv, WorkInv, Left(run), RejectInv, NEW c \in Coord, FinishActiveControl(c)
    PROVE  RejectInv'
<1> DEFINE v == view[c]
           n == First(Active(v))
           k == ctl[c]
           x == AttemptEvent(v, "ArtifactProduced", n)
           y == AttemptEvent(v, "WorkspaceObserved", n)
           z == Cleanup(v, n, ActionOf[k], "confirmed")
           w == AttemptEvent(v, "AttemptCancelled", n)
           a == <<x, y, z, w>>
           p == IF ActionOf[k] = "pause" THEN PauseBoth(n, "operator", k) ELSE CancelNodes(v) \o <<Cancelled(k)>>
           b == a \o p
<1>1. pc[c] = "controlled" /\ Commit(c, b, "schedule") /\ UNCHANGED <<ctl, orphan>> /\ Tame
  BY TameWorld DEF FinishActiveControl, At, task
<1>2. ASSUME fresh[c]
      PROVE  /\ v = run /\ run \in Run /\ Sound(run) /\ k \in Control /\ ActionOf[k] \in {"pause", "cancel"}
             /\ ActionOf[k] \in Cause /\ run.status \notin TerminalRun
             /\ Clear(run) => WorksOn(run, n, "none")
  <2>1. pc[c] \in Controlling
    BY <1>1 DEF Controlling
  <2>2. /\ v = run /\ run \in Run /\ Sound(run) /\ RunSound(run) /\ Hale(run)
        /\ run.status = "running" /\ run.status \notin TerminalRun
        /\ Shelved(run) = {} => Held(run, "running", "running", "none")
    BY <1>2, <2>1, InHandHolds
  <2>3. Clear(run) => WorksOn(run, n, "none")
    BY <2>2, HeldWorks DEF Clear
  <2> QED  BY <1>2, <2>1, <2>2, <2>3, ControllingActs
<1>3. ASSUME fresh[c], Clear(run) PROVE Accepts(run, b)
  BY <1>2, <1>3, ControlAccepted
<1>4. /\ Plain(x, Dry) /\ Plain(y, Dry) /\ Plain(w, Dry) /\ w.type = "AttemptCancelled" /\ w.node = n /\ z.node = n
      /\ ActionOf[k] \in Cause => Plain(z, Quiet)
  BY DryEvents, TypedEvents DEF AttemptEvent, Cleanup, CleanupOutcome
<1>5. k \in Control => \E done : Batch(p, Dry, {}, done)
  <2>1. k \in Control => /\ \E done : Batch(PauseBoth(n, "operator", k), Dry, {}, done)
                         /\ \E done : Batch(CancelNodes(v) \o <<Cancelled(k)>>, Dry, {}, done)
    BY DryParts DEF PauseKind
  <2> QED  BY <2>1
<1>6. \E e : EndsIn(p, e) /\ e.type \in {"RunPaused", "RunCancelled", "RunRecoveryBlocked"}
  <2>1. EndsIn(PauseBoth(n, "operator", k), Paused(k)) /\ Paused(k).type = "RunPaused"
    BY DEF EndsIn, PauseBoth, Paused
  <2>2. EndsIn(CancelNodes(v) \o <<Cancelled(k)>>, Cancelled(k)) /\ Cancelled(k).type = "RunCancelled"
    <3>1. Batch(CancelNodes(v), Halting, {}, {})
      BY NodeBatches, TypeSets
    <3>2. \E types, s, d : Batch(<<Cancelled(k)>>, types, s, d)
      <4>1. Typed(Cancelled(k)) /\ Cancelled(k).type \in {"RunCancelled"}
        BY DEF Cancelled, Typed, RunWide
      <4> QED  BY <4>1, OneEvent
    <3>3. EndsIn(<<Cancelled(k)>>, Cancelled(k))
      BY EndOfOne
    <3> QED  BY <3>1, <3>2, <3>3, EndOfJoined DEF Cancelled
  <2> QED  BY <2>1, <2>2
<1> HIDE DEF v, n, k, x, y, z, w, p
<1>7. fresh[c] => Wary(a, {n}) /\ Wary(p, {n})
  <2>1. Wary(<<x, y>>, {n}) /\ Wary(<<w>>, {n})
    BY <1>4, PlainEvents, WaryParts
  <2>2. ASSUME fresh[c] PROVE Wary(<<z>>, {n}) /\ Wary(p, {n})
    <3>1. Plain(z, Quiet) /\ z.node \in {n}
      BY <1>2, <1>4, <2>2
    <3>2. Quiet \subseteq Halting
      BY DrySets
    <3>3. PICK done : Batch(p, Dry, {}, done)
      BY <1>2, <1>5, <2>2
    <3>4. Wary(<<z>>, {n})
      BY <3>1, <3>2, WaryParts
    <3>5. Wary(p, {n})
      BY <3>3, WaryParts
    <3> QED  BY <3>4, <3>5
  <2> QED  BY <2>1, <2>2, WaryWritten
<1>8. Has(a, w)
  BY HasOne
<1> HIDE DEF a
<1>9. SoundAfter(c, b) /\ StopsAfter(c, b)
  <2> SUFFICES ASSUME fresh[c], NEW s \in Materialized(run, b) PROVE Sound(s) /\ s.status # "running"
    BY DEF SoundAfter, StopsAfter
  <2>1. Wary(b, {n})
    BY <1>7, WaryJoined
  <2>2. PICK s1, d1 : Batch(a, Halting, s1, d1)
    BY <1>7 DEF Wary
  <2>3. PICK s2, d2 : Batch(p, Halting, s2, d2)
    BY <1>7 DEF Wary
  <2>4. Has(b, w)
    BY <1>8, <2>2, <2>3, HasJoined
  <2>5. \E e : EndsIn(b, e) /\ e.type \in {"RunPaused", "RunCancelled", "RunRecoveryBlocked"}
    BY <1>6, <2>2, <2>3, EndOfJoined
  <2>6. PICK s3, d3 : Batch(b, Halting, s3, d3)
    BY <2>1 DEF Wary
  <2>7. \E e : Has(b, e) /\ e.type \in EndsAttempt /\ e.node = n
    BY <1>4, <2>4 DEF EndsAttempt
  <2> HIDE DEF b
  <2>8. Sound(s)
    BY <1>2, <2>1, <2>7, WaryKeeps
  <2>9. s.status # "running"
    BY <1>2, <2>5, <2>6, Halted
  <2> QED  BY <2>8, <2>9
<1>10. Taken(c, b)
  BY <1>3 DEF Taken
<1> HIDE DEF b
<1> QED  BY <1>1, <1>9, <1>10, StoppingCommits

\* A failure ends the attempt, and is no cleanup.
LEMMA FailureEnds ==
    ASSUME NEW v, NEW n, NEW exhausted
    PROVE  /\ \E e : Has(FailureBatch(v, n, exhausted), e) /\ e.type \in EndsAttempt /\ e.node = n
           /\ Wary(FailureBatch(v, n, exhausted), {n})
<1> DEFINE e == [type |-> "AttemptFailed", node |-> n, attempt |-> v.nodes[n].attempts, exhausted |-> exhausted]
<1> PICK f : f = FailureBatch(v, n, exhausted)
  OBVIOUS
<1>1. Batch(f, Dry, {}, {})
  BY DryParts
<1>2. PICK rest : f = <<e>> \o rest
  BY DEF FailureBatch
<1>3. f[1] = e /\ 1 \in 1..Len(f)
  <2>1. Len(f) \in Nat /\ f \in Seq({f[i] : i \in 1..Len(f)})
    BY <1>1 DEF Batch
  <2>2. (<<e>> \o rest)[1] = e /\ Len(f) > 0
    <3>1. CASE rest = <<>>
      BY <1>2, <3>1
    <3> QED  BY <1>2
  <2> QED  BY <1>2, <2>1, <2>2
<1>4. e.type \in EndsAttempt /\ e.node = n
  BY DEF EndsAttempt
<1> HIDE DEF e
<1> QED  BY <1>1, <1>3, <1>4, WaryParts DEF Has

\* finishTimeout.
LEMMA FinishTimeoutRejects ==
    ASSUME IInv, ControlInv, WorkInv, Left(run), RejectInv, NEW c \in Coord, FinishTimeout(c)
    PROVE  RejectInv'
<1> DEFINE v == view[c]
           n == First(Active(v))
           x == CancellationCompleted(v, n, "succeeded")
           y == Cleanup(v, n, "timeout", "confirmed")
           z == AttemptEvent(v, "ArtifactProduced", n)
           w == AttemptEvent(v, "WorkspaceObserved", n)
           f == FailureBatch(v, n, TRUE)
           b == <<x, y, z, w>> \o f
<1>1. pc[c] = "timedOut" /\ Commit(c, b, "schedule") /\ UNCHANGED <<ctl, orphan>> /\ Tame
  BY TameWorld DEF FinishTimeout, At, task
<1>2. ASSUME fresh[c]
      PROVE  /\ v = run /\ run \in Run /\ Sound(run) /\ ctl[c] = None
             /\ Clear(run) => WorksOn(run, n, "requested")
  <2>1. /\ v = run /\ run \in Run /\ Sound(run) /\ RunSound(run) /\ Hale(run) /\ ctl[c] = None
        /\ run.status = "running" /\ (Shelved(run) = {} => Held(run, "running", "running", "requested"))
    BY <1>1, <1>2, InHandHolds DEF Controlling
  <2>2. Clear(run) => WorksOn(run, n, "requested")
    BY <2>1, HeldWorks DEF Clear
  <2> QED  BY <2>1, <2>2
<1>3. ASSUME fresh[c], Clear(run), ~Spoilt PROVE Accepts(run, b)
  <2>1. v = run /\ WorksOn(v, n, "requested")
    BY <1>2, <1>3
  <2>2. ~Changed(n)
    BY <1>1, <1>3, <2>1, SpoiltWhenOver DEF Over
  <2> QED  BY <2>1, <2>2, TimeoutAccepted
<1>4. /\ Plain(x, Dry) /\ Plain(y, Quiet) /\ y.node = n /\ Plain(z, Dry) /\ Plain(w, Dry)
      /\ Quiet \subseteq Halting
  BY DryEvents, TypedEvents, DrySets DEF Cleanup, CleanupOutcome, CancellationOutcome, Cause
<1>5. (\E e : Has(f, e) /\ e.type \in EndsAttempt /\ e.node = n) /\ Wary(f, {n})
  BY FailureEnds
<1> HIDE DEF v, n, x, y, z, w, f
<1>6. Wary(<<x, y, z, w>>, {n})
  <2>1. Wary(<<x>>, {n}) /\ Wary(<<y>>, {n}) /\ Wary(<<z>>, {n}) /\ Wary(<<w>>, {n})
    BY <1>4, PlainEvents, WaryParts
  <2> QED  BY <2>1, WaryPair, WaryWritten
<1> DEFINE a == <<x, y, z, w>>
<1>7. Wary(a, {n}) /\ b = a \o f
  BY <1>6
<1> HIDE DEF a, b
<1>8. SoundAfter(c, b)
  <2> SUFFICES ASSUME fresh[c], NEW s \in Materialized(run, b) PROVE Sound(s)
    BY DEF SoundAfter
  <2>1. Wary(b, {n})
    BY <1>5, <1>7, WaryJoined
  <2>2. PICK s1, d1 : Batch(a, Halting, s1, d1)
    BY <1>7 DEF Wary
  <2>3. PICK s2, d2 : Batch(f, Halting, s2, d2)
    BY <1>5 DEF Wary
  <2>4. \E e : Has(b, e) /\ e.type \in EndsAttempt /\ e.node = n
    BY <1>5, <1>7, <2>2, <2>3, HasJoined
  <2> QED  BY <1>2, <2>1, <2>4, WaryKeeps
<1>9. FreeAfter(c, "schedule") /\ Taken(c, b)
  BY <1>1, <1>2, <1>3 DEF FreeAfter, Free, Taken
<1>10. Tame /\ \A d \in Coord \ {c} : ctl'[d] = ctl[d] /\ orphan'[d] = orphan[d]
  BY <1>1
<1> QED  BY <1>1, <1>8, <1>9, <1>10, FreeCommits

\* finishExecution: what the attempt came to.
LEMMA FinishExecutionRejects ==
    ASSUME IInv, ControlInv, WorkInv, Left(run), RejectInv, NEW c \in Coord, FinishExecution(c)
    PROVE  RejectInv'
<1> DEFINE v == view[c]
           n == First(Active(v))
           x == AttemptEvent(v, "ArtifactProduced", n)
           y == AttemptEvent(v, "WorkspaceObserved", n)
           succeeded == <<AttemptEvent(v, "AttemptSucceeded", n), NodeEvent("NodeSucceeded", n)>>
           failed == FailureBatch(v, n, FALSE)
           blocked == <<AttemptEvent(v, "AttemptBlocked", n), NodeEvent("NodeBlocked", n)>>
           cancelled == <<AttemptEvent(v, "AttemptCancelled", n)>>
           end == <<[type |-> "RunCancelled", durable |-> FALSE, control |-> None]>>
<1> PICK evidence : evidence = <<x, y>>
  OBVIOUS
<1>1. /\ pc[c] = "finishing" /\ UNCHANGED <<ctl, orphan>> /\ Tame
      /\ \/ Commit(c, evidence \o succeeded, "succeeded")
         \/ Commit(c, evidence \o failed, "schedule")
         \/ Commit(c, evidence \o blocked \o BlockOthers(v, n) \o <<RunEvent("RunBlocked")>>, "schedule")
         \/ Commit(c, evidence \o cancelled \o CancelNodes(v) \o end, "schedule")
  BY TameWorld DEF FinishExecution, At, task
<1>2. ASSUME fresh[c]
      PROVE  /\ v = run /\ ctl[c] = None
             /\ Clear(run) => WorksOn(run, n, "none")
  <2>1. /\ v = run /\ run \in Run /\ Sound(run) /\ RunSound(run) /\ Hale(run) /\ ctl[c] = None
        /\ run.status = "running" /\ (Shelved(run) = {} => Held(run, "running", "running", "none"))
    BY <1>1, <1>2, InHandHolds DEF Controlling
  <2>2. Clear(run) => WorksOn(run, n, "none")
    BY <2>1, HeldWorks DEF Clear
  <2> QED  BY <2>1, <2>2
<1>3. ASSUME fresh[c], Clear(run)
      PROVE  /\ Accepts(run, evidence \o succeeded)
             /\ ~Spoilt => Accepts(run, evidence \o failed)
             /\ Accepts(run, evidence \o blocked \o BlockOthers(v, n) \o <<RunEvent("RunBlocked")>>)
             /\ Accepts(run, evidence \o cancelled \o CancelNodes(v) \o end)
  <2>1. WorksOn(v, n, "none") /\ v = run
    BY <1>2, <1>3
  <2>2. ~Spoilt => ~Changed(n)
    BY <1>1, <1>3, <2>1, SpoiltWhenOver DEF Over
  <2> QED  BY <2>1, <2>2, ResultAccepted
<1>4. /\ Batch(evidence, Dry, {}, {}) /\ Batch(succeeded, Dry, {}, {}) /\ Batch(failed, Dry, {}, {})
      /\ Batch(blocked, Dry, {}, {}) /\ Batch(cancelled, Dry, {}, {})
      /\ Batch(<<RunEvent("RunBlocked")>>, Dry, {}, {})
  <2>1. /\ Plain(x, Dry) /\ Plain(y, Dry)
        /\ Plain(AttemptEvent(v, "AttemptSucceeded", n), Dry) /\ Plain(NodeEvent("NodeSucceeded", n), Dry)
        /\ Plain(AttemptEvent(v, "AttemptBlocked", n), Dry) /\ Plain(NodeEvent("NodeBlocked", n), Dry)
        /\ Plain(AttemptEvent(v, "AttemptCancelled", n), Dry) /\ Plain(RunEvent("RunBlocked"), Dry)
    BY DryEvents
  <2> HIDE DEF x, y, n, v
  <2> QED  BY <2>1, PlainEvents, DryParts
<1>5. Batch(BlockOthers(v, n), Dry, {}, {}) /\ Batch(CancelNodes(v), Dry, {}, {})
  BY NodeBatches, DrySets
<1>6. \E seen, done : Batch(end, Dry, seen, done)
  <2>1. PICK e : e = [type |-> "RunCancelled", durable |-> FALSE, control |-> None]
    OBVIOUS
  <2>2. Typed(e) /\ e.type \in Dry
    BY <2>1, DrySets DEF Typed, RunWide
  <2>3. Batch(<<e>>, Dry, NamedBy(e, Asks), NamedBy(e, Answers))
    BY <2>2, OneEvent
  <2> QED  BY <2>1, <2>3
<1> HIDE DEF x, y, v, n, succeeded, failed, blocked, cancelled, end
<1>7. ASSUME NEW batch, NEW next \in {"schedule", "succeeded"}, Commit(c, batch, next),
             \E seen, done : Batch(batch, Dry, seen, done),
             fresh[c] /\ Clear(run) => Accepts(run, batch) \/ Spoilt
      PROVE  RejectInv'
  <2>1. SoundAfter(c, batch)
    BY <1>7, DrySound
  <2>2. FreeAfter(c, next) /\ Taken(c, batch)
    BY <1>1, <1>2, <1>7 DEF FreeAfter, Free, Taken
  <2>3. Tame /\ \A d \in Coord \ {c} : ctl'[d] = ctl[d] /\ orphan'[d] = orphan[d]
    BY <1>1
  <2>4. next \notin {"rejected", "failing"}
    BY <1>7
  <2> QED  BY <1>7, <2>1, <2>2, <2>3, <2>4, FreeCommits
<1>8. CASE Commit(c, evidence \o succeeded, "succeeded")
  <2>1. PICK b : b = evidence \o succeeded
    OBVIOUS
  <2>2. Batch(b, Dry, {}, {})
    BY <1>4, <2>1, PlainThen
  <2> QED  BY <1>3, <1>7, <1>8, <2>1, <2>2
<1>9. CASE Commit(c, evidence \o failed, "schedule")
  <2>1. PICK b : b = evidence \o failed
    OBVIOUS
  <2>2. Batch(b, Dry, {}, {})
    BY <1>4, <2>1, PlainThen
  <2> QED  BY <1>3, <1>7, <1>9, <2>1, <2>2
<1>10. CASE Commit(c, evidence \o blocked \o BlockOthers(v, n) \o <<RunEvent("RunBlocked")>>, "schedule")
  <2>1. PICK b : b = evidence \o blocked \o BlockOthers(v, n) \o <<RunEvent("RunBlocked")>>
    OBVIOUS
  <2>2. Batch(b, Dry, {}, {})
    BY <1>4, <1>5, <2>1, PlainThen
  <2> QED  BY <1>3, <1>7, <1>10, <2>1, <2>2
<1>11. CASE Commit(c, evidence \o cancelled \o CancelNodes(v) \o end, "schedule")
  <2>1. PICK b : b = evidence \o cancelled \o CancelNodes(v) \o end
    OBVIOUS
  <2>2. PICK seen, done : Batch(end, Dry, seen, done)
    BY <1>6
  <2>3. Batch(b, Dry, seen, done)
    BY <1>4, <1>5, <2>1, <2>2, PlainThen
  <2> QED  BY <1>3, <1>7, <1>11, <2>1, <2>3
<1> QED  BY <1>1, <1>8, <1>9, <1>10, <1>11

-----------------------------------------------------------------------------
(* The other steps *)

\* The orphaned node of each process is noted.
Noted == DOMAIN orphan = Coord

\* A session that is gone holds nothing.
LEMMA GoneRejects ==
    ASSUME IInv, ControlInv, Noted, RejectInv, NEW c \in Coord, Gone(c), UNCHANGED run, Tame
    PROVE  RejectInv'
<1>1. pc' = [pc EXCEPT ![c] = "idle"] /\ UNCHANGED run /\ Tame
  BY DEF Gone
<1>2. DOMAIN fresh = Coord /\ DOMAIN ctl = Coord /\ DOMAIN orphan = Coord
  BY StillTyped DEF IInv, SessionTyped, Noted
<1>3. \A d \in Coord \ {c} : fresh'[d] = fresh[d] /\ ctl'[d] = ctl[d] /\ orphan'[d] = orphan[d]
  BY <1>2 DEF Gone
<1>4. ~fresh'[c]
  BY <1>2 DEF Gone
<1> QED  BY <1>1, <1>3, <1>4, RejectStays

\* resume, up to the owned session.
LEMMA AcquiringRejects ==
    ASSUME IInv, ControlInv, WorkInv, Left(run), Noted, RejectInv, NEW c \in Coord,
           Load(c) \/ Acquire(c) \/ Refused(c)
    PROVE  RejectInv'
<1>1. CASE Load(c)
  <2>1. DOMAIN fresh = Coord /\ DOMAIN ctl = Coord
    BY StillTyped DEF IInv, SessionTyped
  <2>2. /\ UNCHANGED run /\ Tame /\ pc' = [pc EXCEPT ![c] = "loaded"]
        /\ \A d \in Coord \ {c} : fresh'[d] = fresh[d] /\ ctl'[d] = ctl[d] /\ orphan'[d] = orphan[d]
    BY <1>1, <2>1, TameWorld DEF Load, store, ActsOn
  <2>3. ~Settled(run.status)
    BY <1>1 DEF Load
  <2>4. Poised("loaded", run, ctl'[c], orphan'[c])
    BY <2>3 DEF Poised, Reconciling, Working, Controlling, Executing
  <2>5. Tame /\ (fresh'[c] => Poised("loaded", run, ctl'[c], orphan'[c])) /\ UNCHANGED run
    BY <2>2, <2>4
  <2> QED  BY <2>2, <2>5, RejectStays
<1>2. CASE Acquire(c)
  <2>1. /\ pc[c] = "loaded" /\ UNCHANGED run /\ Tame /\ pc' = [pc EXCEPT ![c] = "recover"]
        /\ UNCHANGED <<fresh, ctl, orphan>>
    BY <1>2, TameWorld DEF Acquire, At, store, session, task
  <2>2. fresh[c] => ~Settled(run.status)
    BY <2>1, FreshHolds DEF Poised
  <2>3. ~Settled(run.status) => Poised("recover", run, ctl[c], orphan[c])
    BY DEF Poised, Reconciling, Working, Controlling, Executing
  <2>4. /\ Tame /\ (fresh'[c] => Poised("recover", run, ctl'[c], orphan'[c])) /\ UNCHANGED run
        /\ \A d \in Coord \ {c} : fresh'[d] = fresh[d] /\ ctl'[d] = ctl[d] /\ orphan'[d] = orphan[d]
    BY <2>1, <2>2, <2>3
  <2> QED  BY <2>1, <2>4, RejectStays
<1>3. CASE Refused(c)
  BY <1>3, GoneRejects, TameWorld DEF Refused, store
<1> QED  BY <1>1, <1>2, <1>3

\* The end of a session.
LEMMA EndRejects ==
    ASSUME IInv, ControlInv, WorkInv, Noted, RejectInv, NEW c \in Coord, End(c) \/ SessionFails(c) \/ Crash(c)
    PROVE  RejectInv'
<1>1. CASE HostFails(c) \/ Abandon(c) \/ SessionFails(c)
  <2>1. UNCHANGED task /\ Tame /\ \E next \in {"abandon", "failing"} : Moves(c, next)
    BY <1>1, TameWorld DEF HostFails, Abandon, SessionFails
  <2> QED  BY <2>1, RejectMoves DEF Ending
<1>2. CASE Release(c) \/ Crash(c)
  BY <1>2, GoneRejects, TameWorld DEF Release, Crash, store, world
<1> QED  BY <1>1, <1>2 DEF End

\* Operators, supervisors and workers: operators edit only while no process is in a session.
LEMMA OutsideRejects ==
    ASSUME WorkInv, RejectInv,
           \/ \E k \in Control : SubmitControl(k)
           \/ \E e \in Execution : Host(e)
           \/ OperatorEdits
           \/ UNCHANGED vars
    PROVE  RejectInv'
<1>1. UNCHANGED <<run, pc, fresh, ctl, orphan>>
  BY DEF SubmitControl, Host, PrepareReturns, AuthorizeReturns, WorkerEnds, SupervisorStops,
         WorkerChangesWorkspace, OperatorEdits, vars, store, session, task
<1>2. \/ Tame
      \/ \A c \in Coord : pc[c] = "idle"
  <2>1. CASE (\E k \in Control : SubmitControl(k)) \/ UNCHANGED vars
    BY <2>1, TameWorld DEF SubmitControl, vars
  <2>2. CASE \E e \in Execution : Host(e)
    BY <2>2, TameHost
  <2>3. CASE OperatorEdits
    BY <2>3 DEF OperatorEdits
  <2> QED  BY <2>1, <2>2, <2>3
<1>3. SessionPoised'
  BY <1>1 DEF RejectInv, SessionPoised
<1>4. Gaps'
  <2> SUFFICES ASSUME NEW c \in Coord, pc[c] = "rejected", fresh[c]
               PROVE  (ctl[c] = None /\ Spoilt') \/ ~Clear(run)
    BY <1>1 DEF Gaps, At, Clear, Orphaned, Shelved, Active
  <2>1. (ctl[c] = None /\ Spoilt) \/ ~Clear(run)
    BY DEF RejectInv, Gaps, At
  <2> QED  BY <1>1, <1>2, <2>1, StaysSpoilt
<1> QED  BY <1>1, <1>3, <1>4 DEF RejectInv

\* It stays noted.
LEMMA NotedInductive ==
    ASSUME Noted, [Next]_vars
    PROVE  Noted'
<1>1. ASSUME NEW c \in Coord, \/ UNCHANGED orphan
                              \/ \E n : orphan' = [orphan EXCEPT ![c] = n]
      PROVE  Noted'
  BY <1>1 DEF Noted
<1>2. ASSUME NEW c \in Coord, Recovery(c) PROVE Noted'
  <2>1. CASE Load(c) \/ Acquire(c) \/ Refused(c) \/ BeginReconciling(c) \/ RecoverBoundary(c)
             \/ Inspect(c) \/ TerminateRecovered(c)
    BY <1>1, <2>1 DEF Load, Acquire, Refused, BeginReconciling, RecoverBoundary, Inspect, TerminateRecovered,
                      ActsOn, Gone, task
  <2>2. CASE Orphan(c) \/ FinishRecoveredControl(c) \/ ContinueOrphaned(c) \/ PreflightFailsOrphaned(c)
             \/ ResumePaused(c) \/ StayStopped(c) \/ ContinueRunning(c) \/ Negotiate(c)
    BY <1>1, <2>2 DEF Orphan, FinishRecoveredControl, ContinueOrphaned, PreflightFailsOrphaned, ResumePaused,
                      StayStopped, ContinueRunning, Negotiate, Reconciled, task
  <2> QED  BY <1>2, <2>1, <2>2 DEF Recovery
<1>3. ASSUME NEW c \in Coord, Coordination(c) PROVE Noted'
  <2>1. CASE Boundary(c) \/ Schedule(c) \/ StopCoordinating(c) \/ Preflight(c) \/ PrepareAttempt(c)
             \/ Authorize(c) \/ Drive(c) \/ Collect(c) \/ ObserveControl(c) \/ RequestTimeout(c)
    BY <1>1, <2>1 DEF Boundary, Schedule, StopCoordinating, Preflight, PrepareAttempt, Authorize, Drive, Collect,
                      ObserveControl, RequestTimeout, ActsOn, task
  <2>2. CASE Cancel(c) \/ CancelUnconfirmed(c) \/ FinishActiveControl(c) \/ FinishExecution(c)
             \/ FinishTimeout(c) \/ ReadyDependents(c) \/ CompleteRun(c)
    BY <1>1, <2>2 DEF Cancel, CancelUnconfirmed, FinishActiveControl, FinishExecution, FinishTimeout,
                      ReadyDependents, CompleteRun, task
  <2> QED  BY <1>3, <2>1, <2>2 DEF Coordination
<1>4. ASSUME NEW c \in Coord, End(c) \/ SessionFails(c) \/ Crash(c) PROVE Noted'
  BY <1>1, <1>4 DEF End, HostFails, Abandon, Release, SessionFails, Crash, Gone, task
<1>5. CASE \/ \E k \in Control : SubmitControl(k)
           \/ \E e \in Execution : Host(e)
           \/ OperatorEdits
           \/ UNCHANGED vars
  <2>1. UNCHANGED orphan
    BY <1>5 DEF SubmitControl, Host, PrepareReturns, AuthorizeReturns, WorkerEnds, SupervisorStops,
                WorkerChangesWorkspace, OperatorEdits, vars, task
  <2> QED  BY <2>1 DEF Noted
<1> QED  BY <1>2, <1>3, <1>4, <1>5 DEF Next

\* Every step keeps what the sessions hold.
LEMMA RejectInductive ==
    ASSUME IInv, ControlInv, WorkInv, NamesInv, Left(run), Noted, RejectInv, [Next]_vars
    PROVE  RejectInv'
<1>1. DOMAIN orphan = Coord
  BY DEF Noted
<1>2. ASSUME NEW c \in Coord, Recovery(c) PROVE RejectInv'
  BY <1>1, <1>2, AcquiringRejects, BeginReconcilingRejects, RecoverBoundaryRejects, InspectRejects, OrphanRejects,
     OrphanedRejects, ContinuingRejects DEF Recovery
<1>3. ASSUME NEW c \in Coord, Coordination(c) PROVE RejectInv'
  BY <1>3, BoundaryRejects, SchedulingRejects, PreflightRejects, PrepareRejects, AuthorizeRejects,
     DrivingRejects, ObserveControlRejects, RequestTimeoutRejects, CancelUnconfirmedRejects,
     FinishActiveControlRejects, FinishExecutionRejects, FinishTimeoutRejects DEF Coordination
<1>4. ASSUME NEW c \in Coord, End(c) \/ SessionFails(c) \/ Crash(c) PROVE RejectInv'
  BY <1>4, EndRejects
<1> QED  BY <1>2, <1>3, <1>4, OutsideRejects DEF Next

\* A created run is sound, and its creator schedules.
LEMMA RejectInitially == Init => Noted /\ RejectInv
<1> SUFFICES ASSUME Init PROVE Noted /\ RejectInv
  OBVIOUS
<1>1. run.configured /\ \A n \in Node : run.nodes[n].last = NoAttempt
  <2> PICK N : N = Executable(CreatedRun)
    OBVIOUS
  <2>1. run.configured /\ run.nodes = [n \in Node |-> IF n \in N THEN [CreatedRun.nodes[n] EXCEPT !.status = "ready"]
                                                      ELSE CreatedRun.nodes[n]]
    <3>1. run = InitialRun
      BY DEF Init
    <3>2. DOMAIN CreatedRun = {"status", "configured", "negotiated", "workspace", "nodes"}
      BY DEF CreatedRun
    <3> PICK C : C = CreatedRun
      OBVIOUS
    <3>3. run = [C EXCEPT !.configured = TRUE, !.workspace = TRUE,
                          !.nodes = [n \in Node |-> IF n \in N THEN [C.nodes[n] EXCEPT !.status = "ready"]
                                                   ELSE C.nodes[n]]]
      BY <3>1 DEF InitialRun
    <3>4. "configured" \in DOMAIN C /\ "nodes" \in DOMAIN C
      BY <3>2
    <3>5. run.configured /\ run.nodes = [n \in Node |-> IF n \in N THEN [C.nodes[n] EXCEPT !.status = "ready"]
                                                      ELSE C.nodes[n]]
      BY <3>3, <3>4
    <3> QED  BY <3>5
  <2>2. ASSUME NEW n \in Node PROVE CreatedRun.nodes[n].last = NoAttempt
                                    /\ [CreatedRun.nodes[n] EXCEPT !.status = "ready"].last = NoAttempt
    BY DEF CreatedRun
  <2> QED  BY <2>1, <2>2
<1>2. Sound(run)
  <2>1. NoAttempt.status = "none"
    BY DEF NoAttempt
  <2> QED  BY <1>1, <2>1 DEF Sound, Fit, Doubted, Past
<1>3. \A c \in Coord : pc[c] \in {"schedule", "idle"} /\ ctl[c] = None
  BY DEF Init
<1>4. SessionPoised
  <2> SUFFICES ASSUME NEW c \in Coord PROVE Poised(pc[c], run, ctl[c], orphan[c])
    BY DEF SessionPoised
  <2>1. CASE pc[c] = "schedule"
    <3>1. "schedule" \in Free
      BY DEF Free
    <3> QED  BY <1>3, <2>1, <3>1, PoisedFree
  <2>2. CASE pc[c] = "idle"
    BY <2>2, Unpoised
  <2> QED  BY <1>3, <2>1, <2>2
<1>5. Gaps
  BY <1>3 DEF Gaps, At
<1>6. Noted
  BY DEF Init, Noted
<1> QED  BY <1>2, <1>4, <1>5, <1>6 DEF RejectInv

\* OwnedRunSession.commit, the reducer: the coordinator asks of a run only what the reducer takes, but where
\* a failed attempt left edits, or a lost or shelved attempt is still in the way.
THEOREM RejectionsAreGaps == Spec => []RejectedOnlyInGap
<1>1. Init => Noted /\ RejectInv
  BY RejectInitially
<1>2. Init => NamesInv
  BY NamesInitially
<1>3. IInv /\ ControlInv /\ WorkInv /\ Left(run) /\ NamesInv /\ Noted /\ RejectInv /\ [Next]_vars
        => (NamesInv /\ Noted /\ RejectInv)'
  BY NamesInductive, NotedInductive, RejectInductive
<1>4. RejectInv => RejectedOnlyInGap
  BY DEF RejectInv, Gaps, Spoilt, Clear, RejectedOnlyInGap
<1> QED  BY <1>1, <1>2, <1>3, <1>4, WorkInvariance, LeftInvariance, PTL DEF Spec
====
