------------------------------- MODULE RunStore -------------------------------
(***************************************************************************)
(* The durable store of one run (packages/persistence/src/durable-store.ts *)
(* over SQLite; the in-memory reference store of the engine takes the same *)
(* steps) together with the way coordinators obtain, keep and give back    *)
(* its lease (acquireForRecovery and finishOwnedSession of the engine's    *)
(* DurableRunCoordinator, the heartbeat of OwnedRunSession).               *)
(*                                                                         *)
(* Every store method is one BEGIN IMMEDIATE transaction, hence one atomic *)
(* action here. A method that throws changes nothing in the store; where   *)
(* the caller reacts to the error, the reaction is an action of its own.   *)
(*                                                                         *)
(* A mutation is abstracted to its operation identifier and the part its   *)
(* payload digest covers: the sequence it expects, its events (a body and  *)
(* the control request it observes, if any) and the control it handles.    *)
(* History is counted in mutations, not in events: a mutation is never     *)
(* empty, so its expected sequence and its position determine each other.  *)
(***************************************************************************)
EXTENDS Naturals, Sequences

CONSTANTS Process,          \* exact process identities (host, boot, pid, start): never reused
          Op,               \* mutation operation identifiers
          Body,             \* event payloads of a mutation
          Control,          \* control operation identifiers
          None,             \* no process, no control, no observation
          LeaseDuration,    \* RUN_LEASE_DURATION_MS
          MaxTime,          \* bound on the store clock
          MaxGeneration,    \* Number.MAX_SAFE_INTEGER in the code
          Misreported       \* processes that may be reported absent while they live

ASSUME StoreConstants ==
    /\ LeaseDuration \in Nat \ {0}
    /\ MaxTime \in Nat \ {0}
    /\ MaxGeneration \in Nat \ {0}
    /\ Misreported \subseteq Process
    /\ None \notin Process \cup Control

Actions == {"pause", "cancel"}
Times == 1..MaxTime
OptControl == Control \cup {None}

\* What durableMutationPayloadDigest covers.
Content == [expected : Nat, body : Body, observes : OptControl, handles : OptControl]

Lease == [owner : Process \cup {None}, generation : 0..MaxGeneration, renewed : Nat, expires : Nat,
          released : BOOLEAN]

ControlRow == [action : Actions \cup {None}, recorded : Nat, acknowledged : Nat]

\* A run that does not exist has generation 0; a control that was never
\* submitted has no action; acknowledgement 0 is SQL NULL.
NoLease == [owner |-> None, generation |-> 0, renewed |-> 0, expires |-> 0, released |-> FALSE]
NoControlRow == [action |-> None, recorded |-> 0, acknowledged |-> 0]

VARIABLES
    now,       \* the wall clock the store reads; it may be set back
    lease,     \* the run_leases row
    history,   \* events and run_mutations, one entry per accepted mutation
    controls,  \* the control_requests rows
    alive,     \* processes that have not crashed
    phase,     \* where each process is between load and release
    token,     \* generation of the RunLeaseToken a process holds
    seen,      \* the lease a process read with inspectLease
    absentAt   \* observedAtMs of its absent-owner observation, 0 when it has none

storeVars == <<lease, history, controls>>
sessionVars == <<phase, token, seen, absentAt>>
vars == <<now, lease, history, controls, alive, phase, token, seen, absentAt>>

Phases == {"idle", "inspected", "observed", "owned", "stopping"}

TypeOK ==
    /\ now \in Times
    /\ lease \in Lease
    /\ history \in Seq([generation : Nat, op : Op, content : Content])
    /\ controls \in [Control -> ControlRow]
    /\ alive \in SUBSET Process
    /\ phase \in [Process -> Phases]
    /\ token \in [Process -> Nat]
    /\ seen \in [Process -> Lease]
    /\ absentAt \in [Process -> Nat]

Init ==
    /\ now \in Times
    /\ lease = NoLease
    /\ history = <<>>
    /\ controls = [k \in Control |-> NoControlRow]
    /\ alive = Process
    /\ phase = [p \in Process |-> "idle"]
    /\ token = [p \in Process |-> 0]
    /\ seen = [p \in Process |-> NoLease]
    /\ absentAt = [p \in Process |-> 0]

-----------------------------------------------------------------------------
\* Helpers of the store.

RunExists == lease.generation > 0

LeaseExpiry(t) == t + LeaseDuration

\* A lease granted at the current store time.
Granted(p, generation) ==
    [owner |-> p, generation |-> generation, renewed |-> now, expires |-> LeaseExpiry(now),
     released |-> FALSE]

\* nextGeneration refuses to leave the safe integers.
CanAdvance(generation) == generation + 1 <= MaxGeneration

\* requireFence: a matching, unreleased and unexpired lease. Owner ids are drawn
\* per acquisition, so the generation identifies the acquisition.
Fenced(generation) ==
    /\ RunExists
    /\ lease.generation = generation
    /\ ~lease.released
    /\ lease.expires > now

\* The receipts of run_mutations that carry this operation identifier.
Prior(op) == {i \in DOMAIN history : history[i].op = op}

\* The control a mutation handles exists, is unacknowledged, and is the one observed.
AcknowledgementValid(content) ==
    content.handles # None =>
        /\ controls[content.handles].action # None
        /\ controls[content.handles].acknowledged = 0
        /\ content.observes = content.handles

Entry(generation, op, content) == [generation |-> generation, op |-> op, content |-> content]

-----------------------------------------------------------------------------
\* Creating a run, and acquiring, renewing and releasing its lease.

\* createOwned, called by a coordinator that then owns generation one.
CreateOwned(p) ==
    /\ p \in alive /\ phase[p] = "idle"
    /\ ~RunExists
    /\ lease' = Granted(p, 1)
    /\ \E op \in Op, body \in Body :
          history' = <<Entry(1, op, [expected |-> 0, body |-> body,
                                     observes |-> None, handles |-> None])>>
    /\ phase' = [phase EXCEPT ![p] = "owned"]
    /\ token' = [token EXCEPT ![p] = 1]
    /\ UNCHANGED <<now, controls, alive, seen, absentAt>>

\* acquireForRecovery reads the lease before it decides how to acquire it.
InspectLease(p) ==
    /\ p \in alive /\ phase[p] = "idle"
    /\ RunExists
    /\ seen' = [seen EXCEPT ![p] = lease]
    /\ phase' = [phase EXCEPT ![p] = "inspected"]
    /\ UNCHANGED <<now, lease, history, controls, alive, token, absentAt>>

\* The inspected lease and the observation are locals of acquireForRecovery.
ForgetLease(p) ==
    /\ seen' = [seen EXCEPT ![p] = NoLease]
    /\ absentAt' = [absentAt EXCEPT ![p] = 0]

TakeLease(p) ==
    /\ RunExists
    /\ CanAdvance(lease.generation)
    /\ lease' = Granted(p, lease.generation + 1)
    /\ token' = [token EXCEPT ![p] = lease.generation + 1]
    /\ phase' = [phase EXCEPT ![p] = "owned"]
    /\ ForgetLease(p)
    /\ UNCHANGED <<now, history, controls, alive>>

\* The lease was released when it was inspected and still is.
AcquireReleased(p) ==
    /\ p \in alive /\ phase[p] = "inspected"
    /\ seen[p].released
    /\ lease.released
    /\ TakeLease(p)

\* observeProcess(lease.owner): the time is read before the process is looked up.
ObserveOwner(p) ==
    /\ p \in alive /\ phase[p] = "inspected"
    /\ ~seen[p].released
    /\ seen[p].owner \in Misreported \/ seen[p].owner \notin alive
    /\ now >= seen[p].expires
    /\ absentAt' = [absentAt EXCEPT ![p] = now]
    /\ phase' = [phase EXCEPT ![p] = "observed"]
    /\ UNCHANGED <<now, lease, history, controls, alive, token, seen>>

\* Mutant of TakeoverExpired: whatever lease has expired since is taken.
TakeoverOfAnyLease(p) ==
    /\ p \in alive /\ phase[p] = "observed"
    /\ ~lease.released /\ lease.expires <= now
    /\ absentAt[p] >= lease.expires /\ absentAt[p] <= now
    /\ TakeLease(p)

\* takeoverExpired: the exact lease observed, expired, and its owner found absent
\* between expiry and now.
TakeoverExpired(p) ==
    /\ p \in alive /\ phase[p] = "observed"
    /\ ~lease.released
    /\ lease = seen[p]
    /\ lease.expires <= now
    /\ absentAt[p] >= lease.expires /\ absentAt[p] <= now
    /\ TakeLease(p)

\* Every refusal on the way (owner alive or unknown, lease active, conflict in the
\* store) leaves the store alone and ends the call.
Refused(p) ==
    /\ p \in alive /\ phase[p] \in {"inspected", "observed"}
    /\ phase' = [phase EXCEPT ![p] = "idle"]
    /\ ForgetLease(p)
    /\ UNCHANGED <<now, lease, history, controls, alive, token>>

\* The heartbeat. The expiry never moves back when the clock does.
Renew(p) ==
    /\ p \in alive /\ phase[p] = "owned"
    /\ Fenced(token[p])
    /\ LET at == IF now >= lease.renewed THEN now ELSE lease.renewed
       IN lease' = [lease EXCEPT !.renewed = at, !.expires = LeaseExpiry(at)]
    /\ UNCHANGED <<now, history, controls, alive, phase, token, seen, absentAt>>

\* The session ends: its work is done, a commit threw, or the heartbeat failed.
StopSession(p) ==
    /\ p \in alive /\ phase[p] = "owned"
    /\ phase' = [phase EXCEPT ![p] = "stopping"]
    /\ UNCHANGED <<now, lease, history, controls, alive, token, seen, absentAt>>

\* release: the generation must still be current, but may have expired.
Release(p) ==
    /\ p \in alive /\ phase[p] = "stopping"
    /\ lease' = IF lease.generation = token[p] THEN [lease EXCEPT !.released = TRUE] ELSE lease
    /\ phase' = [phase EXCEPT ![p] = "idle"]
    /\ token' = [token EXCEPT ![p] = 0]
    /\ UNCHANGED <<now, history, controls, alive, seen, absentAt>>

-----------------------------------------------------------------------------
\* Mutations and controls.

\* A mutation the owner may pass to commit.
Mutation == [expected : 0..Len(history), body : Body, observes : OptControl, handles : OptControl]

\* Mutant of Admissible: a known operation identifier is committed again.
AdmissibleTwice(p, op, content) ==
    /\ Fenced(token[p])
    /\ content.expected = Len(history)
    /\ AcknowledgementValid(content)

\* commit, up to the point where the mutation is new and admissible.
Admissible(p, op, content) ==
    /\ Fenced(token[p])
    /\ Prior(op) = {}
    /\ content.expected = Len(history)
    /\ AcknowledgementValid(content)

\* commit of a new mutation: events, receipt and acknowledgement together.
Commit(p, op, content) ==
    /\ p \in alive /\ phase[p] = "owned"
    /\ Admissible(p, op, content)
    /\ history' = Append(history, Entry(token[p], op, content))
    /\ controls' = [k \in Control |->
                      IF k = content.handles
                      THEN [controls[k] EXCEPT !.acknowledged = Len(history) + 1]
                      ELSE controls[k]]
    /\ UNCHANGED <<now, lease, alive, phase, token, seen, absentAt>>

\* submitControl needs no lease; a known identifier is replayed or refused.
SubmitControl(k, action) ==
    /\ RunExists
    /\ controls[k].action = None
    /\ controls' = [controls EXCEPT ![k] = [action |-> action, recorded |-> now, acknowledged |-> 0]]
    /\ UNCHANGED <<now, lease, history, alive, phase, token, seen, absentAt>>

-----------------------------------------------------------------------------
\* The environment.

Crash(p) ==
    /\ p \in alive
    /\ alive' = alive \ {p}
    /\ phase' = [phase EXCEPT ![p] = "idle"]
    /\ token' = [token EXCEPT ![p] = 0]
    /\ ForgetLease(p)
    /\ UNCHANGED <<now, lease, history, controls>>

\* unixepoch() is the wall clock: it advances and may be stepped either way.
SetClock ==
    /\ \E t \in Times : now' = t
    /\ UNCHANGED <<lease, history, controls, alive, phase, token, seen, absentAt>>

ProcessNext(p) ==
    \/ CreateOwned(p) \/ InspectLease(p) \/ AcquireReleased(p) \/ ObserveOwner(p)
    \/ TakeoverExpired(p) \/ Refused(p) \/ Renew(p) \/ StopSession(p) \/ Release(p)
    \/ \E op \in Op, content \in Mutation : Commit(p, op, content)
    \/ Crash(p)

Next ==
    \/ \E p \in Process : ProcessNext(p)
    \/ \E k \in Control, action \in Actions : SubmitControl(k, action)
    \/ SetClock

Spec == Init /\ [][Next]_vars

-----------------------------------------------------------------------------
\* Correctness.

Owning(p) == phase[p] \in {"owned", "stopping"}

\* Two live processes never both hold a session on the run: takeoverExpired replaces
\* only the exact lease whose owner was found absent after its expiry, and
\* acquireReleased only a lease its owner has given back. An expired lease of a
\* live process is never taken. A process wrongly reported absent costs only its own lease:
\* the others still exclude each other.
OneLiveOwner ==
    \A p, q \in alive \ Misreported : Owning(p) /\ Owning(q) => p = q

\* requireFence: once a later generation has been granted, no mutation of an earlier
\* one reaches the history, whatever the earlier owner still believes and whatever
\* the clock does. (This does not depend on the absence observation being right.)
FencedHistory ==
    /\ \A i, j \in DOMAIN history : i <= j => history[i].generation <= history[j].generation
    /\ \A i \in DOMAIN history : history[i].generation <= lease.generation

\* A control request is acknowledged by exactly one mutation, the one that observes it;
\* a crash between the two cannot separate them.
AcknowledgedWithObservation ==
    \A k \in Control :
        LET handlers == {i \in DOMAIN history : history[i].content.handles = k}
        IN IF controls[k].acknowledged = 0
           THEN handlers = {}
           ELSE /\ handlers = {controls[k].acknowledged}
                /\ history[controls[k].acknowledged].content.observes = k

\* While a generation lasts its expiry never moves back, even if the wall clock does:
\* a renewal cannot make the owner's own lease look expired.
RenewalNeverShortens ==
    [][lease'.generation = lease.generation => lease'.expires >= lease.expires]_vars

Log == INSTANCE FencedLog WITH
           epoch <- lease.generation,
           open <- (lease.generation > 0 /\ ~lease.released),
           log <- history

\* The store, with leases, clocks, crashes and takeovers, is a fenced log.
FencedLogSpec == Log!Spec
=============================================================================
