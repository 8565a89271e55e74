--------------------------- MODULE RunStoreProofs ---------------------------
(***************************************************************************)
(* What RunStore guarantees for any number of processes, mutations and     *)
(* controls, any lease duration and any behaviour of the clock.            *)
(*                                                                         *)
(* IInv strengthens the properties by what makes them inductive: the       *)
(* expiry is the renewal time plus the lease duration, the lease of a live *)
(* session is still the current one, and an owner that was observed absent *)
(* stays absent.                                                           *)
(*                                                                         *)
(* The second half is about the rows of one run, RunHistory: what a reader *)
(* is told and what a session extends, for any number of sessions and of   *)
(* damaged rows and a history of any length. What the reducer accepts is   *)
(* of no concern there: the digests alone find a damaged row. As long as   *)
(* at most one is, either the events are whole or every digest is in its   *)
(* place (OneTableWhole). A snapshot is a cache because folding the rest   *)
(* of a history over the fold of its first rows is folding all of it       *)
(* (FoldedInParts), shown by the least number of rows where it were not.   *)
(***************************************************************************)
EXTENDS RunStore, RunHistory, FiniteSetTheorems, SequenceTheorems, WellFoundedInduction, TLAPS

\* Before the run exists there is nothing in its tables.
NothingBeforeCreation ==
    lease.generation = 0 => lease = NoLease /\ history = <<>>

ExpiryFollowsRenewal ==
    lease.generation > 0 => lease.expires = lease.renewed + LeaseDuration

\* A session holds a token of a generation that was granted.
TokenIsGranted ==
    \A p \in Process : Owning(p) => token[p] > 0 /\ token[p] <= lease.generation

\* The current generation was granted to the owner of the lease alone.
CurrentTokenIsOwners ==
    \A p \in Process : Owning(p) /\ token[p] = lease.generation => lease.owner = p

\* A live session is backed by the current lease.
LiveSessionIsCurrent ==
    \A p \in alive \ Misreported : Owning(p) =>
        /\ lease.owner = p
        /\ lease.generation = token[p]
        /\ ~lease.released

\* An absence observation stays true: identities are never reused.
AbsenceIsStable ==
    \A p \in Process :
        phase[p] = "observed" => seen[p].owner \in Misreported \/ seen[p].owner \notin alive

\* Only a submitted control is ever acknowledged.
AcknowledgedIsSubmitted ==
    \A k \in Control : controls[k].action = None => controls[k].acknowledged = 0

IInv ==
    /\ TypeOK
    /\ NothingBeforeCreation
    /\ ExpiryFollowsRenewal
    /\ FencedHistory
    /\ TokenIsGranted
    /\ CurrentTokenIsOwners
    /\ LiveSessionIsCurrent
    /\ AbsenceIsStable
    /\ AcknowledgedIsSubmitted
    /\ AcknowledgedWithObservation

-----------------------------------------------------------------------------
\* Every state has the declared types, and every step preserves them: a generation stays
\* within the safe integers, and leases, tokens
\* and observations are what the acquisition and session code exchange with the store.
LEMMA TypeStep == TypeOK /\ [Next]_vars => TypeOK'
<1> SUFFICES ASSUME TypeOK, [Next]_vars PROVE TypeOK'
  OBVIOUS
<1> USE StoreConstants DEF TypeOK, Times, Lease, ControlRow, NoLease, OptControl, Actions, Phases
<1>1. ASSUME NEW p \in Process, CreateOwned(p) PROVE TypeOK'
  <2>1. PICK op \in Op, body \in Body :
          history' = <<Entry(1, op, [expected |-> 0, body |-> body,
                                     observes |-> None, handles |-> None])>>
    BY <1>1 DEF CreateOwned
  <2>2. history' \in Seq([generation : Nat, op : Op, content : Content])
    BY <2>1 DEF Entry, Content
  <2>3. lease' \in Lease
    BY <1>1 DEF CreateOwned, Granted, LeaseExpiry
  <2> QED
    BY <1>1, <2>2, <2>3 DEF CreateOwned
<1>2. ASSUME NEW p \in Process, InspectLease(p) PROVE TypeOK'
  BY <1>2 DEF InspectLease
<1>3. ASSUME NEW p \in Process, TakeLease(p) PROVE TypeOK'
  <2>1. lease' \in Lease
    BY <1>3 DEF TakeLease, Granted, LeaseExpiry, CanAdvance
  <2>2. token' \in [Process -> Nat] /\ phase' \in [Process -> Phases]
    BY <1>3 DEF TakeLease
  <2>3. seen' \in [Process -> Lease] /\ absentAt' \in [Process -> Nat]
    BY <1>3 DEF TakeLease, ForgetLease
  <2> QED
    BY <1>3, <2>1, <2>2, <2>3 DEF TakeLease
<1>4. ASSUME NEW p \in Process, AcquireReleased(p) \/ TakeoverExpired(p) PROVE TypeOK'
  BY <1>3, <1>4 DEF AcquireReleased, TakeoverExpired
<1>5. ASSUME NEW p \in Process, ObserveOwner(p) PROVE TypeOK'
  <2>1. now \in Nat
    OBVIOUS
  <2>2. absentAt' \in [Process -> Nat] /\ phase' \in [Process -> Phases]
    BY <1>5, <2>1 DEF ObserveOwner
  <2> QED
    BY <1>5, <2>2 DEF ObserveOwner
<1>6. ASSUME NEW p \in Process, Refused(p) PROVE TypeOK'
  BY <1>6 DEF Refused, ForgetLease
<1>7. ASSUME NEW p \in Process, Renew(p) PROVE TypeOK'
  <2> DEFINE at == IF now >= lease.renewed THEN now ELSE lease.renewed
  <2>1. at \in Nat /\ at + LeaseDuration \in Nat
    OBVIOUS
  <2>2. lease' = [lease EXCEPT !.renewed = at, !.expires = at + LeaseDuration]
    BY <1>7 DEF Renew, LeaseExpiry
  <2>3. lease' \in Lease
    BY <2>1, <2>2
  <2> QED
    BY <1>7, <2>3 DEF Renew
<1>8. ASSUME NEW p \in Process, StopSession(p) PROVE TypeOK'
  BY <1>8 DEF StopSession
<1>9. ASSUME NEW p \in Process, Release(p) PROVE TypeOK'
  BY <1>9 DEF Release
<1>10. ASSUME NEW p \in Process, NEW op \in Op, NEW content \in Mutation, Commit(p, op, content)
       PROVE TypeOK'
  <2>1. content \in Content
    BY DEF Mutation, Content
  <2>2. history' \in Seq([generation : Nat, op : Op, content : Content])
    BY <1>10, <2>1 DEF Commit, Entry
  <2>3. controls' \in [Control -> ControlRow]
    <3>1. ASSUME NEW n \in Nat, NEW row \in ControlRow
          PROVE  [row EXCEPT !.acknowledged = n] \in ControlRow
      OBVIOUS
    <3>2. Len(history) + 1 \in Nat
      OBVIOUS
    <3>3. \A k \in Control : controls[k] \in ControlRow
      BY DEF TypeOK
    <3> HIDE DEF ControlRow
    <3> QED
      BY <1>10, <3>1, <3>2, <3>3 DEF Commit
  <2> QED
    BY <1>10, <2>2, <2>3 DEF Commit
<1>11. ASSUME NEW p \in Process, Crash(p) PROVE TypeOK'
  BY <1>11 DEF Crash, ForgetLease
<1>12. ASSUME NEW k \in Control, NEW action \in Actions, SubmitControl(k, action) PROVE TypeOK'
  <2>1. now \in Nat
    OBVIOUS
  <2>2. [action |-> action, recorded |-> now, acknowledged |-> 0] \in ControlRow
    BY <2>1
  <2> QED
    BY <1>12, <2>2 DEF SubmitControl
<1>13. CASE SetClock
  BY <1>13 DEF SetClock
<1>14. CASE UNCHANGED vars
  BY <1>14 DEF vars
<1> HIDE DEF TypeOK, Actions
<1> QED
  BY <1>1, <1>2, <1>4, <1>5, <1>6, <1>7, <1>8, <1>9, <1>10, <1>11, <1>12, <1>13, <1>14
     DEF Next, ProcessNext

-----------------------------------------------------------------------------
\* The lease row: nothing precedes creation, expiry follows renewal, and a live
\* session keeps its lease through crashes and takeovers of the others.
LEMMA LeaseStep ==
    TypeOK /\ NothingBeforeCreation /\ ExpiryFollowsRenewal /\ TokenIsGranted
    /\ CurrentTokenIsOwners /\ LiveSessionIsCurrent /\ AbsenceIsStable /\ [Next]_vars
    => NothingBeforeCreation' /\ ExpiryFollowsRenewal' /\ TokenIsGranted'
       /\ LiveSessionIsCurrent' /\ AbsenceIsStable'
<1> SUFFICES ASSUME TypeOK, NothingBeforeCreation, ExpiryFollowsRenewal, TokenIsGranted,
                    CurrentTokenIsOwners, LiveSessionIsCurrent, AbsenceIsStable, [Next]_vars
             PROVE  /\ NothingBeforeCreation' /\ ExpiryFollowsRenewal' /\ TokenIsGranted'
                    /\ LiveSessionIsCurrent' /\ AbsenceIsStable'
  OBVIOUS
<1> DEFINE Goal == /\ NothingBeforeCreation' /\ ExpiryFollowsRenewal' /\ TokenIsGranted'
                   /\ LiveSessionIsCurrent' /\ AbsenceIsStable'
<1> USE StoreConstants DEF TypeOK, Times, Lease, NoLease, NothingBeforeCreation,
                           ExpiryFollowsRenewal, TokenIsGranted, LiveSessionIsCurrent, AbsenceIsStable,
                           Owning
<1>1. ASSUME NEW p \in Process, CreateOwned(p) PROVE Goal
  BY <1>1 DEF CreateOwned, RunExists, Granted, LeaseExpiry
<1>2. ASSUME NEW p \in Process, InspectLease(p) PROVE Goal
  BY <1>2 DEF InspectLease
<1>3. ASSUME NEW p \in Process, TakeLease(p), \A r \in alive \ Misreported : ~Owning(r)
      PROVE  Goal
  <2>1. /\ lease'.generation = lease.generation + 1 /\ lease'.owner = p /\ ~lease'.released
        /\ lease'.renewed = now /\ lease'.expires = now + LeaseDuration
    BY <1>3 DEF TakeLease, Granted, LeaseExpiry
  <2>2. /\ lease.generation \in Nat /\ alive' = alive
        /\ token' = [token EXCEPT ![p] = lease.generation + 1]
        /\ phase' = [phase EXCEPT ![p] = "owned"]
        /\ seen' = [seen EXCEPT ![p] = NoLease]
    BY <1>3 DEF TakeLease, ForgetLease
  <2>3. NothingBeforeCreation' /\ ExpiryFollowsRenewal'
    BY <2>1, <2>2
  <2>4. TokenIsGranted'
    <3> SUFFICES ASSUME NEW q \in Process, Owning(q)'
                 PROVE  token'[q] > 0 /\ token'[q] <= lease'.generation
      OBVIOUS
    <3>1. CASE q = p
      BY <2>1, <2>2, <3>1
    <3>2. CASE q # p
      BY <2>1, <2>2, <3>2
    <3> QED
      BY <3>1, <3>2
  <2>5. LiveSessionIsCurrent'
    BY <1>3, <2>1, <2>2
  <2>6. AbsenceIsStable'
    BY <2>2
  <2> QED
    BY <2>3, <2>4, <2>5, <2>6
<1>4. ASSUME NEW p \in Process, AcquireReleased(p) PROVE Goal
  BY <1>3, <1>4 DEF AcquireReleased
<1>5. ASSUME NEW p \in Process, ObserveOwner(p) PROVE Goal
  BY <1>5 DEF ObserveOwner
<1>6. ASSUME NEW p \in Process, TakeoverExpired(p) PROVE Goal
  BY <1>3, <1>6 DEF TakeoverExpired
<1>7. ASSUME NEW p \in Process, Refused(p) PROVE Goal
  BY <1>7 DEF Refused, ForgetLease
<1>8. ASSUME NEW p \in Process, Renew(p) PROVE Goal
  BY <1>8 DEF Renew, LeaseExpiry, Fenced, RunExists
<1>9. ASSUME NEW p \in Process, StopSession(p) PROVE Goal
  BY <1>9 DEF StopSession
<1>10. ASSUME NEW p \in Process, Release(p) PROVE Goal
  <2>1. /\ lease'.generation = lease.generation /\ lease'.expires = lease.expires
        /\ lease'.renewed = lease.renewed /\ lease'.owner = lease.owner
        /\ lease.generation # token[p] => lease' = lease
    BY <1>10 DEF Release
  <2>2. lease.generation = 0 => lease' = NoLease
    <3>1. token[p] # 0
      BY <1>10 DEF Release
    <3> QED
      BY <1>10, <2>1, <3>1 DEF Release
  <2>3. LiveSessionIsCurrent'
    <3> SUFFICES ASSUME NEW q \in alive \ Misreported, Owning(q)'
                 PROVE  lease'.owner = q /\ lease'.generation = token'[q] /\ ~lease'.released
      BY <1>10 DEF Release
    <3>1. q # p /\ Owning(q) /\ token'[q] = token[q]
      BY <1>10 DEF Release
    <3>2. lease.owner = q /\ lease.generation = token[q] /\ ~lease.released
      BY <1>10, <3>1 DEF Release
    <3>3. lease.generation # token[p]
      BY <1>10, <3>1, <3>2 DEF Release, CurrentTokenIsOwners
    <3> QED
      BY <2>1, <3>1, <3>2, <3>3
  <2> QED
    BY <1>10, <2>1, <2>2, <2>3 DEF Release
<1>11. ASSUME NEW p \in Process, NEW op \in Op, NEW content \in Mutation, Commit(p, op, content)
       PROVE Goal
  BY <1>11 DEF Commit, Admissible, Fenced, RunExists
<1>12. ASSUME NEW p \in Process, Crash(p) PROVE Goal
  BY <1>12 DEF Crash, ForgetLease
<1>13. ASSUME NEW k \in Control, NEW action \in Actions, SubmitControl(k, action) PROVE Goal
  BY <1>13 DEF SubmitControl
<1>14. ASSUME SetClock PROVE Goal
  BY <1>14 DEF SetClock
<1>15. ASSUME UNCHANGED vars PROVE Goal
  BY <1>15 DEF vars
<1> HIDE DEF TypeOK, NothingBeforeCreation, ExpiryFollowsRenewal, TokenIsGranted,
             LiveSessionIsCurrent, AbsenceIsStable, Goal
<1>16. Goal
  BY <1>1, <1>2, <1>4, <1>5, <1>6, <1>7, <1>8, <1>9, <1>10, <1>11, <1>12, <1>13, <1>14, <1>15
     DEF Next, ProcessNext
<1> QED
  BY <1>16 DEF Goal

-----------------------------------------------------------------------------
\* The lease columns a commit or a query compares are the store's alone: every step
\* leaves the history alone, creates the run, or appends in the current generation.
LEMMA HistoryStep ==
    ASSUME TypeOK, [Next]_vars
    PROVE  \/ /\ history' = history
              /\ lease'.generation >= lease.generation
           \/ \E p \in Process : CreateOwned(p)
           \/ \E p \in Process, op \in Op, content \in Mutation : Commit(p, op, content)
<1> USE DEF TypeOK, Lease
<1>1. ASSUME NEW p \in Process, TakeLease(p)
      PROVE  history' = history /\ lease'.generation >= lease.generation
  BY <1>1 DEF TakeLease, Granted
<1>2. ASSUME NEW p \in Process, Renew(p) \/ Release(p)
      PROVE  history' = history /\ lease'.generation = lease.generation
  BY <1>2 DEF Renew, Release
<1>3. ASSUME NEW p \in Process,
             \/ InspectLease(p) \/ ObserveOwner(p) \/ Refused(p) \/ StopSession(p) \/ Crash(p)
      PROVE  history' = history /\ lease' = lease
  BY <1>3 DEF InspectLease, ObserveOwner, Refused, StopSession, Crash
<1>4. ASSUME \/ \E k \in Control, action \in Actions : SubmitControl(k, action)
             \/ SetClock \/ UNCHANGED vars
      PROVE  history' = history /\ lease' = lease
  BY <1>4 DEF SubmitControl, SetClock, vars
<1>5. lease.generation \in Nat
  OBVIOUS
<1> HIDE DEF TypeOK, Lease
<1> QED
  BY <1>1, <1>2, <1>3, <1>4, <1>5 DEF Next, ProcessNext, AcquireReleased, TakeoverExpired

\* requireFence keeps the history ordered by generation.
LEMMA FencedStep ==
    ASSUME TypeOK, NothingBeforeCreation, FencedHistory, [Next]_vars
    PROVE  FencedHistory'
<1> USE DEF FencedHistory
<1>1. CASE history' = history /\ lease'.generation >= lease.generation
  <2>1. /\ history \in Seq([generation : Nat, op : Op, content : Content])
        /\ lease.generation \in Nat /\ lease'.generation \in Nat
    BY TypeStep DEF TypeOK, Lease
  <2>2. ASSUME NEW i \in DOMAIN history PROVE history[i].generation \in Nat
    <3> DEFINE S == [generation : Nat, op : Op, content : Content]
    <3>1. history \in Seq(S)
      BY <2>1
    <3>2. \A e \in S : e.generation \in Nat
      OBVIOUS
    <3> HIDE DEF S
    <3>3. i \in 1..Len(history)
      BY <3>1
    <3>4. history[i] \in S
      BY <3>1, <3>3, ElementOfSeq
    <3> QED
      BY <3>2, <3>4
  <2>3. \A i \in DOMAIN history : history[i].generation <= lease'.generation
    BY <1>1, <2>1, <2>2
  <2> QED
    BY <1>1, <2>3
<1>2. ASSUME NEW p \in Process, CreateOwned(p) PROVE FencedHistory'
  <2>1. PICK entry : history' = <<entry>> /\ entry.generation = 1
    BY <1>2 DEF CreateOwned, Entry
  <2>2. lease'.generation = 1
    BY <1>2 DEF CreateOwned, Granted
  <2> QED
    BY <2>1, <2>2
<1>3. ASSUME NEW p \in Process, NEW op \in Op, NEW content \in Mutation, Commit(p, op, content)
      PROVE  FencedHistory'
  <2>1. history' = Append(history, Entry(lease.generation, op, content)) /\ lease' = lease
    BY <1>3 DEF Commit, Admissible, Fenced
  <2>2. history \in Seq([generation : Nat, op : Op, content : Content]) /\ lease.generation \in Nat
    BY DEF TypeOK, Lease
  <2>3. \A i \in DOMAIN history' :
          \/ i \in DOMAIN history /\ history'[i] = history[i]
          \/ i = Len(history) + 1 /\ history'[i].generation = lease.generation
    BY <2>1, <2>2 DEF Entry
  <2> QED
    BY <2>1, <2>2, <2>3
<1> QED
  BY <1>1, <1>2, <1>3, HistoryStep

\* The acknowledgement and the observation of a control are written together.
LEMMA AcknowledgementStep ==
    ASSUME TypeOK, NothingBeforeCreation, AcknowledgedIsSubmitted, AcknowledgedWithObservation,
           [Next]_vars
    PROVE  AcknowledgedIsSubmitted' /\ AcknowledgedWithObservation'
<1> DEFINE Handlers(h, c) == {i \in DOMAIN h : h[i].content.handles = c}
<1> USE StoreConstants DEF TypeOK, AcknowledgedIsSubmitted, AcknowledgedWithObservation
<1>1. CASE UNCHANGED <<history, controls>>
  BY <1>1
<1>2. ASSUME NEW p \in Process, CreateOwned(p)
      PROVE  AcknowledgedIsSubmitted' /\ AcknowledgedWithObservation'
  <2>1. PICK entry : history' = <<entry>> /\ entry.content.handles = None
    BY <1>2 DEF CreateOwned, Entry
  <2>2. history = <<>> /\ controls' = controls
    BY <1>2 DEF CreateOwned, RunExists, NothingBeforeCreation, Lease
  <2>3. \A k \in Control : Handlers(history, k) = {} /\ Handlers(history', k) = {}
    BY <2>1, <2>2
  <2>4. \A k \in Control : controls[k].acknowledged = 0
    BY <2>3
  <2> QED
    BY <2>2, <2>3, <2>4
<1>3. ASSUME NEW p \in Process, NEW op \in Op, NEW content \in Mutation, Commit(p, op, content)
      PROVE  AcknowledgedIsSubmitted' /\ AcknowledgedWithObservation'
  <2> DEFINE n == Len(history) + 1
  <2>1. n \in Nat \ {0} /\ DOMAIN history = 1..(n - 1)
    OBVIOUS
  <2>2. /\ DOMAIN history' = 1..n
        /\ \A i \in DOMAIN history : history'[i] = history[i]
        /\ history'[n].content = content
    BY <1>3 DEF Commit, Entry
  <2>3. \A k \in Control : k # content.handles =>
          controls'[k] = controls[k] /\ Handlers(history', k) = Handlers(history, k)
    BY <1>3, <2>1, <2>2 DEF Commit
  <2>4. ASSUME NEW k \in Control, k = content.handles
        PROVE  /\ controls'[k].action = controls[k].action /\ controls[k].action # None
               /\ controls'[k].acknowledged = n
               /\ Handlers(history', k) = {n}
               /\ history'[n].content.observes = k
    <3>1. /\ controls[k].action # None /\ controls[k].acknowledged = 0
          /\ content.observes = k
      BY <1>3, <2>4 DEF Commit, Admissible, AcknowledgementValid
    <3>2. Handlers(history, k) = {}
      BY <3>1
    <3>3. controls'[k] = [controls[k] EXCEPT !.acknowledged = n]
      BY <1>3, <2>4 DEF Commit
    <3>4. controls[k] \in ControlRow
      OBVIOUS
    <3>5. controls'[k].action = controls[k].action /\ controls'[k].acknowledged = n
      BY <3>3, <3>4 DEF ControlRow
    <3>6. n \in Handlers(history', k) /\ history'[n].content.observes = k
      BY <2>1, <2>2, <2>4, <3>1
    <3>7. ASSUME NEW i \in Handlers(history', k), i # n PROVE FALSE
      <4>1. i \in DOMAIN history /\ history[i].content.handles = k
        BY <2>1, <2>2, <3>7
      <4> QED
        BY <3>2, <4>1
    <3>8. Handlers(history', k) = {n}
      BY <3>6, <3>7
    <3> QED
      BY <3>1, <3>5, <3>6, <3>8
  <2>5. ASSUME NEW k \in Control, k # content.handles, controls[k].acknowledged # 0
        PROVE  history'[controls[k].acknowledged].content.observes = k
    <3>1. controls[k].acknowledged \in Handlers(history, k)
      BY <2>5
    <3> QED
      BY <2>2, <2>5, <3>1
  <2>6. AcknowledgedIsSubmitted'
    BY <2>3, <2>4
  <2>7. ASSUME NEW k \in Control
        PROVE  IF controls'[k].acknowledged = 0
               THEN Handlers(history', k) = {}
               ELSE /\ Handlers(history', k) = {controls'[k].acknowledged}
                    /\ history'[controls'[k].acknowledged].content.observes = k
    <3>1. CASE k = content.handles
      BY <2>1, <2>4, <3>1
    <3>2. CASE k # content.handles
      <4>1. controls'[k] = controls[k] /\ Handlers(history', k) = Handlers(history, k)
        BY <2>3, <3>2
      <4>2. IF controls[k].acknowledged = 0
            THEN Handlers(history, k) = {}
            ELSE Handlers(history, k) = {controls[k].acknowledged}
        OBVIOUS
      <4> HIDE DEF Handlers
      <4> QED
        BY <2>5, <3>2, <4>1, <4>2
    <3> QED
      BY <3>1, <3>2
  <2> QED
    BY <2>6, <2>7
<1>4. ASSUME NEW k \in Control, NEW action \in Actions, SubmitControl(k, action)
      PROVE  AcknowledgedIsSubmitted' /\ AcknowledgedWithObservation'
  <2>1. controls[k].acknowledged = 0 /\ history' = history
    BY <1>4 DEF SubmitControl
  <2>2. controls'[k].acknowledged = 0
    BY <1>4 DEF SubmitControl
  <2>3. \A j \in Control : j # k => controls'[j] = controls[j]
    BY <1>4 DEF SubmitControl
  <2> QED
    BY <2>1, <2>2, <2>3
<1>5. \/ UNCHANGED <<history, controls>>
      \/ \E p \in Process : CreateOwned(p)
      \/ \E p \in Process, op \in Op, content \in Mutation : Commit(p, op, content)
      \/ \E k \in Control, action \in Actions : SubmitControl(k, action)
  BY DEF Next, ProcessNext, vars, InspectLease, AcquireReleased, ObserveOwner, TakeoverExpired,
         TakeLease, Refused, Renew, StopSession, Release, Crash, SetClock
<1> QED
  BY <1>1, <1>2, <1>3, <1>4, <1>5

-----------------------------------------------------------------------------
\* A generation is granted once, to the process that then owns the lease; a superseded session
\* keeps the token of an earlier one.
LEMMA TokenStep ==
    ASSUME TypeOK, TokenIsGranted, CurrentTokenIsOwners, [Next]_vars
    PROVE  CurrentTokenIsOwners'
<1> SUFFICES ASSUME NEW q \in Process, Owning(q)', token'[q] = lease'.generation
             PROVE  lease'.owner = q
  BY DEF CurrentTokenIsOwners
<1> DEFINE Goal == lease'.owner = q
<1> USE DEF TypeOK, Lease, Owning
<1>1. ASSUME lease' = lease, Owning(q), token'[q] = token[q] PROVE Goal
  BY <1>1 DEF CurrentTokenIsOwners
<1>2. ASSUME NEW p \in Process, CreateOwned(p) PROVE Goal
  <2>1. lease.generation = 0 /\ lease'.owner = p
    BY <1>2 DEF CreateOwned, RunExists, Granted
  <2>2. CASE q = p
    BY <2>1, <2>2
  <2>3. CASE q # p
    <3>1. Owning(q)
      BY <1>2, <2>3 DEF CreateOwned
    <3> QED
      BY <2>1, <3>1 DEF TokenIsGranted
  <2> QED
    BY <2>2, <2>3
<1>3. ASSUME NEW p \in Process, TakeLease(p) PROVE Goal
  <2>1. lease'.generation = lease.generation + 1 /\ lease'.owner = p
    BY <1>3 DEF TakeLease, Granted
  <2>2. CASE q = p
    BY <2>1, <2>2
  <2>3. CASE q # p
    <3>1. Owning(q) /\ token'[q] = token[q]
      BY <1>3, <2>3 DEF TakeLease
    <3>2. token[q] <= lease.generation /\ token[q] \in Nat
      BY <3>1 DEF TokenIsGranted
    <3> QED
      BY <2>1, <3>1, <3>2
  <2> QED
    BY <2>2, <2>3
<1>4. ASSUME NEW p \in Process, Renew(p) PROVE Goal
  BY <1>4 DEF Renew, CurrentTokenIsOwners
<1>5. ASSUME NEW p \in Process, Release(p) PROVE Goal
  <2>1. lease'.generation = lease.generation /\ lease'.owner = lease.owner
    BY <1>5 DEF Release
  <2>2. Owning(q) /\ token'[q] = token[q]
    BY <1>5 DEF Release
  <2> QED
    BY <2>1, <2>2 DEF CurrentTokenIsOwners
<1>6. \/ lease' = lease /\ Owning(q) /\ token'[q] = token[q]
      \/ \E p \in Process : CreateOwned(p) \/ TakeLease(p) \/ Renew(p) \/ Release(p)
  BY DEF Next, ProcessNext, vars, InspectLease, AcquireReleased, ObserveOwner, TakeoverExpired,
         Refused, StopSession, Crash, SetClock, Commit, SubmitControl
<1> HIDE DEF Goal
<1>7. Goal
  BY <1>1, <1>2, <1>3, <1>4, <1>5, <1>6
<1> QED
  BY <1>7 DEF Goal

-----------------------------------------------------------------------------
\* A renewal counts from the later of the clock and the previous renewal, so the
\* expiry of a generation never moves back.
LEMMA RenewalStep ==
    ASSUME TypeOK, ExpiryFollowsRenewal, [Next]_vars
    PROVE  lease'.generation = lease.generation => lease'.expires >= lease.expires
<1> DEFINE Goal == lease'.generation = lease.generation => lease'.expires >= lease.expires
<1> USE StoreConstants DEF TypeOK, Lease, Times
<1>1. ASSUME lease' = lease PROVE Goal
  BY <1>1
<1>2. ASSUME NEW p \in Process, CreateOwned(p) PROVE Goal
  BY <1>2 DEF CreateOwned, Granted, RunExists
<1>3. ASSUME NEW p \in Process, TakeLease(p) PROVE Goal
  BY <1>3 DEF TakeLease, Granted
<1>4. ASSUME NEW p \in Process, Renew(p) PROVE Goal
  <2>1. lease.expires = lease.renewed + LeaseDuration
    BY <1>4 DEF Renew, Fenced, RunExists, ExpiryFollowsRenewal
  <2>2. lease'.expires = (IF now >= lease.renewed THEN now ELSE lease.renewed) + LeaseDuration
    BY <1>4 DEF Renew, LeaseExpiry
  <2> QED
    BY <2>1, <2>2
<1>5. ASSUME NEW p \in Process, Release(p) PROVE Goal
  BY <1>5 DEF Release
<1>6. \/ lease' = lease
      \/ \E p \in Process : \/ CreateOwned(p) \/ TakeLease(p) \/ Renew(p) \/ Release(p)
  BY DEF Next, ProcessNext, vars, InspectLease, AcquireReleased, ObserveOwner, TakeoverExpired,
         Refused, StopSession, Crash, SetClock, Commit, SubmitControl
<1> HIDE DEF Goal
<1>7. Goal
  BY <1>1, <1>2, <1>3, <1>4, <1>5, <1>6
<1> QED
  BY <1>7 DEF Goal

\* The inductive invariant holds at the start and is preserved.
LEMMA IInvHolds == Spec => []IInv
<1>1. Init => IInv
  <2> USE StoreConstants
  <2>1. Init => TypeOK
    BY DEF Init, TypeOK, Times, Lease, NoLease, ControlRow, NoControlRow, Phases
  <2>2. Init => FencedHistory /\ AcknowledgedWithObservation
    BY DEF Init, FencedHistory, AcknowledgedWithObservation, NoControlRow
  <2> QED
    BY <2>1, <2>2
       DEF Init, IInv, NothingBeforeCreation, ExpiryFollowsRenewal, TokenIsGranted,
           CurrentTokenIsOwners,
           LiveSessionIsCurrent, AbsenceIsStable, AcknowledgedIsSubmitted, Owning, NoLease,
           NoControlRow
<1>2. IInv /\ [Next]_vars => IInv'
  BY TypeStep, LeaseStep, TokenStep, FencedStep, AcknowledgementStep DEF IInv
<1> QED
  BY <1>1, <1>2, PTL DEF Spec

-----------------------------------------------------------------------------
\* In every state the store's rows and the coordinators' leases, tokens and observations
\* have the types the code declares.
THEOREM TypeCorrect == Spec => []TypeOK
BY IInvHolds, PTL DEF IInv

\* No two live coordinators ever hold sessions on the same run, whatever crashes,
\* clock steps and takeovers happen, except the ones wrongly observed absent.
THEOREM SingleLiveOwner == Spec => []OneLiveOwner
<1>1. IInv => OneLiveOwner
  BY DEF IInv, LiveSessionIsCurrent, OneLiveOwner
<1> QED
  BY <1>1, IInvHolds, PTL

\* A superseded generation never writes again, even when takeover was a mistake.
THEOREM SupersededNeverWrites == Spec => []FencedHistory
BY IInvHolds, PTL DEF IInv

\* A control is acknowledged by the mutation that observes it and by no other.
THEOREM ControlsHandledOnce == Spec => []AcknowledgedWithObservation
BY IInvHolds, PTL DEF IInv

\* A renewal never brings the expiry of a generation forward.
THEOREM ExpiryIsMonotonic == Spec => RenewalNeverShortens
<1>1. IInv /\ [Next]_vars
      => [lease'.generation = lease.generation => lease'.expires >= lease.expires]_vars
  BY RenewalStep DEF IInv
<1> QED
  BY <1>1, IInvHolds, PTL DEF Spec, RenewalNeverShortens

-----------------------------------------------------------------------------
\* An accepted mutation is one write of the abstract log.
LEMMA CommitWrites ==
    ASSUME TypeOK, NEW p \in Process, NEW op \in Op, NEW content \in Mutation,
           Commit(p, op, content)
    PROVE  Log!Write
<1> DEFINE entry == Entry(lease.generation, op, content)
<1>1. history' = Append(history, entry) /\ lease' = lease
  BY DEF Commit, Admissible, Fenced
<1>2. history \in Seq([generation : Nat, op : Op, content : Content]) /\ lease.generation \in Nat
  BY DEF TypeOK, Lease
<1>3. content \in Content
  BY DEF Mutation, Content
<1>4. entry \in Log!Entry /\ entry.generation = lease.generation /\ entry.op = op
  BY <1>2, <1>3 DEF Entry, Log!Entry
<1>5. Log!Fresh(op)
  BY DEF Commit, Admissible, Prior, Log!Fresh
<1>6. lease.generation > 0 /\ ~lease.released
  BY DEF Commit, Admissible, Fenced, RunExists
<1> HIDE DEF entry
<1>7. Len(history') = Len(history) + 1 /\ history'[Len(history')] = entry
  BY <1>1, <1>2
<1> QED
  BY <1>1, <1>4, <1>5, <1>6, <1>7 DEF Log!Write, Log!Extended

\* Creating a run opens the first epoch with its first write.
LEMMA CreateOpens ==
    ASSUME TypeOK, NothingBeforeCreation, NEW p \in Process, CreateOwned(p)
    PROVE  Log!Create
<1>1. PICK op \in Op, body \in Body :
        history' = <<Entry(1, op, [expected |-> 0, body |-> body,
                                   observes |-> None, handles |-> None])>>
  BY DEF CreateOwned
<1> DEFINE entry == Entry(1, op, [expected |-> 0, body |-> body,
                                  observes |-> None, handles |-> None])
<1>2. entry \in Log!Entry /\ entry.generation = 1
  BY DEF Log!Entry, Entry, Content, OptControl
<1>3. lease.generation = 0 /\ history = <<>>
  BY DEF CreateOwned, RunExists, NothingBeforeCreation, TypeOK, Lease
<1>4. lease'.generation = 1 /\ ~lease'.released
  BY DEF CreateOwned, Granted
<1>5. history' = <<entry>>
  BY <1>1
<1> HIDE DEF entry
<1>6. Len(history') = Len(history) + 1 /\ history'[Len(history')] = entry
      /\ history' = Append(history, entry)
  BY <1>3, <1>5
<1>7. Log!Fresh(entry.op)
  BY <1>3 DEF Log!Fresh
<1> QED
  BY <1>2, <1>3, <1>4, <1>6, <1>7 DEF Log!Create, Log!Extended

\* The store, with its leases, its clock, crashes and takeovers, implements the fenced
\* log: every step is a step of the log or leaves it unchanged.
THEOREM StoreIsAFencedLog == Spec => FencedLogSpec
<1>1. Init => Log!Init
  BY DEF Init, NoLease, Log!Init
<1>2. IInv /\ [Next]_vars => [Log!Next]_Log!logVars
  <2> SUFFICES ASSUME IInv, [Next]_vars PROVE [Log!Next]_Log!logVars
    OBVIOUS
  <2> USE DEF Log!Next, Log!logVars
  <2>1. ASSUME NEW p \in Process, CreateOwned(p) PROVE Log!Create
    BY <2>1, CreateOpens DEF IInv
  <2>2. ASSUME NEW p \in Process, TakeLease(p) PROVE Log!Advance
    BY <2>2 DEF TakeLease, Granted, RunExists, Log!Advance, IInv, TypeOK, Lease
  <2>3. ASSUME NEW p \in Process, AcquireReleased(p) \/ TakeoverExpired(p) PROVE Log!Advance
    BY <2>2, <2>3 DEF AcquireReleased, TakeoverExpired
  <2>4. ASSUME NEW p \in Process, Renew(p) PROVE UNCHANGED Log!logVars
    BY <2>4 DEF Renew, IInv, TypeOK, Lease
  <2>5. ASSUME NEW p \in Process, Release(p) PROVE Log!Close \/ UNCHANGED Log!logVars
    BY <2>5 DEF Release, IInv, TypeOK, Lease, Log!Close
  <2>6. ASSUME NEW p \in Process, NEW op \in Op, NEW content \in Mutation,
               Commit(p, op, content)
        PROVE  Log!Write
    BY <2>6, CommitWrites DEF IInv
  <2>7. \/ UNCHANGED <<lease, history>>
        \/ \E p \in Process : \/ CreateOwned(p) \/ AcquireReleased(p) \/ TakeoverExpired(p)
                              \/ Renew(p) \/ Release(p)
        \/ \E p \in Process, op \in Op, content \in Mutation : Commit(p, op, content)
    BY DEF Next, ProcessNext, vars, InspectLease, ObserveOwner, Refused, StopSession, Crash,
           SetClock, SubmitControl
  <2>8. ASSUME UNCHANGED <<lease, history>> PROVE UNCHANGED Log!logVars
    BY <2>8
  <2> HIDE DEF Log!logVars
  <2> QED
    BY <2>1, <2>3, <2>4, <2>5, <2>6, <2>7, <2>8
<1> QED
  BY <1>1, <1>2, IInvHolds, PTL DEF Spec, FencedLogSpec, Log!Spec

-----------------------------------------------------------------------------
\* The tables of a run (RunHistory).

HistoryTyped ==
    /\ committed \in Seq(Row) /\ committed # <<>>
    /\ DOMAIN events \subseteq 1..Len(committed) /\ \A i \in DOMAIN events : events[i] \in Row
    /\ DOMAIN integrity \subseteq 1..Len(committed)
    /\ known \in [Session -> Seq(Row)] /\ damage \in Nat /\ forked \in BOOLEAN

\* A digest is damaged, or that of what was acknowledged up to its event.
DigestsAreOwn ==
    \A i \in DOMAIN integrity : integrity[i] = <<>> \/ integrity[i] = SubSeq(committed, 1, i)

EventsWhole ==
    DOMAIN events = 1..Len(committed) /\ \A i \in 1..Len(committed) : events[i] = committed[i]

DigestsWhole ==
    /\ DOMAIN integrity = 1..Len(committed)
    /\ \A i \in 1..Len(committed) : integrity[i] = SubSeq(committed, 1, i)

OneTableWhole ==
    /\ damage = 0 => EventsWhole /\ DigestsWhole
    /\ damage <= 1 => EventsWhole \/ DigestsWhole

\* What a session folded was acknowledged.
SeenIsPrefix ==
    damage <= 1 =>
        \A s \in Session :
            /\ Len(known[s]) <= Len(committed)
            /\ \A i \in 1..Len(known[s]) : known[s][i] = committed[i]

HistoryInv == HistoryTyped /\ DigestsAreOwn /\ OneTableWhole /\ SeenIsPrefix /\ CommitExtendsWhatItSaw

-----------------------------------------------------------------------------
\* The first rows of a history.
LEMMA Prefix ==
    ASSUME NEW h \in Seq(Row), NEW i \in 0..Len(h)
    PROVE  /\ SubSeq(h, 1, i) \in Seq(Row) /\ Len(SubSeq(h, 1, i)) = i
           /\ \A j \in 1..i : SubSeq(h, 1, i)[j] = h[j]
<1>1. \A j \in 1..i : h[j] \in Row
  BY ElementOfSeq
<1> QED  BY <1>1, SubSeqProperties

\* They are the same after more rows came.
LEMMA PrefixExtended ==
    ASSUME NEW h \in Seq(Row), NEW b \in Seq(Row), NEW i \in 0..Len(h)
    PROVE  SubSeq(h \o b, 1, i) = SubSeq(h, 1, i)
<1>1. /\ h \o b \in Seq(Row) /\ Len(h \o b) = Len(h) + Len(b)
      /\ \A j \in 1..Len(h) : (h \o b)[j] = h[j]
  BY ConcatProperties
<1>2. i \in 0..Len(h \o b)
  BY <1>1
<1>3. /\ SubSeq(h \o b, 1, i) \in Seq(Row) /\ Len(SubSeq(h \o b, 1, i)) = i
      /\ \A j \in 1..i : SubSeq(h \o b, 1, i)[j] = (h \o b)[j]
  BY <1>1, <1>2, Prefix
<1>4. /\ SubSeq(h, 1, i) \in Seq(Row) /\ Len(SubSeq(h, 1, i)) = i
      /\ \A j \in 1..i : SubSeq(h, 1, i)[j] = h[j]
  BY Prefix
<1>5. \A j \in 1..i : SubSeq(h \o b, 1, i)[j] = SubSeq(h, 1, i)[j]
  BY <1>1, <1>3, <1>4
<1> QED  BY <1>3, <1>4, <1>5, SeqEqual

\* What a transaction reads when the rows have no gap.
LEMMA HistoryRead ==
    ASSUME HistoryInv, InSequence
    PROVE  /\ History \in Seq(Row) /\ Len(History) \in Nat /\ Len(History) <= Len(committed)
           /\ DOMAIN events = 1..Len(History)
           /\ \A i \in 1..Len(History) : History[i] = events[i]
<1> DEFINE n == Cardinality(DOMAIN events)
           m == Len(committed)
<1>1. m \in Nat /\ DOMAIN events \subseteq 1..m /\ \A i \in DOMAIN events : events[i] \in Row
  BY DEF HistoryInv, HistoryTyped
<1>2. IsFiniteSet(1..m) /\ Cardinality(1..m) = m
  <2> HIDE DEF m
  <2>1. 1 \in Int /\ m \in Int /\ (IF 1 > m THEN 0 ELSE m - 1 + 1) = m
    BY <1>1
  <2> QED  BY <2>1, FS_Interval
<1>3. n \in Nat /\ n <= m
  <2> DEFINE D == DOMAIN events
  <2>1. D \in SUBSET (1..m)
    BY <1>1
  <2> HIDE DEF D, m
  <2>2. IsFiniteSet(D) /\ Cardinality(D) <= Cardinality(1..m)
    BY <1>2, <2>1, FS_Subset
  <2>3. Cardinality(D) \in Nat
    BY <2>2, FS_CardinalityType
  <2> QED  BY <1>2, <2>2, <2>3 DEF D
<1>4. DOMAIN events = 1..n
  BY DEF InSequence
<1> HIDE DEF n, m
<1>5. History = [i \in 1..n |-> events[i]]
  BY <1>4 DEF History
<1>6. History \in Seq(Row) /\ Len(History) = n
  BY <1>1, <1>3, <1>4, <1>5
<1> QED  BY <1>3, <1>4, <1>5, <1>6 DEF m

\* With the events whole it is what was acknowledged.
LEMMA WholeEventsRead ==
    ASSUME HistoryInv, InSequence, EventsWhole
    PROVE  History = committed
<1>1. committed \in Seq(Row) /\ Len(committed) \in Nat
  BY DEF HistoryInv, HistoryTyped
<1>2. /\ History \in Seq(Row) /\ Len(History) \in Nat /\ DOMAIN events = 1..Len(History)
      /\ \A i \in 1..Len(History) : History[i] = events[i]
  BY HistoryRead
<1>3. Len(History) = Len(committed)
  BY <1>1, <1>2 DEF EventsWhole
<1> QED  BY <1>1, <1>2, <1>3, SeqEqual DEF EventsWhole

\* The digest of the last event covers all of them.
LEMMA CoveredRead ==
    ASSUME HistoryInv, InSequence, Covered, DOMAIN integrity # {}
    PROVE  History = SubSeq(committed, 1, Len(History))
<1> DEFINE k == Len(History)
<1>1. /\ History \in Seq(Row) /\ k \in Nat /\ k <= Len(committed)
      /\ DOMAIN events = 1..k
  BY HistoryRead
<1> HIDE DEF k
<1>2. PICK i \in DOMAIN integrity : i \in 1..k
  BY <1>1 DEF Covered
<1>3. k \in DOMAIN integrity
  <2>1. k \in DOMAIN events
    BY <1>1, <1>2
  <2>2. i < k => k \in DOMAIN integrity
    BY <2>1 DEF Covered
  <2>3. i < k \/ i = k
    BY <1>1, <1>2
  <2> QED  BY <2>2, <2>3
<1>4. integrity[k] = SubSeq(History, 1, k)
  BY <1>3 DEF Covered
<1>5. SubSeq(History, 1, k) = History
  <2>1. k \in 0..Len(History)
    BY <1>1 DEF k
  <2>2. /\ SubSeq(History, 1, k) \in Seq(Row) /\ Len(SubSeq(History, 1, k)) = k
        /\ \A j \in 1..k : SubSeq(History, 1, k)[j] = History[j]
    BY <1>1, <2>1, Prefix
  <2> QED  BY <1>1, <2>2, SeqEqual DEF k
<1>6. History # <<>>
  BY <1>1, <1>2, EmptySeq DEF k
<1> QED  BY <1>3, <1>4, <1>5, <1>6 DEF HistoryInv, DigestsAreOwn, k

\* One damaged row is not believed.
LEMMA TrueRead ==
    ASSUME HistoryInv, Readable, damage <= 1
    PROVE  History = committed
<1>1. CASE EventsWhole
  BY <1>1, WholeEventsRead DEF Readable
<1>2. CASE DigestsWhole
  <2>1. committed \in Seq(Row) /\ Len(committed) \in Nat /\ Len(committed) > 0
    BY EmptySeq DEF HistoryInv, HistoryTyped
  <2>2. /\ History \in Seq(Row) /\ Len(History) \in Nat /\ Len(History) <= Len(committed)
        /\ DOMAIN events = 1..Len(History)
    BY HistoryRead DEF Readable
  <2>3. Len(committed) \in 1..Len(History)
    <3>1. Len(committed) \in DOMAIN integrity
      BY <1>2, <2>1 DEF DigestsWhole
    <3> QED  BY <3>1, <2>2 DEF Readable, Covered
  <2>4. Len(History) = Len(committed)
    BY <2>1, <2>2, <2>3
  <2>5. DOMAIN integrity # {}
    BY <1>2, <2>1 DEF DigestsWhole
  <2>6. History = SubSeq(committed, 1, Len(committed))
    BY <2>4, <2>5, CoveredRead DEF Readable
  <2>7. \A j \in 1..Len(committed) : SubSeq(committed, 1, Len(committed))[j] = committed[j]
    BY <2>1, Prefix
  <2> QED  BY <2>1, <2>2, <2>4, <2>6, <2>7, SeqEqual
<1> QED  BY <1>1, <1>2 DEF HistoryInv, OneTableWhole

-----------------------------------------------------------------------------
\* createOwned acknowledges the one event it stores.
LEMMA HistoryInitially == HistoryInit => HistoryInv
<1> SUFFICES ASSUME HistoryInit PROVE HistoryInv
  OBVIOUS
<1>1. /\ committed = <<"created">> /\ events = committed /\ integrity = <<committed>>
      /\ damage = 0 /\ forked = FALSE /\ known = [s \in Session |-> <<>>]
  BY DEF HistoryInit
<1>2. /\ committed \in Seq(Row) /\ committed # <<>> /\ Len(committed) = 1
      /\ committed[1] = "created"
  BY <1>1 DEF Row, EventContent
<1>3. SubSeq(committed, 1, 1) = committed
  <2>1. 1 \in 0..Len(committed)
    BY <1>2
  <2>2. /\ SubSeq(committed, 1, 1) \in Seq(Row) /\ Len(SubSeq(committed, 1, 1)) = 1
        /\ \A j \in 1..1 : SubSeq(committed, 1, 1)[j] = committed[j]
    BY <1>2, <2>1, Prefix
  <2> QED  BY <1>2, <2>2, SeqEqual
<1>4. DOMAIN integrity = 1..1 /\ integrity[1] = committed
  BY <1>1
<1>5. DOMAIN events = 1..1
  BY <1>1
<1>6. HistoryTyped
  <2>1. <<>> \in Seq(Row)
    BY EmptySeq
  <2>2. known \in [Session -> Seq(Row)] /\ damage \in Nat /\ forked \in BOOLEAN
    BY <1>1, <2>1
  <2>3. events[1] \in Row
    BY <1>1, <1>2 DEF Row, EventContent
  <2>4. DOMAIN events = {1} /\ DOMAIN integrity = {1} /\ 1..Len(committed) = {1}
    BY <1>2, <1>4, <1>5
  <2>5. \A i \in DOMAIN events : events[i] \in Row
    BY <2>3, <2>4
  <2> QED  BY <1>2, <2>2, <2>4, <2>5 DEF HistoryTyped
<1>7. EventsWhole /\ DigestsWhole
  <2>1. 1..Len(committed) = 1..1 /\ \A i \in 1..1 : i = 1
    BY <1>2
  <2>2. EventsWhole
    BY <1>1, <1>5, <2>1 DEF EventsWhole
  <2>3. DigestsWhole
    BY <1>3, <1>4, <2>1 DEF DigestsWhole
  <2> QED  BY <2>2, <2>3
<1>8. DigestsAreOwn
  BY <1>3, <1>4 DEF DigestsAreOwn
<1>9. SeenIsPrefix
  BY <1>1, <1>2 DEF SeenIsPrefix
<1> QED  BY <1>1, <1>6, <1>7, <1>8, <1>9 DEF HistoryInv, OneTableWhole, CommitExtendsWhatItSaw

\* Only what a session saw changes, and it is nothing or all that was acknowledged.
LEMMA SeenStep ==
    ASSUME HistoryInv, NEW s \in Session, NEW h \in Seq(Row),
           damage <= 1 => h = <<>> \/ h = committed,
           known' = [known EXCEPT ![s] = h],
           UNCHANGED <<events, integrity, committed, forked, damage>>
    PROVE  HistoryInv'
<1>1. HistoryTyped'
  BY DEF HistoryInv, HistoryTyped
<1>2. DigestsAreOwn' /\ OneTableWhole' /\ CommitExtendsWhatItSaw'
  BY DEF HistoryInv, DigestsAreOwn, OneTableWhole, EventsWhole, DigestsWhole, CommitExtendsWhatItSaw
<1>3. SeenIsPrefix'
  <2> SUFFICES ASSUME damage <= 1, NEW t \in Session
               PROVE  /\ Len(known'[t]) <= Len(committed)
                      /\ \A i \in 1..Len(known'[t]) : known'[t][i] = committed[i]
    BY DEF SeenIsPrefix
  <2>1. committed \in Seq(Row) /\ Len(committed) \in Nat /\ known \in [Session -> Seq(Row)]
    BY DEF HistoryInv, HistoryTyped
  <2>2. CASE t = s
    <3>1. known'[t] = h
      BY <2>1, <2>2
    <3>2. CASE h = <<>>
      BY <2>1, <3>1, <3>2
    <3>3. CASE h = committed
      BY <2>1, <3>1, <3>3
    <3> QED  BY <3>2, <3>3
  <2>3. CASE t # s
    BY <2>1, <2>3 DEF HistoryInv, SeenIsPrefix
  <2> QED  BY <2>2, <2>3
<1> QED  BY <1>1, <1>2, <1>3 DEF HistoryInv

\* A session that loads believes what was read.
LEMMA LoadStep ==
    ASSUME HistoryInv, NEW s \in Session, Load(s)
    PROVE  HistoryInv'
<1>1. Readable /\ known' = [known EXCEPT ![s] = History]
  BY DEF Load
<1>2. History \in Seq(Row)
  BY <1>1, HistoryRead DEF Readable
<1>3. damage <= 1 => History = committed
  BY <1>1, TrueRead
<1> HIDE DEF History
<1> QED  BY <1>1, <1>2, <1>3, SeenStep DEF Load, tables

\* A refused session has folded nothing any more.
LEMMA CommitFailsStep ==
    ASSUME HistoryInv, NEW s \in Session, CommitFails(s)
    PROVE  HistoryInv'
<1>1. <<>> \in Seq(Row)
  BY EmptySeq
<1>2. known' = [known EXCEPT ![s] = <<>>]
  BY DEF CommitFails
<1> QED  BY <1>1, <1>2, SeenStep DEF CommitFails, tables

\* The first damaged row leaves the other table whole.
LEMMA DamageStep ==
    ASSUME HistoryInv, Damage
    PROVE  HistoryInv'
<1>1. /\ damage \in Nat /\ damage' = damage + 1
      /\ known' = known /\ committed' = committed /\ forked' = forked
  BY DEF HistoryInv, HistoryTyped, Damage
<1>2. SeenIsPrefix' /\ CommitExtendsWhatItSaw'
  BY <1>1 DEF HistoryInv, SeenIsPrefix, CommitExtendsWhatItSaw
<1>3. damage' <= 1 => EventsWhole /\ DigestsWhole
  BY <1>1 DEF HistoryInv, OneTableWhole
<1>4. damage' # 0
  BY <1>1
<1>5. CASE DamageEvents
  <2>1. integrity' = integrity
    BY <1>5 DEF DamageEvents
  <2>2. DOMAIN events' \subseteq DOMAIN events /\ \A i \in DOMAIN events' : events'[i] \in Row
    BY <1>5 DEF DamageEvents, Lost, HistoryInv, HistoryTyped
  <2>3. HistoryTyped'
    BY <1>1, <2>1, <2>2 DEF HistoryInv, HistoryTyped
  <2>4. DigestsAreOwn' /\ (DigestsWhole => DigestsWhole')
    BY <1>1, <2>1 DEF HistoryInv, DigestsAreOwn, DigestsWhole
  <2> QED  BY <1>2, <1>3, <1>4, <2>3, <2>4 DEF HistoryInv, OneTableWhole
<1>6. CASE DamageIntegrity
  <2>1. events' = events
    BY <1>6 DEF DamageIntegrity
  <2>2. /\ DOMAIN integrity' \subseteq DOMAIN integrity
        /\ \A i \in DOMAIN integrity' : integrity'[i] \in {integrity[i], <<>>}
    BY <1>6 DEF DamageIntegrity, Lost
  <2>3. HistoryTyped'
    BY <1>1, <2>1, <2>2 DEF HistoryInv, HistoryTyped
  <2>4. DigestsAreOwn' /\ (EventsWhole => EventsWhole')
    BY <1>1, <2>1, <2>2 DEF HistoryInv, DigestsAreOwn, EventsWhole
  <2> QED  BY <1>2, <1>3, <1>4, <2>3, <2>4 DEF HistoryInv, OneTableWhole
<1>7. CASE DamageSnapshots
  <2>1. events' = events /\ integrity' = integrity
    BY <1>7 DEF DamageSnapshots
  <2>2. HistoryTyped' /\ DigestsAreOwn' /\ (EventsWhole => EventsWhole')
    BY <1>1, <2>1 DEF HistoryInv, HistoryTyped, DigestsAreOwn, EventsWhole
  <2> QED  BY <1>2, <1>3, <1>4, <2>2 DEF HistoryInv, OneTableWhole
<1> QED  BY <1>5, <1>6, <1>7 DEF Damage

\* Both tables after a commit: the events are whole, and the digests as whole as they were.
LEMMA TablesExtended ==
    ASSUME HistoryInv, Readable, NEW b \in Seq(Row), Len(b) > 0,
           events' = Extended(events, Len(History) + 1, b),
           integrity' = Extended(integrity, Len(History) + 1, Digests(History \o b, Len(History) + 1)),
           committed' = History \o b
    PROVE  /\ EventsWhole' /\ DigestsAreOwn'
           /\ DOMAIN integrity' \subseteq 1..Len(committed')
           /\ damage = 0 => DigestsWhole'
<1> DEFINE h == History
           k == Len(History)
           whole == h \o b
           n == Len(b)
<1>1. /\ h \in Seq(Row) /\ k \in Nat /\ DOMAIN events = 1..k
      /\ \A i \in 1..k : h[i] = events[i]
  BY HistoryRead DEF Readable
<1>2. n \in Nat /\ n > 0 /\ DOMAIN b = 1..n
  BY LenProperties
<1>3. /\ whole \in Seq(Row) /\ Len(whole) = k + n
      /\ \A i \in 1..(k + n) : whole[i] = IF i <= k THEN h[i] ELSE b[i - k]
  BY <1>1, <1>2, ConcatProperties
<1>4. committed' = whole
  OBVIOUS
<1>5. DOMAIN integrity \subseteq 1..k /\ \A i \in DOMAIN integrity : integrity[i] = SubSeq(h, 1, i)
  BY <1>1 DEF Readable, Covered
<1>6. \A i \in 1..k : SubSeq(whole, 1, i) = SubSeq(h, 1, i)
  BY <1>1, PrefixExtended
<1>7. events' = [i \in (1..k) \cup ((k + 1)..(k + 1 + n - 1)) |->
                   IF i \in 1..k THEN events[i] ELSE b[i - (k + 1) + 1]]
  BY <1>1 DEF Extended
<1>8. integrity' = [i \in DOMAIN integrity \cup ((k + 1)..(k + 1 + n - 1)) |->
                      IF i \in DOMAIN integrity THEN integrity[i]
                      ELSE [j \in 1..n |-> SubSeq(whole, 1, k + 1 + j - 1)][i - (k + 1) + 1]]
  <2> DEFINE r == [j \in 1..n |-> SubSeq(whole, 1, k + 1 + j - 1)]
  <2>1. Len(r) = n
    BY <1>2
  <2>2. Digests(whole, k + 1) = [j \in 1..(Len(whole) - (k + 1) + 1) |-> SubSeq(whole, 1, k + 1 + j - 1)]
    BY DEF Digests
  <2>3. Len(whole) - (k + 1) + 1 = n
    <3> HIDE DEF k, n, whole
    <3> QED  BY <1>1, <1>2, <1>3
  <2>4. Digests(whole, k + 1) = r
    <3> HIDE DEF k, n, whole
    <3> QED  BY <2>2, <2>3
  <2>5. integrity' = Extended(integrity, k + 1, r)
    BY <2>4
  <2> HIDE DEF r
  <2>6. integrity' = [i \in DOMAIN integrity \cup ((k + 1)..(k + 1 + n - 1)) |->
                        IF i \in DOMAIN integrity THEN integrity[i] ELSE r[i - (k + 1) + 1]]
    BY <2>1, <2>5 DEF Extended
  <2> QED  BY <2>6 DEF r
<1> HIDE DEF h, k, whole, n
<1>8a. (1..k) \cup ((k + 1)..(k + n)) = 1..(k + n) /\ k + 1 + n - 1 = k + n
  BY <1>1, <1>2
<1>9. EventsWhole'
  <2>1. DOMAIN events' = 1..(k + n)
    BY <1>7, <1>8a
  <2>2. \A i \in 1..(k + n) : events'[i] = whole[i]
    <3> SUFFICES ASSUME NEW i \in 1..(k + n) PROVE events'[i] = whole[i]
      OBVIOUS
    <3>1. CASE i <= k
      <4>1. i \in 1..k
        BY <1>1, <3>1
      <4>2. events'[i] = events[i]
        BY <1>7, <4>1
      <4> QED  BY <1>1, <1>3, <3>1, <4>1, <4>2
    <3>2. CASE ~(i <= k)
      <4>1. /\ i \notin 1..k /\ i \in (k + 1)..(k + 1 + n - 1)
            /\ i - (k + 1) + 1 = i - k
        BY <1>1, <1>2, <3>2
      <4>2. events'[i] = b[i - k]
        BY <1>7, <4>1
      <4> QED  BY <1>3, <3>2, <4>2
    <3> QED  BY <3>1, <3>2
  <2> QED  BY <1>3, <1>4, <2>1, <2>2 DEF EventsWhole
<1>10. DOMAIN integrity' = DOMAIN integrity \cup ((k + 1)..(k + n))
  BY <1>8, <1>8a
<1>11. \A i \in DOMAIN integrity' : integrity'[i] = SubSeq(whole, 1, i)
  <2> SUFFICES ASSUME NEW i \in DOMAIN integrity' PROVE integrity'[i] = SubSeq(whole, 1, i)
    OBVIOUS
  <2>1. CASE i \in DOMAIN integrity
    <3>1. integrity'[i] = integrity[i]
      BY <1>8, <2>1
    <3> QED  BY <1>5, <1>6, <2>1, <3>1
  <2>2. CASE i \notin DOMAIN integrity
    <3>1. i \in (k + 1)..(k + n)
      BY <1>10, <2>2
    <3>2. /\ i - (k + 1) + 1 \in 1..n
          /\ k + 1 + (i - (k + 1) + 1) - 1 = i
      BY <1>1, <1>2, <3>1
    <3>3. integrity'[i] = [j \in 1..n |-> SubSeq(whole, 1, k + 1 + j - 1)][i - (k + 1) + 1]
      BY <1>8, <1>10, <2>2
    <3> QED  BY <3>2, <3>3
  <2> QED  BY <2>1, <2>2
<1>12. DOMAIN integrity' \subseteq 1..Len(committed')
  <2>1. DOMAIN integrity' \subseteq (1..k) \cup ((k + 1)..(k + n))
    BY <1>5, <1>10
  <2> QED  BY <1>3, <1>4, <1>8a, <2>1
<1>13. DigestsAreOwn'
  BY <1>4, <1>11 DEF DigestsAreOwn
<1>14. ASSUME damage = 0 PROVE DigestsWhole'
  <2>1. DOMAIN integrity = 1..Len(committed) /\ h = committed
    BY <1>14, TrueRead DEF HistoryInv, OneTableWhole, DigestsWhole, h
  <2>2. DOMAIN integrity = 1..k
    BY <2>1 DEF h, k
  <2>3. DOMAIN integrity' = 1..(k + n)
    BY <1>8a, <1>10, <2>2
  <2> QED  BY <1>3, <1>4, <1>11, <2>3 DEF DigestsWhole
<1> QED  BY <1>9, <1>12, <1>13, <1>14

\* A commit that the sequence admits is that of a session which folded the stored history.
LEMMA CommitStep ==
    ASSUME HistoryInv, NEW s \in Session, CommitBatch(s)
    PROVE  HistoryInv'
<1>0. PICK b \in Batch, snapshot \in BOOLEAN :
         /\ Accepted(s, b, snapshot)
         /\ LET next == Len(History) + 1
                whole == History \o b
            IN /\ events' = Extended(events, next, b)
               /\ integrity' = Extended(integrity, next, Digests(whole, next))
               /\ committed' = whole
               /\ known' = [known EXCEPT ![s] = @ \o b]
         /\ forked' = (forked \/ known[s] # History)
         /\ damage' = damage
  BY DEF CommitBatch
<1>1. /\ Readable /\ Expected(s)
      /\ events' = Extended(events, Len(History) + 1, b)
      /\ integrity' = Extended(integrity, Len(History) + 1, Digests(History \o b, Len(History) + 1))
      /\ committed' = History \o b
      /\ known' = [known EXCEPT ![s] = @ \o b]
      /\ forked' = (forked \/ known[s] # History)
      /\ damage' = damage
  BY <1>0 DEF Accepted
<1>2. b \in Seq(Row) /\ Len(b) \in Nat /\ Len(b) > 0
  <2>1. EventContent \subseteq Row
    BY DEF Row
  <2>2. ASSUME NEW c \in EventContent, b = <<c>> PROVE b \in Seq(Row) /\ Len(b) > 0
    BY <2>1, <2>2
  <2>3. ASSUME NEW c \in EventContent, NEW d \in EventContent, b = <<c, d>> PROVE b \in Seq(Row) /\ Len(b) > 0
    BY <2>1, <2>3
  <2>4. CASE b \in {<<c>> : c \in EventContent}
    <3>1. PICK c \in EventContent : b = <<c>>
      BY <2>4
    <3> QED  BY <2>2, <3>1, LenProperties
  <2>5. CASE b \in {<<c, d>> : c, d \in EventContent}
    <3>1. PICK c \in EventContent, d \in EventContent : b = <<c, d>>
      BY <2>5
    <3> QED  BY <2>3, <3>1, LenProperties
  <2>6. b \in {<<c>> : c \in EventContent} \/ b \in {<<c, d>> : c, d \in EventContent}
    BY <1>0 DEF Batch
  <2> QED  BY <2>4, <2>5, <2>6
<1>3. /\ EventsWhole' /\ DigestsAreOwn'
      /\ DOMAIN integrity' \subseteq 1..Len(committed')
      /\ damage = 0 => DigestsWhole'
  BY <1>1, <1>2, TablesExtended
<1> DEFINE h == History
<1>4. h \in Seq(Row) /\ Len(h) \in Nat
  BY <1>1, HistoryRead DEF Readable
<1>5. /\ committed' = h \o b /\ known' = [known EXCEPT ![s] = @ \o b]
      /\ forked' = (forked \/ known[s] # h) /\ damage' = damage
      /\ Len(h) = Len(known[s])
  BY <1>1 DEF Expected
<1>6. damage <= 1 => h = committed
  BY <1>1, TrueRead
<1> HIDE DEF h
<1>7. /\ h \o b \in Seq(Row) /\ Len(h \o b) = Len(h) + Len(b)
      /\ \A i \in 1..Len(h) : (h \o b)[i] = h[i]
  BY <1>2, <1>4, ConcatProperties
<1>8. known \in [Session -> Seq(Row)] /\ damage \in Nat /\ forked \in BOOLEAN
  BY DEF HistoryInv, HistoryTyped
<1>9. damage <= 1 => known[s] = h
  <2> SUFFICES ASSUME damage <= 1 PROVE known[s] = h
    OBVIOUS
  <2>1. \A i \in 1..Len(known[s]) : known[s][i] = h[i]
    BY <1>6 DEF HistoryInv, SeenIsPrefix
  <2> QED  BY <1>4, <1>5, <1>8, <2>1, SeqEqual
<1>10. HistoryTyped'
  <2>1. committed' \in Seq(Row) /\ committed' # <<>>
    <3>1. Len(h \o b) > 0
      BY <1>2, <1>4, <1>7
    <3> QED  BY <1>5, <1>7, <3>1, EmptySeq
  <2>2. \A i \in 1..Len(committed') : committed'[i] \in Row
    BY <2>1, ElementOfSeq
  <2>3. known[s] \o b \in Seq(Row)
    BY <1>2, <1>8, ConcatProperties
  <2>4. known' \in [Session -> Seq(Row)]
    BY <1>5, <1>8, <2>3
  <2>5. DOMAIN events' = 1..Len(committed') /\ \A i \in 1..Len(committed') : events'[i] = committed'[i]
    BY <1>3 DEF EventsWhole
  <2>6. \A i \in DOMAIN events' : events'[i] \in Row
    BY <2>2, <2>5
  <2>7. damage' \in Nat /\ forked' \in BOOLEAN
    BY <1>5, <1>8
  <2> QED  BY <1>3, <2>1, <2>4, <2>5, <2>6, <2>7 DEF HistoryTyped
<1>11. OneTableWhole'
  BY <1>3, <1>5 DEF OneTableWhole
<1>12. SeenIsPrefix'
  <2> SUFFICES ASSUME damage <= 1, NEW t \in Session
               PROVE  /\ Len(known'[t]) <= Len(committed')
                      /\ \A i \in 1..Len(known'[t]) : known'[t][i] = committed'[i]
    BY <1>5 DEF SeenIsPrefix
  <2>1. CASE t = s
    <3>1. known'[t] = committed'
      BY <1>5, <1>8, <1>9, <2>1
    <3>2. Len(committed') \in Nat
      BY <1>5, <1>7, LenProperties
    <3> QED  BY <3>1, <3>2
  <2>2. CASE t # s
    <3>1. known'[t] = known[t]
      BY <1>5, <1>8, <2>2
    <3>2. Len(known[t]) <= Len(h) /\ \A i \in 1..Len(known[t]) : known[t][i] = h[i]
      BY <1>6 DEF HistoryInv, SeenIsPrefix
    <3>3. Len(known[t]) \in Nat
      BY <1>8
    <3>4. \A i \in 1..Len(known[t]) : i \in 1..Len(h)
      BY <1>4, <3>2, <3>3
    <3>5. \A i \in 1..Len(known[t]) : known[t][i] = (h \o b)[i]
      BY <1>7, <3>2, <3>4
    <3>6. Len(known[t]) <= Len(h \o b)
      BY <1>2, <1>4, <1>7, <3>2, <3>3
    <3> QED  BY <1>5, <3>1, <3>5, <3>6
  <2> QED  BY <2>1, <2>2
<1>13. CommitExtendsWhatItSaw'
  BY <1>5, <1>8, <1>9 DEF HistoryInv, CommitExtendsWhatItSaw
<1> QED  BY <1>3, <1>10, <1>11, <1>12, <1>13 DEF HistoryInv

-----------------------------------------------------------------------------
\* Every load, commit, refused commit and damaged row keeps the invariant.
LEMMA HistoryInductive == HistoryInv /\ [HistoryNext]_historyVars => HistoryInv'
<1> SUFFICES ASSUME HistoryInv, [HistoryNext]_historyVars PROVE HistoryInv'
  OBVIOUS
<1>1. ASSUME NEW s \in Session, Load(s) PROVE HistoryInv'
  BY <1>1, LoadStep
<1>2. ASSUME NEW s \in Session, CommitBatch(s) PROVE HistoryInv'
  BY <1>2, CommitStep
<1>3. ASSUME NEW s \in Session, CommitFails(s) PROVE HistoryInv'
  BY <1>3, CommitFailsStep
<1>4. CASE Damage
  BY <1>4, DamageStep
<1>5. CASE UNCHANGED historyVars
  BY <1>5 DEF historyVars, tables, HistoryInv, HistoryTyped, DigestsAreOwn, OneTableWhole, EventsWhole, DigestsWhole,
              SeenIsPrefix, CommitExtendsWhatItSaw
<1> QED  BY <1>1, <1>2, <1>3, <1>4, <1>5 DEF HistoryNext

\* IInv holds in every state.
LEMMA HistoryInvariance == HistorySpec => []HistoryInv
<1> QED  BY HistoryInitially, HistoryInductive, PTL DEF HistorySpec

\* readAuthoritativeRun: a run that can be read is the run that was acknowledged, unless two rows
\* were damaged.
THEOREM ReadRunIsTrue == HistorySpec => []LoadTellsTheTruth
<1>1. HistoryInv => LoadTellsTheTruth
  <2> SUFFICES ASSUME HistoryInv, Readable, History # committed
               PROVE  damage > 1 /\ (History = SubSeq(committed, 1, Len(History)) \/ DOMAIN integrity = {})
    BY DEF LoadTellsTheTruth
  <2>1. damage \in Nat /\ ~(damage <= 1)
    BY TrueRead DEF HistoryInv, HistoryTyped
  <2>2. DOMAIN integrity # {} => History = SubSeq(committed, 1, Len(History))
    BY CoveredRead DEF Readable
  <2> QED  BY <2>1, <2>2
<1> QED  BY <1>1, HistoryInvariance, PTL

\* commit, OwnedRunSession.commit: a session extends only the history it folded, unless two rows
\* were damaged.
THEOREM CommitsExtendWhatTheySaw == HistorySpec => []CommitExtendsWhatItSaw
<1>1. HistoryInv => CommitExtendsWhatItSaw
  BY DEF HistoryInv
<1> QED  BY <1>1, HistoryInvariance, PTL

-----------------------------------------------------------------------------
\* Numbers are well founded.
LEMMA LeastNumber ==
    ASSUME NEW S \in SUBSET Nat, S # {}
    PROVE  \E n \in S : \A m \in S : n <= m
<1>1. PICK n \in S : \A m \in S : <<m, n>> \notin OpToRel(<, Nat)
  BY WFMin, NatLessThanWellFounded, Zenon
<1>2. \A m \in S : ~(m < n)
  BY <1>1, Zenon DEF OpToRel
<1> QED  BY <1>2

\* Of numbers below a bound one is the greatest.
LEMMA GreatestNumber ==
    ASSUME NEW S \in SUBSET Nat, S # {}, NEW bound \in Nat, \A n \in S : n <= bound
    PROVE  \E n \in S : \A m \in S : m <= n
<1> DEFINE T == {k \in Nat : \A m \in S : m <= k}
<1>1. T \in SUBSET Nat /\ bound \in T
  OBVIOUS
<1>2. PICK k \in T : \A j \in T : k <= j
  <2> HIDE DEF T
  <2> QED  BY <1>1, LeastNumber
<1>3. CASE k \in S
  BY <1>3
<1>4. CASE k \notin S
  <2>1. \A m \in S : m < k
    BY <1>4
  <2>3. PICK m \in S : m \in Nat
    OBVIOUS
  <2>2. k - 1 \in Nat /\ \A j \in S : j <= k - 1
    BY <2>1, <2>3
  <2> QED  BY <1>2, <2>2
<1> QED  BY <1>3, <1>4

\* The states after each row.
Folding(f, state, rows, n) ==
    f = [i \in 0..n |-> IF i = 0 THEN state ELSE Applied(f[i - 1], rows[i])]

\* There are such states for every history: the least one without could do with one row less.
LEMMA FoldingExists ==
    ASSUME NEW state, NEW rows, NEW n \in Nat
    PROVE  \E f : Folding(f, state, rows, n)
<1> DEFINE T == {k \in Nat : ~ \E f : Folding(f, state, rows, k)}
<1> SUFFICES ASSUME T # {} PROVE FALSE
  OBVIOUS
<1>1. PICK k \in T : \A m \in T : k <= m
  BY LeastNumber
<1>2. CASE k = 0
  <2> DEFINE f == [i \in 0..0 |-> state]
  <2>1. Folding(f, state, rows, 0)
    BY DEF Folding
  <2> QED  BY <1>1, <1>2, <2>1
<1>3. CASE k # 0
  <2>1. k - 1 \in Nat /\ k - 1 \notin T
    BY <1>1, <1>3
  <2>2. PICK g : Folding(g, state, rows, k - 1)
    BY <2>1
  <2> DEFINE f == [i \in 0..k |-> IF i = k THEN Applied(g[k - 1], rows[k]) ELSE g[i]]
  <2>3. Folding(f, state, rows, k)
    <3> SUFFICES ASSUME NEW i \in 0..k
                 PROVE  f[i] = IF i = 0 THEN state ELSE Applied(f[i - 1], rows[i])
      BY DEF Folding
    <3>1. CASE i = k
      <4>1. f[k] = Applied(g[k - 1], rows[k]) /\ k - 1 \in 0..k /\ k - 1 # k
        BY <2>1
      <4>2. f[k - 1] = g[k - 1]
        BY <4>1
      <4> QED  BY <1>3, <3>1, <4>1, <4>2
    <3>2. CASE i # k
      <4>1. i \in 0..(k - 1) /\ f[i] = g[i]
        BY <3>2
      <4>2. g[i] = IF i = 0 THEN state ELSE Applied(g[i - 1], rows[i])
        BY <2>2, <4>1, Zenon DEF Folding
      <4>3. i # 0 => i - 1 \in 0..k /\ i - 1 # k
        BY <4>1
      <4>4. i # 0 => f[i - 1] = g[i - 1]
        BY <4>3
      <4> QED  BY <4>1, <4>2, <4>4
    <3> QED  BY <3>1, <3>2
  <2> QED  BY <1>1, <2>3
<1> QED  BY <1>2, <1>3

\* A fold returns the last of them.
LEMMA FoldedIsLast ==
    ASSUME NEW state, NEW rows, Len(rows) \in Nat
    PROVE  \E f : Folding(f, state, rows, Len(rows)) /\ Folded(state, rows) = f[Len(rows)]
<1> DEFINE f == CHOOSE f : Folding(f, state, rows, Len(rows))
<1>1. Folding(f, state, rows, Len(rows))
  BY FoldingExists, Zenon
<1>2. Folded(state, rows) = f[Len(rows)]
  BY Zenon DEF Folded, Folding
<1> QED BY <1>1, <1>2

\* The rows are those of the longer history after its first k.
Within(rows, n, more, k) == \A i \in 1..n : more[k + i] = rows[i]

\* Rows that agree, from states that agree, lead to states that agree.
LEMMA FoldingsAgree ==
    ASSUME NEW state, NEW rows, NEW n \in Nat, NEW f, Folding(f, state, rows, n),
           NEW more, NEW first, NEW k \in Nat, NEW l \in Nat, NEW g, Folding(g, first, more, l),
           k + n <= l, g[k] = state, Within(rows, n, more, k)
    PROVE  g[k + n] = f[n]
<1> DEFINE T == {i \in Nat : i <= n /\ g[k + i] # f[i]}
<1> SUFFICES ASSUME T # {} PROVE FALSE
  OBVIOUS
<1>1. PICK i \in T : \A j \in T : i <= j
  BY LeastNumber
<1>2. i \in 0..n /\ k + i \in 0..l
  BY <1>1
<1>3. f[i] = IF i = 0 THEN state ELSE Applied(f[i - 1], rows[i])
  BY <1>2, Zenon DEF Folding
<1>4. g[k + i] = IF k + i = 0 THEN first ELSE Applied(g[k + i - 1], more[k + i])
  <2>1. PICK p \in 0..l : p = k + i
    BY <1>2
  <2>2. g[p] = IF p = 0 THEN first ELSE Applied(g[p - 1], more[p])
    BY Zenon DEF Folding
  <2> QED  BY <2>1, <2>2
<1>5. CASE i = 0
  BY <1>1, <1>3, <1>5
<1>6. CASE i # 0
  <2>1. i - 1 \in Nat /\ i - 1 <= n /\ i - 1 \notin T /\ k + (i - 1) = k + i - 1 /\ k + i # 0
    BY <1>1, <1>6
  <2>2. g[k + i - 1] = f[i - 1]
    BY <2>1
  <2>3. more[k + i] = rows[i]
    BY <1>2, <1>6 DEF Within
  <2> QED  BY <1>1, <1>3, <1>4, <1>6, <2>1, <2>2, <2>3
<1> QED  BY <1>5, <1>6

\* The rest of a history.
LEMMA Rest ==
    ASSUME NEW h \in Seq(Row), NEW n \in 0..Len(h)
    PROVE  /\ SubSeq(h, n + 1, Len(h)) \in Seq(Row) /\ Len(SubSeq(h, n + 1, Len(h))) = Len(h) - n
           /\ \A j \in 1..(Len(h) - n) : SubSeq(h, n + 1, Len(h))[j] = h[n + j]
<1>1. \A j \in (n + 1)..Len(h) : h[j] \in Row
  BY ElementOfSeq
<1> QED  BY <1>1, SubSeqProperties

\* Folding the rest over the fold of the first rows is folding all of them.
LEMMA FoldedInParts ==
    ASSUME NEW h \in Seq(Row), NEW n \in 0..Len(h), NEW state
    PROVE  Folded(Folded(state, SubSeq(h, 1, n)), SubSeq(h, n + 1, Len(h))) = Folded(state, h)
<1> DEFINE a == SubSeq(h, 1, n)
           b == SubSeq(h, n + 1, Len(h))
           mid == Folded(state, a)
<1>0. Len(h) \in Nat
  OBVIOUS
<1>1. Len(a) = n /\ (\A j \in 1..n : a[j] = h[j]) /\ n \in Nat
  BY Prefix
<1>2. Len(b) = Len(h) - n /\ Len(b) \in Nat /\ \A j \in 1..Len(b) : b[j] = h[n + j]
  BY Rest
<1> HIDE DEF a, b, mid
<1>3. PICK f : Folding(f, state, h, Len(h)) /\ Folded(state, h) = f[Len(h)]
  BY <1>0, FoldedIsLast
<1>4. PICK g : Folding(g, state, a, n) /\ mid = g[n]
  BY <1>1, FoldedIsLast DEF mid
<1>5. PICK e : Folding(e, mid, b, Len(b)) /\ Folded(mid, b) = e[Len(b)]
  BY <1>2, FoldedIsLast
<1>6. f[0] = state
  <2>1. 0 \in 0..Len(h)
    BY <1>0
  <2> QED  BY <1>3, <2>1, Zenon DEF Folding
<1>7. f[n] = mid
  <2>1. 0 \in Nat /\ 0 + n <= Len(h) /\ 0 + n = n /\ Within(a, n, h, 0)
    BY <1>0, <1>1 DEF Within
  <2>2. f[0 + n] = g[n]
    BY <1>0, <1>1, <1>3, <1>4, <1>6, <2>1, FoldingsAgree
  <2> QED  BY <1>4, <2>1, <2>2
<1>8. f[n + Len(b)] = e[Len(b)]
  <2>1. n + Len(b) <= Len(h)
    BY <1>0, <1>1, <1>2
  <2>2. Within(b, Len(b), h, n)
    BY <1>2 DEF Within
  <2> QED  BY <1>0, <1>1, <1>2, <1>3, <1>5, <1>7, <2>1, <2>2, FoldingsAgree
<1>9. n + Len(b) = Len(h)
  BY <1>0, <1>1, <1>2
<1>10. Folded(mid, b) = Folded(state, h)
  BY <1>3, <1>5, <1>8, <1>9
<1> QED  BY <1>10 DEF a, b, mid

-----------------------------------------------------------------------------
\* A snapshot is kept by the length of the history it covers.
SnapshotsTyped == DOMAIN snapshots \subseteq Nat

\* It is named by what commits, and only lost otherwise.
LEMMA SnapshotsStep == HistoryInv /\ SnapshotsTyped /\ [HistoryNext]_historyVars => SnapshotsTyped'
<1> SUFFICES ASSUME HistoryInv, SnapshotsTyped, [HistoryNext]_historyVars PROVE SnapshotsTyped'
  OBVIOUS
<1>1. ASSUME NEW s \in Session, CommitBatch(s) PROVE SnapshotsTyped'
  <2>1. PICK batch \in Batch, snapshot \in BOOLEAN :
          /\ Accepted(s, batch, snapshot)
          /\ committed' = History \o batch
          /\ snapshots' = IF snapshot
                          THEN [n \in DOMAIN snapshots \cup {Len(History \o batch)} |->
                                  IF n = Len(History \o batch) THEN Snapshot(History \o batch)
                                  ELSE snapshots[n]]
                          ELSE snapshots
    BY <1>1 DEF CommitBatch
  <2>2. committed' \in Seq(Row)
    BY HistoryInductive DEF HistoryInv, HistoryTyped
  <2>3. Len(History \o batch) \in Nat
    BY <2>1, <2>2, LenProperties
  <2> QED  BY <2>1, <2>3 DEF SnapshotsTyped
<1>2. CASE Damage
  BY <1>2 DEF Damage, DamageEvents, DamageIntegrity, DamageSnapshots, Lost, SnapshotsTyped
<1>3. CASE (\E s \in Session : Load(s) \/ CommitFails(s)) \/ UNCHANGED historyVars
  BY <1>3 DEF Load, CommitFails, historyVars, tables, SnapshotsTyped
<1> QED  BY <1>1, <1>2, <1>3 DEF HistoryNext

\* The newest compatible snapshot exists if any is compatible, and any of the prefix it binds is.
LEMMA SelectedSnapshot ==
    ASSUME HistoryInv, SnapshotsTyped
    PROVE  SnapshotIsACache
<1> SUFFICES ASSUME Readable, Selected # 0
             PROVE  /\ snapshots[Selected].state = Replay(SubSeq(History, 1, Selected))
                    /\ \A n \in DOMAIN snapshots \cap (Selected + 1)..Len(History) :
                          snapshots[n] # Snapshot(SubSeq(History, 1, n))
  BY DEF SnapshotIsACache
<1> DEFINE compatible == {n \in DOMAIN snapshots : Compatible(n)}
<1>1. History \in Seq(Row) /\ Len(History) \in Nat
  BY HistoryRead DEF Readable
<1>2. compatible # {} /\ Selected = CHOOSE n \in compatible : \A m \in compatible : m <= n
  BY Zenon DEF Selected
<1>3. compatible \in SUBSET Nat /\ \A n \in compatible : n <= Len(History)
  BY DEF SnapshotsTyped, Compatible
<1>4. Selected \in compatible /\ \A m \in compatible : m <= Selected
  <2> HIDE DEF compatible
  <2>1. \E n \in compatible : \A m \in compatible : m <= n
    BY <1>1, <1>2, <1>3, GreatestNumber
  <2> QED  BY <1>2, <2>1, Zenon
<1>5. snapshots[Selected].state = Replay(SubSeq(History, 1, Selected))
  BY <1>4 DEF Compatible, Snapshot
<1>6. ASSUME NEW n \in DOMAIN snapshots, n \in (Selected + 1)..Len(History),
             snapshots[n] = Snapshot(SubSeq(History, 1, n))
      PROVE  FALSE
  <2>1. n \in Nat /\ n <= Len(History) /\ n > Selected
    BY <1>1, <1>3, <1>4, <1>6 DEF SnapshotsTyped
  <2>2. /\ snapshots[n].sound /\ snapshots[n].prefix = SubSeq(History, 1, n)
        /\ snapshots[n].state = Folded(Start, SubSeq(History, 1, n))
    BY <1>6 DEF Snapshot, Replay
  <2>3. Folded(snapshots[n].state, SubSeq(History, n + 1, Len(History))) = Replay(History)
    BY <1>1, <2>1, <2>2, FoldedInParts DEF Replay
  <2>4. n \in compatible
    BY <1>6, <2>1, <2>2, <2>3 DEF Compatible
  <2> QED  BY <1>3, <1>4, <2>1, <2>4
<1> QED  BY <1>5, <1>6

\* selectSnapshot: whatever happens to the rows, a snapshot only saves the replay of what it covers,
\* and none that would is passed over.
THEOREM SnapshotsAreACache == HistorySpec => []SnapshotIsACache
<1>1. HistoryInit => SnapshotsTyped
  BY DEF HistoryInit, SnapshotsTyped
<1>2. HistorySpec => [](HistoryInv /\ SnapshotsTyped)
  BY <1>1, HistoryInitially, HistoryInductive, SnapshotsStep, PTL DEF HistorySpec
<1>3. HistoryInv /\ SnapshotsTyped => SnapshotIsACache
  BY SelectedSnapshot
<1> QED  BY <1>2, <1>3, PTL
=============================================================================
