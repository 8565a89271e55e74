------------------------------ MODULE RunHistory ------------------------------
(***************************************************************************)
(* What one run's tables of events, event integrity and snapshots say, and *)
(* who believes them (persistence/src/durable-store.ts, with the digests   *)
(* and snapshots of engine/src/durable-store.ts). RunStore says who may    *)
(* commit; here any session may try, with the history it loaded or         *)
(* committed last, and rows may be damaged or lost between two             *)
(* transactions, each of which is one action.                              *)
(*                                                                         *)
(* A digest is modelled by what it binds: a history digest is the history  *)
(* itself, so that two of them are equal only for equal histories. A run   *)
(* state is a fold that forgets the order of most events, as the reducer's *)
(* does: different histories may lead to the same state.                   *)
(***************************************************************************)
EXTENDS Naturals, Sequences, FiniteSets

CONSTANTS
    Session,    \* who loads and commits
    MaxEvents,  \* bound on the events of the run
    MaxDamage   \* bound on the rows that are damaged or lost

ASSUME HistoryConstants == MaxEvents \in Nat \ {0} /\ MaxDamage \in Nat

VARIABLES
    events,     \* the events table: content by sequence
    integrity,  \* the event_integrity table: history digest by sequence
    snapshots,  \* the run_snapshots table: snapshot by sequence
    known,      \* the history each session folded; empty without a session
    committed,  \* the history as it was acknowledged
    forked,     \* whether a commit extended a history its session had not folded
    damage      \* rows damaged so far

tables == <<events, integrity, snapshots>>
historyVars == <<tables, known, committed, forked, damage>>

\* "broken" is a row that parseEventRow refuses.
EventContent == {"created", "work", "note", "end"}
Row == EventContent \cup {"broken"}

\* The events of one commit.
Batch == {<<c>> : c \in EventContent} \cup {<<c, d>> : c, d \in EventContent}

-----------------------------------------------------------------------------
\* The reducer, as far as histories are concerned: a first event, and a last kind of work.

Start == [ok |-> FALSE, length |-> 0, worked |-> FALSE, ended |-> FALSE]

Applied(state, row) ==
    [ok |-> /\ row \in EventContent
            /\ (row = "created") = (state = Start)
            /\ state = Start \/ state.ok
            /\ ~(row = "work" /\ state.ended),
     length |-> state.length + 1,
     worked |-> state.worked \/ row = "work",
     ended |-> state.ended \/ row = "end"]

\* The state after the rows, one by one.
Folded(state, rows) ==
    LET after[i \in 0..Len(rows)] == IF i = 0 THEN state ELSE Applied(after[i - 1], rows[i])
    IN after[Len(rows)]

\* replayRun
Replay(history) == Folded(Start, history)

-----------------------------------------------------------------------------
\* readAuthoritativeRun, validateIntegrity.

\* The reducer refuses an event out of sequence, hence one after a gap.
InSequence == DOMAIN events = 1..Cardinality(DOMAIN events)

\* The rows in the order of their sequence, when there is no gap.
History == [i \in DOMAIN events |-> events[i]]

\* Mutant: rows without integrity are passed over wherever they are.
CoveredAnywhere ==
    /\ DOMAIN integrity \subseteq DOMAIN events
    /\ \A i \in DOMAIN integrity : integrity[i] = SubSeq(History, 1, i)

\* Coverage may begin anywhere but has no gap after that, refers to no absent event, and every
\* digest agrees.
Covered ==
    /\ DOMAIN integrity \subseteq DOMAIN events
    /\ \A i \in DOMAIN integrity, j \in DOMAIN events : i < j => j \in DOMAIN integrity
    /\ \A i \in DOMAIN integrity : integrity[i] = SubSeq(History, 1, i)

\* Whether a transaction can read the run; it fails as corrupt-store otherwise.
Readable == InSequence /\ Replay(History).ok /\ Covered

-----------------------------------------------------------------------------
\* createRunSnapshotFromState, snapshotFromRow, snapshotCompatible, selectSnapshot.

\* sound stands for what a row says of itself: its versions, size, definition and state digest.
Snapshot(history) == [prefix |-> history, state |-> Replay(history), sound |-> TRUE]

\* Mutant of Compatible: only the state at the end is compared.
CompatibleAtTheEnd(n) ==
    /\ n <= Len(History) /\ snapshots[n].sound
    /\ Folded(snapshots[n].state, SubSeq(History, n + 1, Len(History))) = Replay(History)

\* The row binds the exact prefix, is what that prefix folds to, and leads to the replayed state.
Compatible(n) ==
    /\ n <= Len(History) /\ snapshots[n].sound
    /\ snapshots[n].prefix = SubSeq(History, 1, n)
    /\ snapshots[n] = Snapshot(SubSeq(History, 1, n))
    /\ Folded(snapshots[n].state, SubSeq(History, n + 1, Len(History))) = Replay(History)

\* The newest compatible snapshot; 0 is a full replay.
Selected ==
    LET compatible == {n \in DOMAIN snapshots : Compatible(n)} IN
    IF compatible = {} THEN 0 ELSE CHOOSE n \in compatible : \A m \in compatible : m <= n

-----------------------------------------------------------------------------
\* createOwned, load, commit.

HistoryInit ==
    /\ events = <<"created">> /\ integrity = <<events>>
    /\ snapshots = <<Snapshot(events)>>
    /\ known = [s \in Session |-> <<>>]
    /\ committed = events /\ forked = FALSE /\ damage = 0

\* The state a session starts from is the replayed one, whatever the snapshots say.
Load(s) ==
    /\ Readable
    /\ known' = [known EXCEPT ![s] = History]
    /\ UNCHANGED <<tables, committed, forked, damage>>

Extended(table, first, rows) ==
    [i \in DOMAIN table \cup (first..(first + Len(rows) - 1)) |->
        IF i \in DOMAIN table THEN table[i] ELSE rows[i - first + 1]]

\* Mutant of Expected: the sequence is not compared.
ExpectedAnyway(s) == TRUE

\* expectedSequence
Expected(s) == Len(History) = Len(known[s])

\* A session folds the batch over what it has seen, the store over what it holds; a snapshot made
\* of the one must be that of the other.
Accepted(s, batch, snapshot) ==
    /\ Readable /\ Expected(s)
    /\ Replay(History \o batch).ok
    /\ snapshot => Snapshot(known[s] \o batch) = Snapshot(History \o batch)

\* The integrity rows of the events from first on.
Digests(history, first) ==
    [i \in 1..(Len(history) - first + 1) |-> SubSeq(history, 1, first + i - 1)]

CommitBatch(s) ==
    \E batch \in Batch, snapshot \in BOOLEAN :
        /\ known[s] # <<>> /\ Replay(known[s] \o batch).ok
        /\ Len(known[s]) + Len(batch) <= MaxEvents
        /\ Accepted(s, batch, snapshot)
        /\ LET next == Len(History) + 1
               whole == History \o batch
           IN /\ events' = Extended(events, next, batch)
              /\ integrity' = Extended(integrity, next, Digests(whole, next))
              /\ snapshots' = IF snapshot
                              THEN [n \in DOMAIN snapshots \cup {Len(whole)} |->
                                      IF n = Len(whole) THEN Snapshot(whole) ELSE snapshots[n]]
                              ELSE snapshots
              /\ committed' = whole
              /\ known' = [known EXCEPT ![s] = @ \o batch]
        /\ forked' = (forked \/ known[s] # History)
        /\ UNCHANGED damage

\* A commit that the store refuses ends its session.
CommitFails(s) ==
    /\ known[s] # <<>>
    /\ \E batch \in {<<c>> : c \in EventContent}, snapshot \in BOOLEAN : ~Accepted(s, batch, snapshot)
    /\ known' = [known EXCEPT ![s] = <<>>]
    /\ UNCHANGED <<tables, committed, forked, damage>>

-----------------------------------------------------------------------------
\* The file is damaged: one row of one table.

Lost(table, i) == [j \in DOMAIN table \ {i} |-> table[j]]

DamageEvents ==
    /\ \E i \in DOMAIN events :
          \/ \E row \in Row \ {events[i]} : events' = [events EXCEPT ![i] = row]
          \/ events' = Lost(events, i)
    /\ UNCHANGED <<integrity, snapshots>>

\* A damaged digest is that of no history.
DamageIntegrity ==
    /\ \E i \in DOMAIN integrity :
          integrity' \in {[integrity EXCEPT ![i] = <<>>], Lost(integrity, i)}
    /\ UNCHANGED <<events, snapshots>>

\* The digest of a snapshot may be right for what it was damaged to.
DamageSnapshots ==
    /\ \E n \in DOMAIN snapshots :
          \/ \E damaged \in {[snapshots[n] EXCEPT !.sound = FALSE], [snapshots[n] EXCEPT !.prefix = <<"broken">>]}
                            \cup {[snapshots[n] EXCEPT !.state.worked = b] : b \in BOOLEAN} :
                 snapshots' = [snapshots EXCEPT ![n] = damaged]
          \/ snapshots' = Lost(snapshots, n)
    /\ UNCHANGED <<events, integrity>>

Damage ==
    /\ damage < MaxDamage /\ damage' = damage + 1
    /\ DamageEvents \/ DamageIntegrity \/ DamageSnapshots
    /\ UNCHANGED <<known, committed, forked>>

HistoryNext == (\E s \in Session : Load(s) \/ CommitBatch(s) \/ CommitFails(s)) \/ Damage

HistorySpec == HistoryInit /\ [][HistoryNext]_historyVars

-----------------------------------------------------------------------------
\* Correctness.

\* readAuthoritativeRun: a run that can be read is the run that was acknowledged. It takes two
\* damaged rows to have it otherwise: a tail lost from both tables, or no integrity left at all
\* (coverage that never begins is taken for a history older than the integrity table).
LoadTellsTheTruth ==
    Readable => \/ History = committed
                \/ damage > 1 /\ (History = SubSeq(committed, 1, Len(History)) \/ DOMAIN integrity = {})

\* selectSnapshot: whatever happens to the rows, the snapshot that load names is the one that the
\* history it covers would be given again, and a run that can be read does not need one.
SnapshotIsACache ==
    Readable /\ Selected # 0 =>
        /\ snapshots[Selected].state = Replay(SubSeq(History, 1, Selected))
        /\ \A n \in DOMAIN snapshots \cap (Selected + 1)..Len(History) :
              snapshots[n] # Snapshot(SubSeq(History, 1, n))

\* commit, OwnedRunSession.commit: a session whose history is not the stored one any more, because
\* another committed or rows were damaged, is refused; two damaged rows can still make it extend
\* a history that it never folded.
CommitExtendsWhatItSaw == forked => damage > 1
=============================================================================
