SPECIFICATION HistorySpec
CONSTANTS
    Session = {s1, s2}
    MaxEvents = 3
    MaxDamage = 2
SYMMETRY Symmetry
INVARIANTS LoadTellsTheTruth SnapshotIsACache CommitExtendsWhatItSaw
\* A run at its bound that cannot be read any more has no next step.
CHECK_DEADLOCK FALSE
