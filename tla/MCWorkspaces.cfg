SPECIFICATION Spec
CONSTANTS
    Modes = {"readonly", "isolated"}
    MaxEdits = 3
    MaxCaptures = 2
    MaxCrashes = 1
INVARIANTS CheckpointIsAMoment MatchMeansUntouched NothingIsDiscarded
CHECK_DEADLOCK FALSE
