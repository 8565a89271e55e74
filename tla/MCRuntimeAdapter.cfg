SPECIFICATION FairAdapterSpec
CONSTANTS
    Kinds = {"codex", "claude", "pi", "fake"}
    Capacity = 4
    MaxFrames = 5
INVARIANTS ResultIsHonest StreamAgreesWithResult
PROPERTY CancelIsAnswered
CHECK_DEADLOCK FALSE
