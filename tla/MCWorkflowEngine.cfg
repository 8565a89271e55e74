\* Two calls of a run of two nodes; the agent may be retried once.
CONSTANTS
    implement = implement
    verify = verify
    Node = {implement, verify}
    Order <- Both
    Needs <- Unrelated
    Budget <- TwoAttempts
    Timed = {implement}
    Commands = {verify}
    ReadOnly = TRUE
    Caller = {c1, c2}
    MaxEvents = 1
    MaxFailures = 1
SPECIFICATION FairSpec
INVARIANTS OneWorker RejectedOnlyForCause
PROPERTY RunEnds
CHECK_DEADLOCK FALSE
