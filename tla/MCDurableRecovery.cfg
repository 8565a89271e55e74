SPECIFICATION FairSpec
CONSTANTS
    n1 = n1
    n2 = n2
    n3 = n3
    cancel1 = cancel1
    None = None
    Node = {n1}
    Order <- SingleNode
    Needs <- Independent
    Budget <- TwoAttempts
    Timed = {n1}
    Content = {v1, v2}
    ReadOnly = FALSE
    Coord = {c1}
    Control = {pause1}
    ActionOf <- Action
INVARIANTS WorkerIsOwned BlockedRunNamesWork
PROPERTIES ControlStopsWork EditsAreResolved SessionEnds
\* A run that settled with no process at work has no next step.
CHECK_DEADLOCK FALSE
