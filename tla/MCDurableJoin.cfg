SPECIFICATION Spec
CONSTANTS
    n1 = n1
    n2 = n2
    n3 = n3
    cancel1 = cancel1
    None = None
    Node = {n1, n2, n3}
    Order <- Join
    Needs <- JoinNeeds
    Budget <- OneAttempt
    Timed = {n1}
    Content = {v1, v2}
    ReadOnly = TRUE
    Coord = {c1}
    Control = {cancel1}
    ActionOf <- Action
SYMMETRY Symmetry
INVARIANTS StoppedRunIsQuiet SettledRunLeavesNoWork ReturnsStoppedOrInGap RejectedOnlyInGap
\* A run that settled with no process at work has no next step.
CHECK_DEADLOCK FALSE
