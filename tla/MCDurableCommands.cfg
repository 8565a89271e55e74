SPECIFICATION CommandsSpec
CONSTANTS
    n1 = n1
    cancel1 = cancel1
    None = None
    Node = {n1}
    Order <- SingleNode
    Needs <- Independent
    Budget <- OneAttempt
    Timed = {}
    Content = {v1, v2}
    ReadOnly = FALSE
    Coord = {c1, c2}
    Control = {pause1, cancel1}
    ActionOf <- Action
    MaxCommands = 3
SYMMETRY Symmetry
INVARIANTS ExecutesOnCurrentState OneOutstanding RefusalIsFinal ControlCommandRunsNothing PausedRunKeepsNoCancel
\* When every command has ended there may be no next step.
CHECK_DEADLOCK FALSE
