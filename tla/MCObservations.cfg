SPECIFICATION FairObservationSpec
CONSTANTS
    Plans = {"runtime", "command"}
    MaxRetained = 4
    MaxRequired = 3
    MaxLogs = 3
    MaxUsages = 2
INVARIANTS TerminalIsComplete DriveIsComplete
PROPERTY EndsAndReleases
CHECK_DEADLOCK FALSE
