\* Three coordinators compete for one run; the absence of the third is misreported.
CONSTANTS
    p3 = p3
    Process = {p1, p2, p3}
    Op = {o1, o2, o3}
    Body = {b1}
    Control = {k1}
    None = None
    LeaseDuration = 1
    MaxTime = 2
    MaxGeneration = 3
    Misreported = {p3}
SPECIFICATION Spec
SYMMETRY Symmetry
CONSTRAINT HistoryBound
INVARIANT OneLiveOwner
PROPERTY FencedLogSpec
CHECK_DEADLOCK FALSE
