SPECIFICATION Spec
CONSTANTS
    Writers = {w1, w2}
    Readers = {r1}
    Values = {a, b}
    Modes = {"atomic", "exclusive", "artifact"}
    MaxInodes = 3
    MaxPowerLosses = 1
SYMMETRY Symmetry
INVARIANTS ImmutableRecord RecordIsWhole AcknowledgedSurvives
CHECK_DEADLOCK FALSE
