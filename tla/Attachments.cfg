CONSTANTS
    Workers = {w1, w2}
    MaxUploads = 2
    Declared = {1, 3}
    Limit = 3
    Int4Max = 4
    SweepLimit = 1
    MaxFaults = 1
SPECIFICATION Spec
SYMMETRY Symmetry
INVARIANTS
    Safety
PROPERTIES
    ReservedUploadsFit
CHECK_DEADLOCK FALSE
