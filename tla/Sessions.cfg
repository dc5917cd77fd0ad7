CONSTANTS
    Workers = {w1, w2}
    MaxSessions = 3
    MaxPasswords = 2
SPECIFICATION SessionsSpec
SYMMETRY Symmetry
INVARIANTS
    Safety
PROPERTIES
    DeletedIsFinal
CHECK_DEADLOCK FALSE
