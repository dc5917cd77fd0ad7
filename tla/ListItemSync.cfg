CONSTANTS
    NoVersion = NoVersion
    Fields = {name, checked}
    CheckField = checked
    MaxWrites = 3
    MaxClock = 1
    MaxLosses = 1
SPECIFICATION Spec
INVARIANTS
    Safety
PROPERTIES
    EditsAreCareful
CHECK_DEADLOCK FALSE
