SPECIFICATION Spec
CONSTANTS
    Attempts = {a1, a2, a3}
    Keys = {k1, k2}
    Requests = {q1, q2}
    FaultSets <- AllFaultSets
    None = None
SYMMETRY Symmetric
CHECK_DEADLOCK FALSE
INVARIANTS TypeOK MutualExclusion ReplayFaithful NeverReplaysFailure OncePerKey
PROPERTIES NoEffectAfterCompletion
