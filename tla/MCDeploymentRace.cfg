SPECIFICATION Spec
CONSTANTS
    None = None
    Worker = {w1, w2, w3}
    Fact = {f1}
    MaxRevision = 1
    MaxFaults = 1
SYMMETRY Workers
CHECK_DEADLOCK FALSE
INVARIANTS
    AnswersKept
