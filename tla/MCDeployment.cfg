SPECIFICATION Spec
CONSTANTS
    None = None
    Worker = {w1, w2}
    Fact = {f1}
    MaxRevision = 1
    MaxFaults = 2
SYMMETRY Workers
CHECK_DEADLOCK FALSE
INVARIANTS
    TypeOK
    LockExclusive
    Recoverable
    AnswersKept
PROPERTIES
    Refinement
