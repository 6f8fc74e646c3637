SPECIFICATION Spec
CONSTANTS
    None = None
    Ops = {o1}
    MaxEvents = 2
    MaxSaves = 2
CHECK_DEADLOCK FALSE
INVARIANTS
    TypeOK
    SavedIsRecoverable
    PendingIsUnanswered
PROPERTIES
    PrefixStable
    SkipOnlyForLive
