SPECIFICATION LiveSpec
CONSTANTS
    p1 = p1
    p2 = p2
    Pump = {p1, p2}
    MaxLapses = 3
    MaxMissed = 1
    MaxFaults = 1
    None = None
INVARIANTS
    TypeOK
    SettledByOwner
PROPERTIES
    TerminalStays
    LiveLeaseKept
    EventuallySettled
CHECK_DEADLOCK FALSE
