SPECIFICATION Spec
CONSTANTS
    p1 = p1
    p2 = p2
    Pump = {p1, p2}
    MaxLapses = 1
    MaxMissed = 1
    MaxFaults = 1
    None = None
SYMMETRY Pumps
INVARIANT FailedByOwner
CHECK_DEADLOCK FALSE
