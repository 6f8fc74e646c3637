SPECIFICATION LiveSpec
CONSTANTS
    p1 = p1
    p2 = p2
    Pump = {p1, p2}
    MaxLapses = 0
    MaxMissed = 0
    MaxFaults = 1
    None = None
PROPERTY Converges
CHECK_DEADLOCK FALSE
