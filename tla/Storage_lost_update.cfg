SPECIFICATION ThrottledSpec
CONSTANTS
    None = None
    c1 = c1
    c2 = c2
    Callers = {c1, c2}
    Backends = {"gcs"}
    MaxUpdates = 2
    MaxFaults = 0
    Limits <- MCUnlimited
    DayLength = 1
    MaxClock = 0
INVARIANTS
    NoLostUpdate
CHECK_DEADLOCK FALSE
