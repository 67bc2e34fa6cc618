SPECIFICATION ThrottledSpec
CONSTANTS
    None = None
    c1 = c1
    c2 = c2
    Callers = {c1, c2}
    Backends = {"memory", "s3", "gcs"}
    MaxUpdates = 2
    MaxFaults = 1
    Limits <- MCLimits
    DayLength = 3
    MaxClock = 4
SYMMETRY Sym
INVARIANTS
    VersionsIdentify
    UpdatesKept
    TwiceOnlyIfRepeated
    DelaysAccounted
    BudgetKept
PROPERTIES
    ContentsExtended
CHECK_DEADLOCK FALSE
