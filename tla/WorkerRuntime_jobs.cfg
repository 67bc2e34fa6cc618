SPECIFICATION Spec
CONSTANTS
    w1 = w1
    w2 = w2
    tA = tA
    tBad = tBad
    tNone = tNone
    None = None
    DefaultMaxAttempts = 1
    HeartbeatTimeout = 4
    Workers = {w1, w2}
    Faulty = {w1}
    Slots <- MCSlots
    Concurrency = 2
    Handled <- MCTypes
    Missing = {tNone}
    Malformed = {tBad}
    Backlogs <- MCBacklogs
    Interval = 1
    Delay = 1
INVARIANTS
    TypeOK
    ActiveJobsCounted
    NoStrayHeartbeats
    PunctualKeepsJob
