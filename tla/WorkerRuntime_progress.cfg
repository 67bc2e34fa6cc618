SPECIFICATION FairSpec
CONSTANTS
    w1 = w1
    w2 = w2
    tA = tA
    tBad = tBad
    tNone = tNone
    None = None
    DefaultMaxAttempts = 1
    HeartbeatTimeout = 1
    Workers = {w1, w2}
    Faulty = {w1}
    Slots <- OneSlot
    Concurrency = 1
    Handled <- MCTypes
    Missing = {tNone}
    Malformed = {tBad}
    Backlogs <- MCBacklogs
    Interval = 1
    Delay = 0
PROPERTIES
    EveryJobLeaves
    StopEnds
