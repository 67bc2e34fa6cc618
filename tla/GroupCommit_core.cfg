SPECIFICATION Spec
CONSTANTS
    None = None
    b1 = b1
    b2 = b2
    w1 = w1
    w2 = w2
    tA = tA
    DefaultMaxAttempts = 2
    HeartbeatTimeout = 0
    Brokers <- MCBrokers
    Slots <- MCSlots1
    Submissions <- MCSubmissions4
    Workers = {w1, w2}
    JobSpecs <- MCTwoJobs
    Filters <- OnlyA
    RequestKinds = {"enqueue", "claim", "heartbeat", "complete"}
    MaxRetries = 0
    MaxClock = 2
    Faults = {"read"}
SYMMETRY Sym
INVARIANTS
    TypeOK
    CacheCoherent
    AckedIsApplied
    NoJobLost
    NoResurrection
    AttemptsCountClaims
    AttemptsBounded
PROPERTIES
    HolderKeepsJob
    CompletedCounted
CHECK_DEADLOCK FALSE
