SPECIFICATION FairSpec
CONSTANTS
    None = None
    b1 = b1
    b2 = b2
    w1 = w1
    w2 = w2
    tA = tA
    DefaultMaxAttempts = 2
    HeartbeatTimeout = 0
    Brokers <- MCBrokers
    Slots <- MCSlots2
    Submissions <- MCSubmissions3
    Workers = {w1}
    JobSpecs <- MCOneJob
    Filters <- NoFilter
    RequestKinds = {"enqueue"}
    MaxRetries = 1
    MaxClock = 0
    Faults = {"write", "crash", "stop"}
INVARIANTS
    AppliedOnce
    SnapshotIsCommitted
    PendingIsHeld
    NoLostWakeup
PROPERTIES
    ImplementsAtomicQueue
    EverySubmissionSettles
CHECK_DEADLOCK FALSE
