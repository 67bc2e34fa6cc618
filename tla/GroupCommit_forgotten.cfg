SPECIFICATION Spec
CONSTANTS
    None = None
    b1 = b1
    b2 = b2
    w1 = w1
    w2 = w2
    tA = tA
    DefaultMaxAttempts = 2
    HeartbeatTimeout = 0
    Brokers <- MCBrokers
    Slots <- MCSlots1
    Submissions <- MCSubmissions3
    Workers = {w1}
    JobSpecs <- MCOneJob
    Filters <- NoFilter
    RequestKinds = {"enqueue", "register_broker"}
    MaxRetries = 1
    MaxClock = 0
    Faults = {"read"}
INVARIANTS
    PendingIsHeld
CHECK_DEADLOCK FALSE
