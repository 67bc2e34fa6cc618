SPECIFICATION Spec
CONSTANTS
    b1 = b1
    b2 = b2
    b3 = b3
    None = None
    Brokers <- MCBrokers
    Address <- OwnAddresses
    Supervised <- MCBrokers
    Slots <- Slots2
    Timeout = 2
    Interval = 1
    Delay <- FirstIsSlow
    MaxDelay = 2
    MaxCrashes = 1
    Faults = {"storage", "shutdown"}
INVARIANTS
    TypeOK
PROPERTIES
    ElectionRespectsLease
CHECK_DEADLOCK FALSE
