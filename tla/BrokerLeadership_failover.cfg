SPECIFICATION FairSpec
CONSTANTS
    b1 = b1
    b2 = b2
    b3 = b3
    None = None
    Brokers <- MCBrokers3
    Address <- OwnAddresses3
    Supervised = {}
    Slots <- Slots1
    Timeout = 5
    Interval = 1
    Delay <- Punctual3
    MaxDelay = 1
    MaxCrashes = 2
    Faults = {}
INVARIANTS
    LeaderHoldsLease
    AtMostOneServing
PROPERTIES
    LeaderReturns
