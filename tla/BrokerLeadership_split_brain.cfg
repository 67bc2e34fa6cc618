SPECIFICATION FairSpec
CONSTANTS
    b1 = b1
    b2 = b2
    b3 = b3
    None = None
    Brokers <- MCBrokers
    Address <- OwnAddresses
    Supervised = {}
    Slots <- Slots1
    Timeout = 2
    Interval = 1
    Delay <- FirstIsSlow
    MaxDelay = 2
    MaxCrashes = 0
    Faults = {}
PROPERTIES
    OldLeaderStops
