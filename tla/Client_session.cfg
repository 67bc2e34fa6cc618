SPECIFICATION FairSpec
CONSTANTS
    None = None
    Null = Null
    Empty = Empty
    Transports = {"ws", "rest", "connect"}
    Brokers = {1, 2}
    Requests = {1, 2}
    Adapters = {1, 2, 3, 4}
    Sockets = {1, 2, 3}
    MaxReconnects = 1
    MaxFaults = 1
    ApiCalls <- MCCalls
    ApiJobs <- MCJobs
    ApiStates <- MCStates
INVARIANTS
    TypeOK
    AnswersMatch
    WaitersAreHeld
    SocketsOwned
    RequestsArrive
    AnswersAreTold
PROPERTIES
    FailuresExplained
    EveryCallSettles
CHECK_DEADLOCK FALSE
