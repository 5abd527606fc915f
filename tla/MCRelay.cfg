CONSTANTS
    Clients = {c1, c2}
    Host = h
    Parts = 2
    MaxCalls = 2
    MaxFaults = 1
SPECIFICATION FairSpec
INVARIANTS TypeOK RightAnswer
PROPERTIES ImplementsRemoteCall WaitsOnlyForHost
CHECK_DEADLOCK FALSE
