CONSTANTS
    Windows = 6
    FreeWindows = 3
    WindowSize = 2
    Lengths <- MCLengths
    MaxQueued = 2
    MaxFaults = 1
SPECIFICATION FairSpec
INVARIANTS TypeOK ForgottenHasArrived
PROPERTIES ImplementsLink PacketsArrive
CHECK_DEADLOCK FALSE
