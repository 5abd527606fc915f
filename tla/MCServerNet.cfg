CONSTANTS
    ClientIDs = {a, b}
    MaxPeers = 2
    MaxJoins = 3
    MaxRequests = 1
SPECIFICATION Spec
INVARIANTS
    TypeOK
    PointersAlive
    MapsAgree
    OneLife
PROPERTIES
    ImplementsSessions
SYMMETRY Symmetry
CHECK_DEADLOCK FALSE
