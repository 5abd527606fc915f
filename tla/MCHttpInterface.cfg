CONSTANTS
    Parts = 2
    MaxGets = 4
SPECIFICATION FairSpec
INVARIANTS
    TypeOK
    InOrder
    NoLostWakeup
PROPERTIES
    DestructorReturns
CHECK_DEADLOCK FALSE
