CONSTANTS
    small = small
    big = big
    NoValue = NoValue
    Names = {"app", "other"}
    Keys = {"k1"}
    Values = {small, big}
    SizeOf <- MCSizeOf
    MaxDatabases = 2
    Slack = 2
    AbsoluteMax = 8
SPECIFICATION Spec
INVARIANTS
    TypeOK
    AckedDurable
PROPERTIES
    SmallWritesResize
    ImplementsStore
