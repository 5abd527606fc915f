CONSTANTS
    Nets = {"lan"}
    LastNumber = 2
    LocalIPLists <- EitherList
    MaxCount = 2
    MaxScans = 2
    MaxTaken = 1
SPECIFICATION FairSpec
INVARIANTS
    TypeOK
    HostsOwned
    CompleteScanTriedAll
PROPERTIES
    ScanCompletes
