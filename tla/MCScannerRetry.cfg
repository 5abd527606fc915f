CONSTANTS
    Nets = {"lan"}
    LastNumber = 1
    LocalIPLists <- EitherList
    MaxCount = 2
    MaxScans = 1
    MaxTaken = 1
SPECIFICATION Spec
PROPERTIES
    RetriedWithoutResults
