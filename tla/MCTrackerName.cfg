CONSTANTS
    Hosts = {h1, h2}
    Clients = {c1}
    NameKeys = {k1}
    NoOne = NoOne
    NoKey = NoKey
    DefaultHost = NoKey
    MaxRelayed = 1
SPECIFICATION TrackerSpec
INVARIANTS
    FoundByName
CHECK_DEADLOCK FALSE
