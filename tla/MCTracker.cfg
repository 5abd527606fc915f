CONSTANTS
    Hosts = {h1, h2}
    Clients = {c1, c2}
    NameKeys = {k1, k2}
    NoOne = NoOne
    NoKey = NoKey
    DefaultHost = k1
    MaxRelayed = 2
SPECIFICATION TrackerSpec
INVARIANTS
    TrackerTypeOK
    RegistryMatches
PROPERTIES
    NameKeptByHolder
SYMMETRY Symmetry
CHECK_DEADLOCK FALSE
