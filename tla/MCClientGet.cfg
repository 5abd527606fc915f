CONSTANTS
    Trackers = {a, b}
    Callbacks = {named, anonymous}
    Held = {named}
    MaxGets = 3
SPECIFICATION FairSpec
INVARIANTS
    TypeOK
    CrashesNamed
    AnsweredOnce
PROPERTIES
    GetsAnswered
CHECK_DEADLOCK FALSE
