CONSTANTS
    MaxCalls = 3
    Parts = 2
    MaxSessions = 3
    Retry = TRUE
SPECIFICATION FairSpec
INVARIANTS
    TypeOK
    Accounting
    NoStaleOutput
    CallbacksNotShared
    CrashesOnlyAfterLoss
PROPERTIES
    AnswersAreWhole
    SendsAfterJoin
    OutstandingAnswered
CHECK_DEADLOCK FALSE
