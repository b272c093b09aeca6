CONSTANTS
    MaxComments = 7
    MaxFailures = 3
    Window = 3
    Interval = 3
    Invalid = {3}
    InitialCheckpoint = 1
SPECIFICATION FairSpec
CHECK_DEADLOCK FALSE
INVARIANTS
    TypeOK
    NothingSkipped
    PendingIsBounded
PROPERTY
    MissingIsRedelivered
