CONSTANTS
    MaxComments = 4
    MaxFailures = 2
    Window = 2
    Interval = 2
    Invalid = {}
    InitialCheckpoint = 0
SPECIFICATION Spec
CHECK_DEADLOCK FALSE
INVARIANT
    NothingSkipped
