CONSTANTS
    i1 = i1
    i2 = i2
    Instance = {i1, i2}
    None = None
    Drainable = {i1}
    Crashable = {i1}
    MaxSaves = 2
    MaxFailures = 2
SPECIFICATION FairSpec
CHECK_DEADLOCK FALSE
INVARIANTS
    TypeOK
    FinalFlushIsComplete
PROPERTIES
    RowCatchesUp
    IndexIsCleaned
