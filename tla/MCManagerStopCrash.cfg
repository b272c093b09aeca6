CONSTANTS
    i1 = i1
    i2 = i2
    Instance = {i1, i2}
    Free = Free
    Starters = {i1}
    Stoppers = {i2}
    Drainable = {}
    Crashable = {i1}
    SlowActivation = FALSE
    Faults = FALSE
    Cleaning = FALSE
SPECIFICATION FairSpec
CHECK_DEADLOCK FALSE
PROPERTY
    StopCompletes
