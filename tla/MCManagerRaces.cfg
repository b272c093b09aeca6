CONSTANTS
    i1 = i1
    i2 = i2
    Instance = {i1, i2}
    Free = Free
    Starters = {i1}
    Stoppers = {}
    Drainable = {i1}
    Crashable = {}
    SlowActivation = TRUE
    Faults = TRUE
    Cleaning = TRUE
SPECIFICATION Spec
CHECK_DEADLOCK FALSE
INVARIANT
    OneStreamer
