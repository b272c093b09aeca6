CONSTANTS
    i1 = i1
    i2 = i2
    i3 = i3
    Instance = {i1, i2, i3}
    Free = Free
    Starters = {i1}
    Stoppers = {i1, i2}
    Drainable = {i1}
    Crashable = {i1}
    SlowActivation = FALSE
    Faults = FALSE
    Cleaning = FALSE
SPECIFICATION FairSpec
CHECK_DEADLOCK FALSE
INVARIANTS
    TypeOK
    LiveTaskIsRegistered
    HolderIsAtWork
PROPERTIES
    RunnableIsAdopted
    StoppedOnlyOnRequest
    StopAllIsFinal
    StopCompletesWhileAllUp
