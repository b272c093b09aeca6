SPECIFICATION FairSpec
CONSTANTS
    r1 = r1
    r2 = r2
    r3 = r3
    Runner = {r1, r2, r3}
    Checksum = {"a", "b", "c", "d", "edited"}
    Image <- MCImage
    MaxWait = 2
    None = None
INVARIANTS
    TypeOK
    RecordedWithSchema
    WholeReleases
    AppliedIsCurrent
PROPERTIES
    EveryRunnerEnds
    ImplementsHistory
CHECK_DEADLOCK FALSE
