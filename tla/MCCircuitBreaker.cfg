CONSTANTS
    Threshold = 3
    RecoveryTimeout = 2
    SuccessThreshold = 2
    Multiplier = 2
    MaxBackoff = 7
    Suggested <- MCSuggested
    Res = 2
    MaxFailures = 6
SPECIFICATION FairSpec
CHECK_DEADLOCK FALSE
INVARIANTS
    TypeOK
    NeverRejectedTwice
PROPERTIES
    OpensOnConsecutiveFailures
    BackoffEscalates
    CircuitRecovers
