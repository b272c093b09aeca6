CONSTANTS
    Token = {t1, t2}
    NoToken = NoToken
    TTL = 12
    Interval = 6
    RefreshTimeout = 2
    HeartbeatMax = 1
SPECIFICATION FairSpec
INVARIANTS
    TypeOK
    StreamingOwnsLease
PROPERTIES
    OnlyOwnerTouchesLease
    TurnsAreExclusive
    OrphanedLeaseIsFreed
