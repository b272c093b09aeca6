CONSTANTS
    Token = {t1, t2}
    NoToken = NoToken
    TTL = 12
    Interval = 6
    RefreshTimeout = 2
    HeartbeatMax = 2
SPECIFICATION Spec
INVARIANT
    MutualExclusion
