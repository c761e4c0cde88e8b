\* A server engine: one process may be paused or cut off at any time, and one
\* lease is held without a heartbeat.
SPECIFICATION FairSpec
CONSTANTS
    p1 = p1
    p2 = p2
    t1 = t1
    t2 = t2
    t3 = t3
    u1 = u1
    NoProc = NoProc
    NoToken = NoToken
    Ownerless = Ownerless
    Procs = {p1, p2}
    Unreliable = {p2}
    Tokens = {Ownerless, t1, t2, u1}
    UnrefreshedTokens = {u1}
    HeartbeatInterval = 1
    BeatSlack = 1
    Expiry = 3
    LegacyExpiry = 4
    WaitTimeout = 3
    StoreLocks = FALSE
INVARIANTS TypeOK LossIsReal
PROPERTIES NoTheft LockSpec EveryoneLearns
