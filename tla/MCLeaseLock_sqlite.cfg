\* SQLite: migration transactions lock the store.
SPECIFICATION Spec
CONSTANTS
    p1 = p1
    p2 = p2
    t1 = t1
    t2 = t2
    t3 = t3
    u1 = u1
    NoProc = NoProc
    NoToken = NoToken
    Ownerless = Ownerless
    Procs = {p1, p2}
    Unreliable = {}
    Tokens = {Ownerless, t1, t2, t3}
    UnrefreshedTokens = {}
    HeartbeatInterval = 1
    BeatSlack = 0
    Expiry = 3
    LegacyExpiry = 4
    WaitTimeout = 5
    StoreLocks = TRUE
SYMMETRY TokenSymmetry
INVARIANTS HolderOwnsLease NoRowLeftBehind
