\* Holders that may be paused past their lease.
SPECIFICATION Spec
CONSTANTS
    p1 = p1
    p2 = p2
    t1 = t1
    t2 = t2
    t3 = t3
    NoToken = NoToken
    Ownerless = Ownerless
    Procs = {p1, p2}
    Unreliable = {p1, p2}
    Commands = {"migrate", "mark", "repair", "import"}
    Versions = 2
    Size <- TwoScripts
    Mode <- AllTransactional
    TransactionalDdl = TRUE
    FlywayApplied = {1}
    Tokens = {Ownerless, t1, t2, t3}
SYMMETRY RunSymmetry
INVARIANTS AtomicScripts HistoryIsInOrder
PROPERTIES AppliedStays
\* The runs end with the tokens.
CHECK_DEADLOCK FALSE
