\* An autocommit script and an engine without transactional DDL.
SPECIFICATION Spec
CONSTANTS
    p1 = p1
    p2 = p2
    t1 = t1
    t2 = t2
    t3 = t3
    NoToken = NoToken
    Ownerless = Ownerless
    Procs = {p1, p2}
    Unreliable = {}
    Commands = {"migrate", "repair"}
    Versions = 2
    Size <- TwoScripts
    Mode <- FirstAutocommit
    TransactionalDdl = FALSE
    FlywayApplied = {}
    Tokens = {Ownerless, t1, t2, t3}
SYMMETRY RunSymmetry
INVARIANTS RowsMeanRuns
\* The runs end with the tokens.
CHECK_DEADLOCK FALSE
