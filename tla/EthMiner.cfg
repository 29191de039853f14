SPECIFICATION MinerSpec
CONSTANTS
    Size = 3
    PowHash = {h1, f1}
    FakeHash = {f1}
    JobID = {j1, k1}
    FakeJobID = {k1}
    NoHash = NoHash
    Nil = Nil
    Difficulty = {1, 2}
    MaxGetWork = 2
    Unset = Unset
INVARIANTS
    MinerTypeOK
    FindsLatest
    DifficultyInForce
    OneJobPerGetWork
    RealSharesReachPool
PROPERTIES
    RemembersRecent
CHECK_DEADLOCK FALSE
