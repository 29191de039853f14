SPECIFICATION MiningSpec
CONSTANTS
    Miner = {d1}
    Up = {u1, u2}
    Mgr = {m1}
    Account = {a1}
    SlotNum = 1
    SM = SM
    None = None
    Breakable = {u1}
    MaxJobs = 2
    PoolMayBeFull = TRUE
INVARIANTS
    MiningTypeOK
    NonceIsCurrent
PROPERTIES
    ServedGetsJob
CHECK_DEADLOCK FALSE
