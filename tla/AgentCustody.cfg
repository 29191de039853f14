SPECIFICATION Spec
CONSTANTS
    MaxSessionId = 0
    Width = 8
    Miner = {d1}
    Up = {u1, u2}
    Mgr = {m1, m2}
    Account = {a1}
    SlotNum = 1
    SM = SM
    None = None
    NoID = NoID
    Refused = Refused
    MayLoginAgain = FALSE
    AlwaysKeepDownconn = TRUE
    Breakable = {u1, u2}
    MultiUserMode = TRUE
    PoolMayRefuse = TRUE
    MayStop = TRUE
INVARIANTS
    TypeOK
    CustodyConserved
    SlotsConserved
    RegistryConsistent
SYMMETRY Exchangeable
CHECK_DEADLOCK FALSE
