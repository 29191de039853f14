SPECIFICATION FairSpec
CONSTANTS
    MaxSessionId = 1
    Width = 8
    Miner = {d1}
    Up = {u1}
    Mgr = {m1}
    Account = {a1}
    SlotNum = 1
    SM = SM
    None = None
    NoID = NoID
    Refused = Refused
    MayLoginAgain = FALSE
    AlwaysKeepDownconn = FALSE
    Breakable = {u1}
    MultiUserMode = FALSE
    PoolMayRefuse = FALSE
    MayStop = FALSE
PROPERTIES
    ServedOrClosed
CHECK_DEADLOCK FALSE
