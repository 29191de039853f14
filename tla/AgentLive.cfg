SPECIFICATION FairSpec
CONSTANTS
    MaxSessionId = 1
    Width = 8
    Miner = {d1, d2}
    Up = {u1}
    Mgr = {m1}
    Account = {a1}
    SlotNum = 1
    SM = SM
    None = None
    NoID = NoID
    Refused = Refused
    MayLoginAgain = FALSE
    AlwaysKeepDownconn = TRUE
    Breakable = {}
    MultiUserMode = FALSE
    PoolMayRefuse = FALSE
    MayStop = FALSE
INVARIANTS
    MinersAccounted
PROPERTIES
    ServedOrClosed
    LeaverIsForgotten
CHECK_DEADLOCK FALSE
