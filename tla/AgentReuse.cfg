SPECIFICATION Spec
CONSTANTS
    MaxSessionId = 1
    Width = 8
    Miner = {d1, d2, d3}
    Up = {u1, u2}
    Mgr = {m1, m2}
    Account = {a1}
    SlotNum = 1
    SM = SM
    None = None
    NoID = NoID
    Refused = Refused
    MayLoginAgain = TRUE
    AlwaysKeepDownconn = FALSE
    Breakable = {}
    MultiUserMode = TRUE
    PoolMayRefuse = FALSE
    MayStop = FALSE
INVARIANTS
    CountIsPopulation
    ScanTerminates
    NeverInTwoHands
    BitsAreLive
PROPERTIES
    FreshestIsLast
    LeaseSpec
SYMMETRY Exchangeable
CHECK_DEADLOCK FALSE
