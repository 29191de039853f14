SPECIFICATION BTCSpec
CONSTANTS
    MaxLines = 3
    Miner = {d1}
    Up = {u1}
    Mgr = {m1}
    Account = {a1}
    SlotNum = 1
    SM = SM
    None = None
    Breakable = {u1}
INVARIANTS
    BTCTypeOK
    GreetedInOrder
PROPERTIES
    MaskIsUpdated
    FakeJobsReach
CHECK_DEADLOCK FALSE
