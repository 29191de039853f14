SPECIFICATION BackSpec
CONSTANTS
    Miner = {d1}
    Up = {u1, u2}
    Mgr = {m1}
    Account = {a1}
    SlotNum = 1
    SM = SM
    None = None
    Breakable = {u1}
    Cap = 1
    Greeting = 1
INVARIANTS
    BackTypeOK
    NoCircularWait
PROPERTIES
    HandlersEnd
CHECK_DEADLOCK FALSE
