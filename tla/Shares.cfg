SPECIFICATION SharesSpec
CONSTANTS
    Miner = {d1}
    Up = {u1, u2}
    Mgr = {m1}
    Account = {a1}
    SlotNum = 1
    SM = SM
    None = None
    Breakable = {u1}
    AnsweringUp = {u1}
    IndexWidth = 2
    MaxShares = 2
INVARIANTS
    SharesTypeOK
    AnsweredOnce
    IndicesAgree
PROPERTIES
    ShareIsAnswered
CHECK_DEADLOCK FALSE
