SPECIFICATION FairSpec
CONSTANTS
    Proxy = {p1}
    Direct = Direct
    DirectAfter = DirectAfter
    PoolNum = 3
    NoConn = NoConn
INVARIANTS
    ConnectTypeOK
    ConnOwned
    ReadyIsComplete
PROPERTIES
    RoutesInOrder
    PoolsInOrder
    AttemptEnds
    LosersAreClosed
CHECK_DEADLOCK FALSE
