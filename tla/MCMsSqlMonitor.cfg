CONSTANTS
    monitor = monitor
    p1 = p1
    Callers = {monitor, p1}
    Monitor = monitor
    MAX_LINK_NUM = 2
    DbCount = 2
    Default = 1
    RowCounts <- SomeRowCounts
SPECIFICATION MonitorSpec
INVARIANTS
    MonitorTypeOK
    OneUserPerLink
    BusyAccounted
    FreeLinkTellsTruth
    FailsOnlyAtFirst
    RowsInOrder
PROPERTIES
    PoolSpec
    WriteEnds
CHECK_DEADLOCK FALSE
