CONSTANTS
    monitor = monitor
    Callers = {monitor}
    Monitor = monitor
    MAX_LINK_NUM = 2
    DbCount = 2
    Default = 1
    RowCounts <- AllRows
SPECIFICATION MonitorSpec
INVARIANT RowsShowOwnDatabase
CHECK_DEADLOCK FALSE
