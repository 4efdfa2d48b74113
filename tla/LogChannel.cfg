SPECIFICATION Spec
CONSTANTS
    info = info
    debug = debug
    Producers = {info, debug}
    Writer = writer
    Main = main
    BufferLen = 3
    Priority <- MCPriority
    Levels = {2}
    LimitSizes = {1}
    MaxDevices = 1
    MaxRecords = 4
    DayOf <- MCDayOf
    OpenFails = {3}
    RecordLen = 2
    MB = 4
    IntRange = 16
    Rollback = 1
INVARIANTS
    TypeOK
    RingOrder
    OneUser
    NothingStranded
    OnceEach
    FilesKeepTheLatest
PROPERTIES
    Delivered
    StopReturns
CHECK_DEADLOCK FALSE
