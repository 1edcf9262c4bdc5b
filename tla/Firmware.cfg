SPECIFICATION MCSpec
CONSTANTS
    LOG_SIZE = 3
    QueueLen = 2
    MaxLines = 5
    InUrbs = 1
    OutUrbs = 2
    BulkSize = 2
    RxSize = 1
    TxSize = 2
    ReadLen = 2
    Requests = 2
    MaxUnits = 2
    MaxPlugs = 2
    MaxFail = 1
CHECK_DEADLOCK FALSE
INVARIANTS IdsAccount ViewIsExact UsbAccounts TeardownInOrder
PROPERTIES UsbGoesOn
