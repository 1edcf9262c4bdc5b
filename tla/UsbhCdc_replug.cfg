SPECIFICATION Spec
CONSTANTS
    InUrbs = 1
    OutUrbs = 2
    BulkSize = 1
    RxSize = 1
    TxSize = 1
    ReadLen = 1
    Requests = 1
    MaxUnits = 1
    MaxPlugs = 2
    MaxFail = 0
CHECK_DEADLOCK FALSE
INVARIANT UrbsAreLive
