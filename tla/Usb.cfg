SPECIFICATION MCSpec
CONSTANTS
    Endpoints = {e1}
    Writers = {w1, w2}
    QueueSize = 2
    MaxEvents = 4
    PartitionSize = 2
    MaxRequests = 9
    RxSize = 1
    TxSize = 2
    MaxPackets = 3
    MaxConnects = 4
    Senders = {s1, s2}
    MaxNetEvents = 6
    Readers = {r1, r2}
    RingSize = 3
    MaxChunks = 4
    MaxCalls = 3
    PieceSize = 8
    MaxLength = 30
    MaxCommands = 4
    FifoSize = 4
    MaxModemCommands = 3
    MaxLines = 1
    MaxData = 1
SYMMETRY Symmetry
CHECK_DEADLOCK FALSE
INVARIANTS OneTransfer StackSettles DfuIsFaithful ConsoleIsServed NetPathSound DriversSound
