SPECIFICATION FairSpec
CONSTANTS
    Packets <- MCBoth
    HostPackets = 2
    ToHostSize = 1
    TxSize = 1
    RxSize = 1
CHECK_DEADLOCK FALSE
INVARIANTS SignalledIsServed
PROPERTIES InOrder EverythingArrives
