SPECIFICATION Spec
CONSTANTS
    Packets <- MCThree
    HostPackets = 0
    ToHostSize = 1
    TxSize = 1
    RxSize = 1
CHECK_DEADLOCK FALSE
INVARIANTS ReadyMeansPending
