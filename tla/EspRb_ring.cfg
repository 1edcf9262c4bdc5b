SPECIFICATION FairSpec
CONSTANTS
    Size = 3
    PacketLen = 2
    Packets = 2
    r1 = r1
    r2 = r2
    Readers <- MCTwoReaders
    ReadSizes <- MCSizes
    Modes <- MCModes
CHECK_DEADLOCK FALSE
INVARIANTS PointersAccount
PROPERTIES RingIsQueue SleeperIsWoken
