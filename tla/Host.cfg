SPECIFICATION MCSpec
CONSTANTS
    serial = serial
    Users <- MCUsers
    MAX = 2
    RESUME = 1
    MaxReinit = 1
    MaxFail = 1
    MaxHci = 0
    MaxLoads = 2
    MaxPackets = 2
    BUFFER_NUM = 3
    SerialTasks = {w1, w2}
    MaxFragments = 3
    Numbers = 2
    MaxMessages = 3
CHECK_DEADLOCK FALSE
INVARIANTS CounterCovers CardSound ReceivePathSound
