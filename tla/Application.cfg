SPECIFICATION MCSpec
CONSTANTS
    NoKey = NoKey
    TIMER_SIZE = 3
    MaxEdits = 3
    Fds = {a, b, c}
    None = None
    WUA_MAX = 4
    MaxWork = 1
    MaxRequests = 4
    Found = {0, 1, 3}
    MaxScan = 2
    MaxChanges = 3
    MaxScans = 2
    Chunks = 3
    Recvs = 2
    Urls = {"image"}
    MaxUploads = 3
    MaxResets = 1
INVARIANTS TimersSound ListIsExact TakenIsSending SettingsSound BootsWhole
CHECK_DEADLOCK FALSE
SYMMETRY Symmetry
