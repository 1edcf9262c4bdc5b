SPECIFICATION MCSpec
CONSTANTS
    n1 = n1
    h1 = h1
    NetDevs <- MCNetDevs
    HciUsers <- MCHciUsers
    MAX = 2
    RESUME = 1
    TokenMax = 3
    MaxBuf = 1
    BufNum = 2
    MaxUncounted = 2
    Sizes <- MCSizes
    ByteMax = 4
    Block = 2
INVARIANTS CreditsSafe CountersSound ReadsMatch
PROPERTIES SendCompletes
