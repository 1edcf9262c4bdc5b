SPECIFICATION MCSpec
CONSTANTS
    MaxTimeouts = 2
    MaxErrors = 1
    DialTimes = 2
    MaxLines = 2
    Servers = {s1, s2}
    SoftAp = s1
    Externals = {e1}
    Thirds = {4, 5, 6}
    OtherThirds = {4}
    Refusals = {{4}, {5}}
    MaxLeases = 2
    MaxChecks = 2
    Routers = {p, v, h}
    Phone = {p}
    Virtual = {v}
    ConnectTime = 20
    ScanTimes = {2}
    MaxCount = 2
    Image = 2
    MaxPosts = 2
    MaxRetries = 2
    MaxSessions = 3
    MaxEvents = 3
INVARIANTS OwnAnswers ModesAgree InterfacesApart SetupIsWatched ReportsAreTrue SessionsApart
PROPERTIES SetupsEnd
CHECK_DEADLOCK FALSE
