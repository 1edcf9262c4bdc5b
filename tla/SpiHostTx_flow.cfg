SPECIFICATION FlowSpec
CONSTANTS
    serial = serial
    Users <- MCUsers
    MAX = 2
    RESUME = 1
    MaxReinit = 0
    MaxFail = 0
    MaxHci = 1
INVARIANTS NoLostKick CountersSound
PROPERTIES ResumeDecisionSound NetdevsRecover
