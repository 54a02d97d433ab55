SPECIFICATION FairSpec
CONSTANTS
    r1 = r1
    r2 = r2
    m1 = m1
    m2 = m2
    m3 = m3
    Requests <- MCRequest
    WithHandler <- MCRequest
    FirstRequest = NoRequest
    MsgIds <- MCMsgIds3
    AckedLimit = 2
    Mishaps = {"flood", "notInited", "resend", "newSession", "repeat", "fatal",
               "restart", "reset", "keyLost"}
    MaxMishaps = 1
    NoRequest = NoRequest
    Container = Container
    StateRequest = StateRequest
    NoMsg = NoMsg
PROPERTY EveryRequestEnds
CHECK_DEADLOCK FALSE
