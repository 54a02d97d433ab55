SPECIFICATION Spec
CONSTANTS
    r1 = r1
    r2 = r2
    m1 = m1
    m2 = m2
    m3 = m3
    Requests <- MCRequest
    WithHandler <- MCRequest
    FirstRequest = NoRequest
    MsgIds <- MCMsgIds3
    AckedLimit = 1
    Mishaps = {"late", "resend", "newSession", "repeat", "fatal", "restart",
               "reset", "keyLost", "stop"}
    MaxMishaps = 3
    NoRequest = NoRequest
    Container = Container
    StateRequest = StateRequest
    NoMsg = NoMsg
VIEW LiveState
SYMMETRY IdSymmetry
INVARIANTS NoRequestLost NoLostWakeUp SentOnce
CHECK_DEADLOCK FALSE
