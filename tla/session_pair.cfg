SPECIFICATION Spec
CONSTANTS
    r1 = r1
    r2 = r2
    m1 = m1
    m2 = m2
    m3 = m3
    Requests <- MCRequests
    WithHandler <- MCRequest
    FirstRequest = r1
    MsgIds <- MCMsgIds3
    AckedLimit = 1
    Mishaps = {"notInited", "ungzip", "fatal", "resend", "flood", "ping"}
    MaxMishaps = 1
    NoRequest = NoRequest
    Container = Container
    StateRequest = StateRequest
    NoMsg = NoMsg
VIEW LiveState
SYMMETRY IdSymmetry
INVARIANTS TypeOK MsgIdsMatch PendingIsOwed
CHECK_DEADLOCK FALSE
PROPERTY DeliverySpec
