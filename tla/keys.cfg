SPECIFICATION FairSpec
CONSTANTS
    s1 = s1
    s2 = s2
    Sessions <- MCSessions
    Mishaps = {"fails", "dropped", "destroyed", "noRsaKey", "stopped"}
    MaxMishaps = 2
    MaxSlots = 1
    NoOne = NoOne
INVARIANTS LockIsUsed StaleKeyIsTold NotAllForgotten
PROPERTIES StopReturns AllGetTheKey
CHECK_DEADLOCK FALSE
