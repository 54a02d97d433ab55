SPECIFICATION Spec
CONSTANTS
    MaxPts <- ChannelPts
    MaxSeq = 0
    MaxNumbers = 3
    MaxFlight = 2
    Mishaps = {"channelFails"}
    MaxMishaps = 1
INVARIANTS RequestEnds
CHECK_DEADLOCK FALSE
