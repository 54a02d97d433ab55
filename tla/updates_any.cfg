SPECIFICATION Spec
CONSTANTS
    MaxPts <- ChannelPts
    MaxSeq = 3
    MaxNumbers = 3
    MaxFlight = 2
    Mishaps = {"notLoaded", "newSession", "accountFails", "empty", "channelFails", "unknownChannel"}
    MaxMishaps = 1
INVARIANTS NothingSkipped NoContainerSkipped HeldContainersAreWatched
PROPERTY NeverBack
CHECK_DEADLOCK FALSE
