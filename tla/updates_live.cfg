SPECIFICATION FairSpec
CONSTANTS
    MaxPts <- AccountPts
    MaxSeq = 0
    MaxNumbers = 3
    MaxFlight = 2
    Mishaps = {"notLoaded", "newSession", "accountFails"}
    MaxMishaps = 1
INVARIANTS TypeOK NothingSkipped RequestEnds GapIsWatched ShownChannelIsPolled
PROPERTIES InOrder HolesClose
CHECK_DEADLOCK FALSE
