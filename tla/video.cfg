SPECIFICATION FairSpec
CONSTANTS
    Videos <- MCVideos
    Advance = 3
    Buffer = 1
    MaxItems = 7
    MaxQueue = 2
INVARIANTS TypeOK FramesNotShared PaintsItsPicture NextIsThere SleeperIsWoken
PROPERTIES ShownInOrder PlaysToTheEnd
CHECK_DEADLOCK FALSE
