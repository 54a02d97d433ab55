SPECIFICATION Spec
CONSTANTS
    p1 = p1
    p2 = p2
    t1 = t1
    t2 = t2
    Peers <- MCPeers
    Texts <- MCTexts
    MaxKeys = 3
    MaxStarts = 3
    WritesUnread = FALSE
    None = None
SYMMETRY Interchangeable
INVARIANTS SettledIsDurable FindsRecent
PROPERTY MapIsNeverLost
CHECK_DEADLOCK FALSE
