CONSTANTS
    t1 = t1
    t2 = t2
    ch = ch
    NoThread = NoThread
    Threads <- MCThreads
    Channels <- MCChannels
    Routes <- MCRoutes
    Servers <- MCKinds
    MaxOps = 1
    MaxPing = 1
SPECIFICATION WsSpec
PROPERTY DeadAreDropped
CHECK_DEADLOCK FALSE
