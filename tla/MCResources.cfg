CONSTANTS
    k1 = k1
    k2 = k2
    Slots <- MCSlots
    Keys <- MCKeys
    NoKey = NoKey
    MaxConns = 4
    MaxRequests = 2
    Files <- MCFiles
    Counts = {1, 2, 3, 4}
    Modes <- MCModes
    t1 = t1
    t2 = t2
    ch = ch
    NoThread = NoThread
    Threads <- MCThreads
    Channels <- MCChannels
    Routes <- MCRoutes
    Servers <- MCKinds
    MaxOps = 1
    MaxPing = 1
    a1 = a1
    a2 = a2
    a3 = a3
    v1 = v1
    v2 = v2
    Base = Base
    NoList = NoList
    FileRows <- MCFileRows
    Spare <- MCSpare
    Views <- MCViews
    Values = {0, 1}
    MaxRows = 2
    Owned = TRUE
    OneView = TRUE
    Ends = FALSE
SPECIFICATION Spec
INVARIANTS
    TxNotInherited
    HandlesHold
    NothingLeaks
    ColumnsMirrorList
    FrameIsFile
    TargetsStillOpen
    HandlerSetUp
    CachesSound
PROPERTY ThreadsComeBack
CHECK_DEADLOCK FALSE
