CONSTANTS
    t1 = t1
    t2 = t2
    t3 = t3
    t4 = t4
    Threads <- MCThreads
    NoThread = none
    TicketMod = 5
    c1 = c1
    c2 = c2
    w1 = w1
    w2 = w2
    NoConn = NoConn
    Conns <- MCConns
    Workers <- MCWorkers
    QueueSize = 1
    Modes <- MCModes
    Clients <- MCClients
    DrainSeconds = 1
    MaxFile = 2
    MaxClock = 2
    p1 = p1
    p2 = p2
    p3 = p3
    p4 = p4
    NoPid = NoPid
    Slots <- MCSlots
    Pids <- MCPids
    MaxVersion = 2
    MaxTrouble = 1
    Pool <- MCSlots
    MaxTicks = 1
SPECIFICATION Spec
INVARIANTS
    DrainedAreAnswered
    SomeoneServes
    MutualExclusion
    ServedIsAwake
    TicketsConsecutive
PROPERTIES
    QueuedAreTaken
    StopHonoured
    ChangeDetected
    SlotsRefilled
    NoOrphans
    PoolEnds
    ImplementsFifo
    NoStarvation
CHECK_DEADLOCK FALSE
