CONSTANTS
    t1 = t1
    t2 = t2
    t3 = t3
    NoThread = NoThread
    Threads <- MCThreads
    Overlaps = {TRUE, FALSE}
    o1 = o1
    o2 = o2
    Owners <- MCOwners
    NoOwner = none
    TaskMax = 2
    Slots = {0}
    Overlap = TRUE
    OneCall = FALSE
    NoCross = TRUE
    MaxOps = 4
SPECIFICATION Spec
PROPERTY ReplyIsItsOwn
