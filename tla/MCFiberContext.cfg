CONSTANTS
    w1 = w1
    FiberMax = 2
    Workers <- MCWorkers
    Values = {0}
    NoScope = none
    MaxMs = 1
    MaxOps = 1

SPECIFICATION FSpec

PROPERTY
    ContextKept
