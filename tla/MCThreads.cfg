CONSTANTS
    w1 = w1
    w2 = w2
    FiberMax = 2
    Workers <- MCWorkers
    Values = {0, 1}
    NoScope = none
    MaxMs = 1
    MaxOps = 2
    l1 = l1
    l2 = l2
    Lines <- MCLines
    Marked <- MCMarked
    NoLine = NoLine
    MaxFrames = 3
    Quiet = TRUE
    MaxDepth = 2
    MaxWire = 1

SPECIFICATION SpecT

INVARIANTS
    ScopeIsolated
    OneJobEach
    NoMissedDone

PROPERTIES
    AwaitReturnsFinished
    StepsStayAbove
    AwaitCompletes
    Resumes
    AcceptsAgain
