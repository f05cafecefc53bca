CONSTANTS
    l1 = l1
    l2 = l2
    Lines <- MCLines
    Marked <- MCMarked
    NoLine = NoLine
    MaxFrames = 3
    Quiet = TRUE
    MaxDepth = 2
    MaxWire = 1
SPECIFICATION DebugSpec
PROPERTY StepsOverCalls
