CONSTANTS
    Names <- MCNames
    Cells <- MCCells
    Globals <- MCGlobals
    MaxSlots = 5
    MaxFrames = 2
    Ast <- MCAst
    Method <- MCMethod
    BcCall = FALSE
    Exactly = 4
    s1 = s1
    m1 = m1
    Error = Error
    None = None
    Scalars <- MCScalars
    Containers <- MCContainers
    MaxDepth = 7
SPECIFICATION SpecW
INVARIANTS
    EnginesAgree
    CatchesTheThrown
    ReturnsToItsCaller
    JumpsStayInLoop
PROPERTY CallerSeesItsOwn
