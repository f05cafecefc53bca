CONSTANTS
  Names <- MCNames
  Cells <- MCCells
  Globals <- MCGlobals
  MaxSlots = 5
  MaxFrames = 2
  Ast <- MCAstInline
  Method <- MCMethod
  BcCall = TRUE
  Exactly = 4
SPECIFICATION Spec
INVARIANT EnginesAgree
