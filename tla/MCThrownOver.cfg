CONSTANTS
  s1 = s1
  m1 = m1
  Error = Error
  None = None
  Scalars <- MCScalars
  Containers <- MCContainers
  MaxDepth = 7
SPECIFICATION FlowSpec
INVARIANT CatchesTheFirst
