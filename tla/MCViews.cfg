CONSTANTS
    a1 = a1
    a2 = a2
    a3 = a3
    v1 = v1
    v2 = v2
    Base = Base
    NoList = NoList
    FileRows <- MCFileRows
    Spare <- MCSpare
    Views <- MCViews
    Values = {0, 1}
    MaxRows = 2
    Owned = TRUE
    OneView = FALSE
    Ends = FALSE
SPECIFICATION ColSpec
INVARIANT ColumnsFollowRows
CHECK_DEADLOCK FALSE
