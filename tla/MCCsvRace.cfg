CONSTANTS
    Files <- MCEnded
    Counts = {1, 2, 3}
    Modes <- MCLists
SPECIFICATION CsvSpec
INVARIANT EveryRowLoaded
CHECK_DEADLOCK FALSE
