SPECIFICATION DebugSpec
INVARIANTS
    RowsOfFunctions
CHECK_DEADLOCK FALSE
