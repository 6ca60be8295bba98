SPECIFICATION ViewSpec
CONSTANTS
    Views = 3
    MaxRuns = 3
CHECK_DEADLOCK FALSE
INVARIANTS
    UserTablesKept
    LeavesNoTrace
