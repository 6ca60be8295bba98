SPECIFICATION RowSpec
CONSTANTS
    Jobs <- MCJobs
    BatchSize = 2
    MaxLine = 10
CHECK_DEADLOCK FALSE
INVARIANTS
    RowsFramed
    ValuesArrive
    RowsArrive
    PooledIsIdle
PROPERTY
    LoadAndCopierEnd
