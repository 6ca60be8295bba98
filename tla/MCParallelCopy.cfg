SPECIFICATION FairSpec
CONSTANTS
    s1 = s1
    s2 = s2
    s3 = s3
    r1 = r1
    r2 = r2
    r3 = r3
    r4 = r4
    Shard <- MCShard
    Row <- MCRow
    ShardRows <- MCShardRows
    RowBytes <- MCRowBytes
    BatchSize = 2
    BatchBytes = 3
    MaxConns = 2
    EventCap = 1
    Table = "t"
    TableNames = {"t"}
INVARIANTS
    NoDuplicates
    SuccessIsComplete
    RootCauseReported
    SummaryExact
PROPERTIES
    NothingRunsAfterReturn
    LoadEnds
    ImplementsTableLoad
