SPECIFICATION SchemaSpec
CONSTANTS
    Jobs <- MCJobs
    MaxRounds = 2
INVARIANTS
    CatalogComplete
    KeysRead
    DefaultsKept
    FiltersKept
    TargetComplete
    OnlyKnownRefusals
PROPERTY OthersSpared
CHECK_DEADLOCK FALSE
