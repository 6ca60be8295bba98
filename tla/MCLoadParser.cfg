SPECIFICATION Spec
CONSTANT Files <- MCFiles
CHECK_DEADLOCK FALSE
INVARIANTS
    TextsInTheirClause
    NothingLost
    WellFormedIsRead
PROPERTY
    Terminates
