SPECIFICATION Spec
CONSTANT MaxRows = 5
CHECK_DEADLOCK FALSE
INVARIANTS
    RejectsExactlyBad
    NoRowLost
PROPERTIES
    RetryEnds
