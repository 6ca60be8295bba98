SPECIFICATION Spec
CONSTANTS
    r1 = r1
    r2 = r2
    r3 = r3
    Row <- MCRow
    Key <- MCKey
    Concurrency = 3
    MaxInt = 7
SYMMETRY Symmetry
CHECK_DEADLOCK FALSE
INVARIANTS
    StableRowsReadOnce
