SPECIFICATION Spec
CONSTANTS
    a = a
    b = b
    r1 = r1
    r2 = r2
    NoParent = NoParent
    Table <- MCTable
    Order <- MCOrder
    Parent <- MCParent
    Row <- MCRow
    Schemas = {"public", "other"}
    OptionSets <- MCOptionSets
    MaxRuns = 3
CHECK_DEADLOCK FALSE
INVARIANTS
    LoadedOnce
    DropMakesRerunSafe
    CompleteMeansComplete
