SPECIFICATION Spec
CONSTANTS
    Commands <- MCCommands
    MaxConns = 2
    Shards = 2
    Copies = 2
    TableNames = {"before", "load", "after", "total"}
    EventCap = 2
CHECK_DEADLOCK FALSE
INVARIANTS
    ScriptsAtomic
    InOrder
    SummaryIsFinal
PROPERTIES
    LoadBetweenScripts
    CommandEnds
