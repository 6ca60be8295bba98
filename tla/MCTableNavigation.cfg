SPECIFICATION NavSpec
CONSTANTS
    Name <- MCName
    Catalogs <- MCCatalogs
    Configured <- MCConfigured
CHECK_DEADLOCK FALSE
INVARIANTS
    EachTableOnce
    FindsItsTables
