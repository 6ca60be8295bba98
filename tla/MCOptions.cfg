SPECIFICATION OptionsSpec
CONSTANTS
    Offered <- MCOffered
    MaxOptions = 2
CHECK_DEADLOCK FALSE
INVARIANTS
    LastOptionWins
