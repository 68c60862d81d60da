CONSTANTS
    Caller = {a}
    MaxUuid = 2
    Calls <- MCUpdate
    InitialRows <- MCTables
    LimitSupported = FALSE
    Failing = {}
SPECIFICATION Spec
CHECK_DEADLOCK FALSE
PROPERTIES
    UpdateTakesEffect
