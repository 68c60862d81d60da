CONSTANTS
    Caller = {a, b, c}
    MaxUuid = 4
    Calls <- MCCalls
    InitialRows <- MCTables
    LimitSupported = TRUE
    Failing <- MCFailing
SPECIFICATION Spec
SYMMETRY Symmetry
CHECK_DEADLOCK FALSE
INVARIANTS
    TypeOK
    OnlyTheNamedRow
    ErrorMeansUntouched
    DeletionIsFinal
PROPERTIES
    DeletedRowsAreFinal
    NothingMissed
