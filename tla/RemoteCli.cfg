CONSTANTS
    StartFlags <- MCFlags
    Lines <- MCLines
    jwtEnabled = TRUE
    Second = 5
    Width = 6
    MaxLines = 4
SPECIFICATION FairSpec
CHECK_DEADLOCK FALSE
INVARIANTS
    TypeOK
    SettingsGovernCalls
    ResultTellsTruth
    ExitTellsTruth
PROPERTIES
    DeadlinesEndCalls
