CONSTANTS
    StartFlags <- MCFlags
    Lines <- MCCalls
    jwtEnabled = TRUE
    Second = 5
    Width = 6
    MaxLines = 2
SPECIFICATION FairSpec
CHECK_DEADLOCK FALSE
PROPERTIES
    TimeoutEndsCalls
