CONSTANTS
    NamesTexts <- MCNames
    EmailTexts <- MCEmails
    OtherTexts <- MCOthers
    MaxRequests = 2
    MaxEdits = 2
SPECIFICATION Spec
CHECK_DEADLOCK FALSE
INVARIANTS
    OneRequestAtATime
