CONSTANTS
    NamesTexts <- MCNames
    EmailTexts <- MCEmails
    OtherTexts <- MCOthers
    MaxRequests = 2
    MaxEdits = 4
SPECIFICATION Spec
CHECK_DEADLOCK FALSE
INVARIANTS
    TypeOK
    ConfirmationIsTrue
    NeverRefusedAsTooShort
PROPERTIES
    RefusalIsFlagged
