CONSTANTS
    Client = {c1}
    Asks <- MCAsks
    Cors = TRUE
SPECIFICATION Spec
INVARIANTS
    TypeOK
    HttpTellsTruth
    OnlyThePostRecords
    PagesAnswer
PROPERTIES
    RequestsEnd
