CONSTANTS
    Request = {r1, r2}
    UUID = {u1, u2}
    Handle = {h1, h2}
    NoHandle = NoHandle
    NoOwner = NoOwner
    Calls <- MCCalls
    jwtEnabled = TRUE
    sqliteMigrate = FALSE
    MaxKills = 1
SPECIFICATION Spec
SYMMETRY Symmetry
CHECK_DEADLOCK FALSE
INVARIANTS
    TypeOK
    ReplyTellsTruth
    OneRowPerCall
    OnlyPermittedRows
    ChecksAgree
    HandleUsable
    LockIsHeldByCommitter
PROPERTIES
    RowsOnlyGrow
    ImplementsService
