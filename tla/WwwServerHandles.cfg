CONSTANTS
    Request = {r1, r2}
    UUID = {u1, u2}
    Handle = {h1, h2}
    NoHandle = NoHandle
    NoOwner = NoOwner
    Calls <- MCWriters
    jwtEnabled = FALSE
    sqliteMigrate = TRUE
    MaxKills = 0
SPECIFICATION Spec
CHECK_DEADLOCK FALSE
INVARIANTS
    OneHandlePerProcess
