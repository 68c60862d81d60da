CONSTANTS
    Request = {r1, r2}
    UUID = {u1, u2}
    Handle = {h1, h2}
    NoHandle = NoHandle
    NoOwner = NoOwner
    Calls <- MCWriters
    jwtEnabled = FALSE
    sqliteMigrate = FALSE
    MaxKills = 1
SPECIFICATION FairSpec
CHECK_DEADLOCK FALSE
PROPERTIES
    EveryCallEnds
