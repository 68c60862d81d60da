CONSTANTS
    Conn = {c1, c2, c3}
    Backlog = 1
SPECIFICATION FairSpec
CHECK_DEADLOCK FALSE
INVARIANTS
    TypeOK
    NoSendOnClosedChannel
    ExitsAreCounted
    EndsOnlyWhenNothingIsServed
PROPERTIES
    RootFailureEndsProcess
    LastReturnEndsProcess
    QueuedConnectionsLeave
