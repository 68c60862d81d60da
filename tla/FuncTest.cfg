SPECIFICATION Spec
CHECK_DEADLOCK FALSE
INVARIANTS
    PassMeansRecorded
    MetricsFollowTheOthers
PROPERTIES
    SessionEnds
