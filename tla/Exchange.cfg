SPECIFICATION LiveSpec
INVARIANTS
    HandoverIsExclusive
    FailureClosesConnection
PROPERTIES
    CancellationIsReported
    CancelEndsOpen
    ConnectionsEnd
CHECK_DEADLOCK FALSE
