SPECIFICATION Spec
CONSTANTS
    MaxAttempts = 2
    MaxStarts = 2
    MaxRestarts = 1
    MaxEntries = 2
CHECK_DEADLOCK FALSE
INVARIANTS
    TypeOK
    SuccessAgrees
    FailureRecorded
    ReportedConnectorUndone
PROPERTIES
    OthersConnectorKept
    ImplementsSaga
    RunsAdvance
