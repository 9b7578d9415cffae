SPECIFICATION FairSpec
CONSTANTS
    InitialCols <- MCInitialCols
    BlueCols <- MCBlueCols
    GreenCols <- PlainGreenCols
    ExpandSQL <- PlainExpand
    ContractSQL <- PlainContract
    RollbackSQL <- PlainRollback
    DefaultAttempts = 2
    DDLAttempts = 2
    HasParent = FALSE
    MaxBuffered = 1
CHECK_DEADLOCK FALSE
INVARIANTS
    RolledBackUndone
    GreenServable
PROPERTIES
    ReachesGateOrEnd
    PendingRollbackEnds
