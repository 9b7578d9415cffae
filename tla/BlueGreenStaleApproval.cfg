SPECIFICATION Spec
CONSTANTS
    InitialCols <- MCInitialCols
    BlueCols <- MCBlueCols
    GreenCols <- MCGreenCols
    ExpandSQL <- ReadmeExpand
    ContractSQL <- ReadmeContract
    RollbackSQL <- ReadmeRollback
    DefaultAttempts = 3
    DDLAttempts = 2
    HasParent = TRUE
    MaxBuffered = 2
CHECK_DEADLOCK FALSE
INVARIANT
    ContractExplicitlyApproved
