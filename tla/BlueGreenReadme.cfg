SPECIFICATION Spec
CONSTANTS
    InitialCols <- MCInitialCols
    BlueCols <- MCBlueCols
    GreenCols <- MCGreenCols
    ExpandSQL <- ReadmeExpand
    ContractSQL <- ReadmeContract
    RollbackSQL <- ReadmeRollback
    DefaultAttempts = 3
    DDLAttempts = 2
    HasParent = TRUE
    MaxBuffered = 1
CHECK_DEADLOCK FALSE
INVARIANTS
    TypeOK
    BlueServable
    ReadOnlyConfined
    OverlongWindowUndone
    ContractXorRollback
    TerminalMeansIdle
PROPERTY
    ImplementsLifecycle
    NeverBack
