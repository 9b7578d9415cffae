SPECIFICATION Spec
CONSTANTS
    MaxAttempts = 2
    MaxStarts = 1
    MaxRestarts = 1
    MaxEntries = 2
CHECK_DEADLOCK FALSE
INVARIANT
    CompensationComplete
