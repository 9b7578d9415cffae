SPECIFICATION FairSpec
CONSTANTS
    p1 = p1
    p2 = p2
    r1 = r1
    r2 = r2
    r3 = r3
    NoPlan = NoPlan
    Plans = {p1, p2}
    Requests = {r1, r2, r3}
    PlanOf <- RacingRequests
    MaxFailures = 2
CHECK_DEADLOCK FALSE
INVARIANTS
    TypeOK
    MutualExclusion
    CompletionFromHolder
PROPERTIES
    LockLostOnlyBy
    ImplementsSchemaLock
    LockReleased
    RecycleHappens
