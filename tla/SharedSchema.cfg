SPECIFICATION SharedSpec
CONSTANTS
    p1 = p1
    p2 = p2
    r1 = r1
    r2 = r2
    NoPlan = NoPlan
    Plans = {p1, p2}
    Requests = {r1, r2}
    PlanOf <- DistinctRequests
    MaxFailures = 1
    InitialCols <- MCInitialCols
    Adds <- MCAdds
    Drops <- MCDrops
    Pages = {page}
    MaxLeftover = 1
CHECK_DEADLOCK FALSE
INVARIANTS
    SharedTypeOK
    StatementsExcluded
    PromptExpandIntact
PROPERTIES
    ImplementsDatabaseOps
    ClickReachesHolder
