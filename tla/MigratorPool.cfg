SPECIFICATION FairSpec
CONSTANTS
    Conns = {c1, c2}
    Worker = worker
    Pages = {page}
CHECK_DEADLOCK FALSE
INVARIANTS
    TypeOK
    ConnectionsAccounted
    UndisturbedChecksTruthful
    UndisturbedReleaseComplete
PROPERTY
    EveryCallServed
