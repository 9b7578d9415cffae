SPECIFICATION Spec
CONSTANTS
    Conns = {c1, c2}
    Worker = worker
    Pages = {page}
CHECK_DEADLOCK FALSE
INVARIANT
    ReleaseComplete
