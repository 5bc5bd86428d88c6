SPECIFICATION Spec
CONSTANTS
    MAX_TRIES = 2
    REQUEST_TRIES = 1
    TRIES_CAP = 2
    InfiniteLeases = FALSE
INVARIANT NoLeaseDiscarded
