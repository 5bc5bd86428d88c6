SPECIFICATION FairSpec
CONSTANTS
    MAX_TRIES = 3
    REQUEST_TRIES = 2
    TRIES_CAP = 4
    InfiniteLeases = FALSE
INVARIANTS
    TypeOK
    PcbWhileRunning
    FallbackComplete
PROPERTIES
    StaticStays
    AddressEventually
