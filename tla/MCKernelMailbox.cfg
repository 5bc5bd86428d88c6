CONSTANTS
    lo = lo
    mid = mid
    hi = hi
    Idle = Idle
    Base <- MCBase
    TICKS = 3
    TIMEOUT = 1
    PENDED = 1
    Tasks = {lo, hi}
    Ops <- MCMailboxOps
    Mutexes = {}
    Msgs = {m1, m2}
    MBOX_SIZE = 2
    OVERFLOWS = 2
    ISR_POSTS = TRUE
    MUTEX_EXPIRES = FALSE
SPECIFICATION Spec
INVARIANTS
    TypeOK
    OneStateList
    NoOversleep
    NoLostWakeup
    HighestReadyRuns
PROPERTY ImplementsMailbox
