CONSTANTS
    lo = lo
    mid = mid
    hi = hi
    Idle = Idle
    Base <- MCBase
    TICKS = 3
    TIMEOUT = 1
    PENDED = 1
    Tasks = {lo, mid, hi}
    Ops <- MCMutexOps
    Mutexes = {1, 2}
    Msgs = {m1}
    MBOX_SIZE = 1
    OVERFLOWS = 1
    ISR_POSTS = FALSE
    MUTEX_EXPIRES = FALSE
SPECIFICATION FairSpec
INVARIANTS
    TopReadyExact
    MutualExclusion
    NoPriorityInversion
PROPERTY TopTaskGetsMutex
