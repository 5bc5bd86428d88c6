SPECIFICATION FairSpec
CONSTANTS
    c1 = c1
    c2 = c2
    c3 = c3
    Conns = {c1, c2}
    None = None
    BYTES <- MCBytes
    NUM_NETCONN = 4
    NUM_PCB = 2
    ACCEPTMBOX = 1
    RECVMBOX = 1
    WND = 3
    SND_BUF = 1
    Chains <- MCChains
PROPERTIES
    FinPresentedAgain
CHECK_DEADLOCK FALSE
