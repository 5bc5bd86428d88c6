SPECIFICATION FairSpec
CONSTANTS
    c1 = c1
    c2 = c2
    c3 = c3
    Conns = {c1, c2, c3}
    None = None
    BYTES <- MCBytes
    NUM_NETCONN = 3
    NUM_PCB = 2
    ACCEPTMBOX = 1
    RECVMBOX = 2
    WND = 4
    SND_BUF = 1
    Chains <- MCChains
PROPERTIES
    EveryoneServed
INVARIANTS
    TypeOK
    NetconnOwned
    ServerWoken
    EchoInOrder
    UnreadMeansReset
CHECK_DEADLOCK FALSE
