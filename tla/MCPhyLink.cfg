SPECIFICATION Spec
CONSTANTS
    LAN8742_MAX_DEV_ADDR = 3
    PhyAddr = 1
INVARIANTS
    TypeOK
    UpWasSeen
    NoFalseDown
