SPECIFICATION Spec
CONSTANTS
    ETH_RX_DESC_CNT = 3
    PBUF_POOL_SIZE = 2
    TCPIP_MBOX_SIZE = 2
    MEMP_NUM_TCPIP_MSG_INPKT = 1
    MAX_FRAGS = 2
    FRAME_IDS = 3
INVARIANTS
    NoSharedBuffer
    AllocNeverFails
    FrameIntact
    NoUseAfterFree
