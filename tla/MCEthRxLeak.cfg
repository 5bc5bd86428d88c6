SPECIFICATION Spec
CONSTANTS
    ETH_RX_DESC_CNT = 3
    PBUF_POOL_SIZE = 3
    TCPIP_MBOX_SIZE = 4
    MEMP_NUM_TCPIP_MSG_INPKT = 4
    MAX_FRAGS = 2
    FRAME_IDS = 2
INVARIANT NoPbufLeak
