SPECIFICATION FairSpec
CONSTANTS
    ETH_RX_DESC_CNT = 4
    PBUF_POOL_SIZE = 3
    TCPIP_MBOX_SIZE = 4
    MEMP_NUM_TCPIP_MSG_INPKT = 3
    MAX_FRAGS = 1
    FRAME_IDS = 1
INVARIANTS
    TypeOK
    NoPbufLeak
PROPERTIES
    DescRecycled
    MailboxServed
