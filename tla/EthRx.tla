-------------------------------- MODULE EthRx --------------------------------
(***************************************************************************)
(* The receive path: the Ethernet DMA fills descriptors, the eth_poll task *)
(* (ethernetif_poll -> HAL_ETH_ReadData -> the two HAL callbacks of        *)
(* ethernetif.c) copies every fragment into a pool pbuf and posts the      *)
(* frame to the tcpip thread, which consumes it or leaves it queued for    *)
(* the application.                                                        *)
(*                                                                         *)
(* eth_poll has the highest priority and does not block between two        *)
(* delays, so the tcpip thread and the application step only while it      *)
(* sleeps; the DMA runs at any time, between any two steps of eth_poll.    *)
(* HAL_ETH_ReadData and ETH_UpdateDescriptor belong to the STM32 HAL and   *)
(* are modelled from how ethernetif.c uses them.                           *)
(*                                                                         *)
(* A fragment is <<frame, number>>; frame numbers wrap at FRAME_IDS.       *)
(***************************************************************************)
EXTENDS Integers, Sequences, FiniteSets, FiniteSetsExt

CONSTANTS
    ETH_RX_DESC_CNT,          \* Rx descriptors, and Rx buffers (RX_POOL_SIZE)
    PBUF_POOL_SIZE,           \* pbufs in lwIP's PBUF_POOL (8)
    TCPIP_MBOX_SIZE,          \* capacity of tcpip_mbox (16)
    MEMP_NUM_TCPIP_MSG_INPKT, \* messages for received packets (16)
    MAX_FRAGS,                \* bound: descriptors one frame may span
    FRAME_IDS                 \* bound: distinct frame numbers

ASSUME EthRxAssumption ==
    /\ ETH_RX_DESC_CNT \in Nat \ {0} /\ PBUF_POOL_SIZE \in Nat \ {0}
    /\ TCPIP_MBOX_SIZE \in Nat \ {0} /\ MEMP_NUM_TCPIP_MSG_INPKT \in Nat \ {0}
    /\ MAX_FRAGS \in Nat \ {0} /\ FRAME_IDS \in Nat \ {0}

Descs == 0 .. ETH_RX_DESC_CNT - 1
Bufs  == 0 .. ETH_RX_DESC_CNT - 1     \* indices into RxBuf
Pbufs == 1 .. PBUF_POOL_SIZE
NULL  == -1
OOSEQ == <<0>>   \* the message pbuf_free_ooseq_callback (no pbuf has number 0)

VARIABLES
    own,              \* DESC0 OWN bit: does the DMA own the descriptor?
    att,              \* BackupAddr0: buffer attached to the descriptor, or NULL
    fs, ls,           \* DESC0 first and last segment bits
    dmaIdx,           \* next descriptor the DMA uses
    dmaFrag,          \* fragments of the current frame already written
    frame,            \* number of the frame being received
    RxBuf,            \* content of every Rx buffer
    RxBufInUse,
    RxDescIdx, RxBuildDescIdx, RxBuildDescCnt, pRxStart,  \* heth.RxDescList
    pc,               \* where eth_poll is
    rxdataready,      \* local of HAL_ETH_ReadData
    buff,             \* buffer handed to RxLinkCallback
    q,                \* pbuf allocated by RxLinkCallback, or NULL
    p,                \* frame handed to netif->input
    ref,              \* pbuf reference counts, 0: in the free pool
    data,             \* content of the pbufs at pRxStart, then at p
    pbuf_free_ooseq_pending,
    tcpip_mbox,
    cur,              \* message the tcpip thread is handling, or << >>
    held              \* frames queued for the application

dmaVars   == <<own, att, fs, ls, dmaIdx, dmaFrag, frame, RxBuf>>
halVars   == <<RxDescIdx, RxBuildDescIdx, RxBuildDescCnt, pRxStart, rxdataready>>
pollVars  == <<pc, buff, q, p>>
tcpipVars == <<pbuf_free_ooseq_pending, tcpip_mbox, cur, held>>
vars == <<dmaVars, RxBufInUse, halVars, pollVars, ref, data, tcpipVars>>

Incr(d) == (d + 1) % ETH_RX_DESC_CNT
-----------------------------------------------------------------------------
(* The DMA (hardware).                                                     *)

\* The DMA writes one fragment into the buffer of the next descriptor it
\* owns and hands that descriptor to the CPU.
DmaReceive(last) ==
    /\ own[dmaIdx]
    /\ dmaFrag + 1 = MAX_FRAGS => last
    /\ RxBuf' = [RxBuf EXCEPT ![att[dmaIdx]] = <<frame, dmaFrag + 1>>]
    /\ fs' = [fs EXCEPT ![dmaIdx] = (dmaFrag = 0)]
    /\ ls' = [ls EXCEPT ![dmaIdx] = last]
    /\ own' = [own EXCEPT ![dmaIdx] = FALSE]
    /\ dmaIdx' = Incr(dmaIdx)
    /\ dmaFrag' = IF last THEN 0 ELSE dmaFrag + 1
    /\ frame' = IF last THEN (frame + 1) % FRAME_IDS ELSE frame
    /\ UNCHANGED <<att, RxBufInUse, halVars, pollVars, ref, data, tcpipVars>>

-----------------------------------------------------------------------------
(* lwIP's pbuf pool and mailbox.                                           *)

FreePbufs == {x \in Pbufs : ref[x] = 0}

\* References dropped by pbuf_free(chain): the walk stops at the first pbuf
\* that somebody else still references.
pbuf_free(chain) ==
    [x \in Pbufs |->
        IF \E i \in DOMAIN chain : chain[i] = x /\ \A j \in 1 .. i - 1 : ref[chain[j]] = 1
        THEN ref[x] - 1
        ELSE ref[x]]

\* pbuf_free() of several frames that share no pbuf.
pbuf_free_all(chains) ==
    [x \in Pbufs |-> Min({pbuf_free(c)[x] : c \in chains} \cup {ref[x]})]

\* Packet messages taken from the MEMP_TCPIP_MSG_INPKT pool: the queued ones
\* and the one the tcpip thread has not finished with.
InpktMsgs ==
    Cardinality({i \in DOMAIN tcpip_mbox : tcpip_mbox[i] # OOSEQ})
      + (IF cur \notin {<< >>, OOSEQ} THEN 1 ELSE 0)

\* pbuf_alloc() found the pool empty: ask the tcpip thread once to give up
\* out-of-sequence segments; a full mailbox withdraws the request.
PBUF_POOL_IS_EMPTY ==
    IF pbuf_free_ooseq_pending \/ Len(tcpip_mbox) = TCPIP_MBOX_SIZE
    THEN UNCHANGED <<pbuf_free_ooseq_pending, tcpip_mbox>>
    ELSE /\ pbuf_free_ooseq_pending' = TRUE
         /\ tcpip_mbox' = Append(tcpip_mbox, OOSEQ)

-----------------------------------------------------------------------------
(* eth_poll: ethernetif_poll() and what it calls.                          *)

\* vTaskDelay(5 ms) is over.
PollWake ==
    /\ pc = "sleep" /\ pc' = "read"
    /\ UNCHANGED <<dmaVars, RxBufInUse, halVars, buff, q, p, ref, data, tcpipVars>>

\* HAL_ETH_ReadData, loop condition and body up to the link callback: a
\* fragment with no first fragment before it is skipped, its buffer stays.
ReadDesc ==
    /\ pc = "read"
    /\ ~own[RxDescIdx] /\ RxBuildDescCnt < ETH_RX_DESC_CNT /\ ~rxdataready
    /\ IF fs[RxDescIdx] \/ pRxStart # << >>
       THEN /\ pc' = "link"
            /\ buff' = att[RxDescIdx]
            /\ rxdataready' = ls[RxDescIdx]
            /\ UNCHANGED <<RxDescIdx, RxBuildDescCnt>>
       ELSE /\ RxDescIdx' = Incr(RxDescIdx)
            /\ RxBuildDescCnt' = RxBuildDescCnt + 1
            /\ UNCHANGED <<pc, buff, rxdataready>>
    /\ UNCHANGED <<dmaVars, RxBufInUse, RxBuildDescIdx, pRxStart, q, p, ref,
                   data, tcpipVars>>

ReadDone ==
    /\ pc = "read"
    /\ own[RxDescIdx] \/ RxBuildDescCnt = ETH_RX_DESC_CNT \/ rxdataready
    /\ pc' = "update"
    /\ UNCHANGED <<dmaVars, RxBufInUse, halVars, buff, q, p, ref, data, tcpipVars>>

\* Mutant of LinkAlloc: return on a failed pbuf_alloc before the DMA buffer
\* went back to the pool.
LinkAllocEarlyReturn ==
    /\ pc = "link" /\ pc' = "take"
    /\ \/ /\ FreePbufs # {}
          /\ RxBufInUse' = [RxBufInUse EXCEPT ![buff] = FALSE]
          /\ q' = Min(FreePbufs)
          /\ ref' = [ref EXCEPT ![q'] = 1]
          /\ UNCHANGED <<pbuf_free_ooseq_pending, tcpip_mbox>>
       \/ /\ FreePbufs = {}
          /\ q' = NULL
          /\ PBUF_POOL_IS_EMPTY
          /\ UNCHANGED <<ref, RxBufInUse>>
    /\ UNCHANGED <<dmaVars, halVars, buff, p, data, cur, held>>

\* HAL_ETH_RxLinkCallback up to line 66: allocate a pbuf and return the DMA
\* buffer to the pool whether that worked or not.
LinkAlloc ==
    /\ pc = "link" /\ pc' = "take"
    /\ RxBufInUse' = [RxBufInUse EXCEPT ![buff] = FALSE]
    /\ \/ /\ FreePbufs # {}
          /\ q' = Min(FreePbufs)
          /\ ref' = [ref EXCEPT ![q'] = 1]
          /\ UNCHANGED <<pbuf_free_ooseq_pending, tcpip_mbox>>
       \/ /\ FreePbufs = {}
          /\ q' = NULL
          /\ PBUF_POOL_IS_EMPTY
          /\ UNCHANGED ref
    /\ UNCHANGED <<dmaVars, halVars, buff, p, data, cur, held>>

\* pbuf_chain(head, t) keeps the caller's reference to t.
ChainRef(x) == IF pRxStart = << >> THEN ref ELSE [ref EXCEPT ![x] = @ + 1]

\* HAL_ETH_RxLinkCallback from line 68: copy the fragment and chain it; then
\* ReadData clears BackupAddr0 and advances.
LinkTake ==
    /\ pc = "take" /\ pc' = "read"
    /\ IF q = NULL
       THEN UNCHANGED <<data, pRxStart, ref>>
       ELSE /\ data' = Append(data, RxBuf[buff])
            /\ pRxStart' = Append(pRxStart, q)
            /\ ref' = ChainRef(q)
    /\ att' = [att EXCEPT ![RxDescIdx] = NULL]
    /\ RxDescIdx' = Incr(RxDescIdx)
    /\ RxBuildDescCnt' = RxBuildDescCnt + 1
    /\ buff' = NULL /\ q' = NULL
    /\ UNCHANGED <<own, fs, ls, dmaIdx, dmaFrag, frame, RxBuf, RxBufInUse,
                   RxBuildDescIdx, rxdataready, p, tcpipVars>>

\* Mutant of RxAllocate: RxBufInUse is not consulted.
RxAllocateAny == 0

\* HAL_ETH_RxAllocateCallback: the first buffer not in use, or NULL.
RxAllocate ==
    LET free == {b \in Bufs : ~RxBufInUse[b]}
    IN  IF free = {} THEN NULL ELSE Min(free)

\* ETH_UpdateDescriptor, one descriptor: attach a buffer unless one is still
\* attached, then give the descriptor to the DMA.
UpdateDesc ==
    /\ pc = "update" /\ RxBuildDescCnt > 0
    /\ LET d == RxBuildDescIdx
           b == IF att[d] = NULL THEN RxAllocate ELSE att[d]
       IN  IF b = NULL
           THEN /\ pc' = "return"
                /\ UNCHANGED <<att, own, RxBufInUse, RxBuildDescIdx, RxBuildDescCnt>>
           ELSE /\ att' = [att EXCEPT ![d] = b]
                /\ RxBufInUse' = [RxBufInUse EXCEPT ![b] = TRUE]
                /\ own' = [own EXCEPT ![d] = TRUE]
                /\ RxBuildDescIdx' = Incr(d)
                /\ RxBuildDescCnt' = RxBuildDescCnt - 1
                /\ UNCHANGED pc
    /\ UNCHANGED <<fs, ls, dmaIdx, dmaFrag, frame, RxBuf, RxDescIdx, pRxStart,
                   rxdataready, buff, q, p, ref, data, tcpipVars>>

UpdateDone ==
    /\ pc = "update" /\ RxBuildDescCnt = 0
    /\ pc' = "return"
    /\ UNCHANGED <<dmaVars, RxBufInUse, halVars, buff, q, p, ref, data, tcpipVars>>

\* Mutant of ReadReturn: continue instead of break when p == NULL.
ReadReturnContinue ==
    /\ pc = "return"
    /\ rxdataready' = FALSE
    /\ IF rxdataready
       THEN /\ p' = pRxStart /\ pRxStart' = << >>
            /\ pc' = IF pRxStart = << >> THEN "read" ELSE "input"
       ELSE /\ pc' = "sleep"
            /\ UNCHANGED <<p, pRxStart>>
    /\ UNCHANGED <<dmaVars, RxBufInUse, RxDescIdx, RxBuildDescIdx, RxBuildDescCnt,
                   buff, q, ref, data, tcpipVars>>

\* HAL_ETH_ReadData returns: HAL_OK with the frame, or HAL_ERROR.  A frame
\* whose fragments found no pbuf is NULL and ends the poll, like HAL_ERROR.
ReadReturn ==
    /\ pc = "return"
    /\ rxdataready' = FALSE
    /\ IF rxdataready
       THEN /\ p' = pRxStart /\ pRxStart' = << >>
            /\ pc' = IF pRxStart = << >> THEN "sleep" ELSE "input"
       ELSE /\ pc' = "sleep"
            /\ UNCHANGED <<p, pRxStart>>
    /\ UNCHANGED <<dmaVars, RxBufInUse, RxDescIdx, RxBuildDescIdx, RxBuildDescCnt,
                   buff, q, ref, data, tcpipVars>>

\* netif->input() can take the frame: a message is free and the mailbox is
\* not full.
CanInput ==
    /\ InpktMsgs < MEMP_NUM_TCPIP_MSG_INPKT
    /\ Len(tcpip_mbox) < TCPIP_MBOX_SIZE

\* Mutant of InputOk: the frame is freed whatever netif->input() returned.
InputOkFrees ==
    /\ pc = "input" /\ pc' = "read"
    /\ CanInput
    /\ tcpip_mbox' = Append(tcpip_mbox, p)
    /\ p' = << >> /\ data' = << >>
    /\ ref' = pbuf_free(p)
    /\ UNCHANGED <<dmaVars, RxBufInUse, halVars, buff, q,
                   pbuf_free_ooseq_pending, cur, held>>

\* netif->input(p) = tcpip_input(p): the frame belongs to tcpip_mbox.
InputOk ==
    /\ pc = "input" /\ pc' = "read"
    /\ CanInput
    /\ tcpip_mbox' = Append(tcpip_mbox, p)
    /\ p' = << >> /\ data' = << >>
    /\ UNCHANGED <<dmaVars, RxBufInUse, halVars, buff, q, ref,
                   pbuf_free_ooseq_pending, cur, held>>

\* ERR_MEM: ethernetif_poll frees the frame and counts the drop.
InputFailed ==
    /\ pc = "input" /\ pc' = "read"
    /\ ~CanInput
    /\ ref' = pbuf_free(p)
    /\ p' = << >> /\ data' = << >>
    /\ UNCHANGED <<dmaVars, RxBufInUse, halVars, buff, q, tcpipVars>>

Poll ==
    \/ PollWake \/ ReadDesc \/ ReadDone \/ LinkAlloc \/ LinkTake
    \/ UpdateDesc \/ UpdateDone \/ ReadReturn \/ InputOk \/ InputFailed

-----------------------------------------------------------------------------
(* The tcpip thread and the application, while eth_poll sleeps.            *)

TcpipFetch ==
    /\ pc = "sleep" /\ cur = << >> /\ tcpip_mbox # << >>
    /\ cur' = Head(tcpip_mbox) /\ tcpip_mbox' = Tail(tcpip_mbox)
    /\ UNCHANGED <<dmaVars, RxBufInUse, halVars, pollVars, ref, data,
                   pbuf_free_ooseq_pending, held>>

\* ethernet_input() and what it calls free the frame or queue it (TCP data,
\* out-of-sequence segments) until the application takes it.
TcpipInput(keep) ==
    /\ pc = "sleep" /\ cur \notin {<< >>, OOSEQ}
    /\ cur' = << >>
    /\ held' = IF keep THEN held \cup {cur} ELSE held
    /\ ref' = IF keep THEN ref ELSE pbuf_free(cur)
    /\ UNCHANGED <<dmaVars, RxBufInUse, halVars, pollVars, data,
                   pbuf_free_ooseq_pending, tcpip_mbox>>

\* Mutant of TcpipOoseq: the segments are unlinked but not freed.
OoseqUnlinked(segs) ==
    /\ pc = "sleep" /\ cur = OOSEQ
    /\ cur' = << >>
    /\ pbuf_free_ooseq_pending' = FALSE
    /\ held' = held \ segs
    /\ UNCHANGED <<dmaVars, RxBufInUse, halVars, pollVars, ref, data, tcpip_mbox>>

\* pbuf_free_ooseq(): the queued segments of one connection, if any.
TcpipOoseq(segs) ==
    /\ pc = "sleep" /\ cur = OOSEQ
    /\ cur' = << >>
    /\ pbuf_free_ooseq_pending' = FALSE
    /\ ref' = pbuf_free_all(segs)
    /\ held' = held \ segs
    /\ UNCHANGED <<dmaVars, RxBufInUse, halVars, pollVars, data, tcpip_mbox>>

Tcpip ==
    \/ TcpipFetch
    \/ \E keep \in BOOLEAN : TcpipInput(keep)
    \/ \E segs \in SUBSET held : TcpipOoseq(segs)

\* The application is done with a frame (netbuf_delete).
AppFree(f) ==
    /\ pc = "sleep"
    /\ ref' = pbuf_free(f) /\ held' = held \ {f}
    /\ UNCHANGED <<dmaVars, RxBufInUse, halVars, pollVars, data,
                   pbuf_free_ooseq_pending, tcpip_mbox, cur>>

-----------------------------------------------------------------------------
\* The state after HAL_ETH_Start: every descriptor has a buffer and belongs
\* to the DMA.
Init ==
    /\ own = [d \in Descs |-> TRUE] /\ att = [d \in Descs |-> d]
    /\ fs = [d \in Descs |-> FALSE] /\ ls = [d \in Descs |-> FALSE]
    /\ dmaIdx = 0 /\ dmaFrag = 0 /\ frame = 0
    /\ RxBuf = [b \in Bufs |-> <<0, 0>>] /\ RxBufInUse = [b \in Bufs |-> TRUE]
    /\ RxDescIdx = 0 /\ RxBuildDescIdx = 0 /\ RxBuildDescCnt = 0
    /\ pRxStart = << >> /\ rxdataready = FALSE
    /\ pc = "sleep" /\ buff = NULL /\ q = NULL /\ p = << >>
    /\ ref = [x \in Pbufs |-> 0] /\ data = << >>
    /\ pbuf_free_ooseq_pending = FALSE
    /\ tcpip_mbox = << >> /\ cur = << >> /\ held = {}

Next ==
    \/ \E last \in BOOLEAN : DmaReceive(last)
    \/ Poll
    \/ Tcpip
    \/ \E f \in held : AppFree(f)

Spec == Init /\ [][Next]_vars

\* eth_poll has the highest priority and its delay ends after 5 ms.  The
\* tcpip thread runs in the gaps: a gap may end before a message is handled,
\* but the work done so far is kept, so it gets through its loop.  Nothing
\* is assumed of the network or of the application.
FairSpec == Spec /\ WF_vars(Poll) /\ SF_vars(Tcpip)

-----------------------------------------------------------------------------
(* Properties.                                                             *)

Frames == UNION {[1 .. n -> Pbufs] : n \in 0 .. MAX_FRAGS}

\* The values every variable can take.
TypeOK ==
    /\ own \in [Descs -> BOOLEAN] /\ att \in [Descs -> Bufs \cup {NULL}]
    /\ fs \in [Descs -> BOOLEAN] /\ ls \in [Descs -> BOOLEAN]
    /\ dmaIdx \in Descs /\ dmaFrag \in 0 .. MAX_FRAGS - 1
    /\ frame \in 0 .. FRAME_IDS - 1
    /\ RxBuf \in [Bufs -> (0 .. FRAME_IDS - 1) \X (0 .. MAX_FRAGS)]
    /\ RxBufInUse \in [Bufs -> BOOLEAN]
    /\ RxDescIdx \in Descs /\ RxBuildDescIdx \in Descs
    /\ RxBuildDescCnt \in 0 .. ETH_RX_DESC_CNT
    /\ rxdataready \in BOOLEAN
    /\ pc \in {"sleep", "read", "link", "take", "update", "return", "input"}
    /\ buff \in Bufs \cup {NULL} /\ q \in Pbufs \cup {NULL}
    /\ pRxStart \in Frames /\ p \in Frames
    /\ ref \in [Pbufs -> 0 .. 2]
    /\ pbuf_free_ooseq_pending \in BOOLEAN
    /\ Len(tcpip_mbox) <= TCPIP_MBOX_SIZE
    /\ held \subseteq Frames

\* The DMA never writes into a buffer that another descriptor uses or that
\* RxLinkCallback is copying from.  The callback returns the buffer to the
\* pool (line 65) before it copies out of it (line 73), so this depends on
\* when buffers are handed out again.
NoSharedBuffer ==
    \A d \in Descs : own[d] =>
        /\ att[d] # NULL
        /\ \A e \in Descs : att[e] = att[d] => e = d
        /\ pc \in {"link", "take"} => att[d] # buff

\* The branch "RxAllocate: OUT OF BUFFERS" (ethernetif.c:41) is never taken:
\* whenever a descriptor needs a buffer, one is free.
AllocNeverFails ==
    (pc = "update" /\ RxBuildDescCnt > 0 /\ att[RxBuildDescIdx] = NULL)
        => RxAllocate # NULL

\* Frames somebody will still free.
Owned ==
    {pRxStart, p, <<q>>, cur} \cup held \cup {tcpip_mbox[i] : i \in DOMAIN tcpip_mbox}

\* No pbuf is lost: one that is not in the pool belongs to the frame being
\* assembled, delivered, queued, handled or held.
NoPbufLeak ==
    \A x \in Pbufs : ref[x] > 0 =>
        \E f \in Owned \ {OOSEQ} : \E i \in DOMAIN f : f[i] = x

\* No pbuf is freed under its owner: what a frame holds is not in the pool,
\* and no two frames hold the same pbuf.
NoUseAfterFree ==
    \A f, g \in Owned \ {OOSEQ, <<NULL>>} : \A i \in DOMAIN f, j \in DOMAIN g :
        /\ ref[f[i]] > 0
        /\ f[i] = g[j] => f = g /\ i = j

\* What netif->input() gets are fragments of one frame, from the first one
\* on, in order: a lost first fragment loses the whole frame, and fragments
\* of two frames are never chained, also when a frame is read in two polls.
\* (A frame of three or more fragments can still lack one in the middle.)
FrameIntact ==
    pc = "input" =>
        \A i \in DOMAIN data :
            /\ data[i][1] = data[1][1]
            /\ i = 1 => data[i][2] = 1
            /\ i > 1 => data[i][2] > data[i - 1][2]

\* A descriptor the DMA filled goes back to the DMA: reception never stops.
DescRecycled == \A d \in Descs : ~own[d] ~> own[d]

\* eth_poll, which has the highest priority, gives the CPU back even when
\* frames arrive as fast as it reads them, so that a queued message is
\* handled: an exhausted pbuf pool ends the loop (line 163).  It does so only
\* because tcpip_mbox and its messages never run out before the pool does.
MailboxServed == tcpip_mbox # << >> ~> cur # << >>
=============================================================================
