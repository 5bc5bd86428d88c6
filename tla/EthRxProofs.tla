---------------------------- MODULE EthRxProofs -----------------------------
(***************************************************************************)
(* Proofs about the receive path, for any number of descriptors, pbufs,    *)
(* messages and fragments of a frame.                                      *)
(*                                                                         *)
(* The buffers come first: none is shared (NoSharedBuffer) and the         *)
(* allocation callback always finds one (AllocNeverFails).  The            *)
(* descriptors from RxBuildDescIdx on, RxBuildDescCnt of them, are         *)
(* those ReadData has read and UpdateDescriptor has not rebuilt.  The      *)
(* invariant says that descriptors without a buffer lie in that window,    *)
(* that the window ends at RxDescIdx, that attached buffers are distinct   *)
(* and that RxBufInUse marks exactly the attached ones, but for the buffer *)
(* RxLinkCallback has released and not yet copied.                         *)
(***************************************************************************)
EXTENDS EthRx, FiniteSetTheorems, SequenceTheorems, WellFoundedInduction, TLAPS

\* Distance of descriptor d from the start of the window.
Dist(d) == IF d >= RxBuildDescIdx THEN d - RxBuildDescIdx
           ELSE d - RxBuildDescIdx + ETH_RX_DESC_CNT

BufType ==
    /\ own \in [Descs -> BOOLEAN] /\ att \in [Descs -> Bufs \cup {NULL}]
    /\ RxBufInUse \in [Bufs -> BOOLEAN]
    /\ dmaIdx \in Descs /\ RxDescIdx \in Descs /\ RxBuildDescIdx \in Descs
    /\ RxBuildDescCnt \in 0 .. ETH_RX_DESC_CNT

Window ==
    /\ \/ Dist(RxDescIdx) = RxBuildDescCnt
       \/ RxBuildDescCnt = ETH_RX_DESC_CNT /\ RxDescIdx = RxBuildDescIdx
    /\ \A d \in Descs : att[d] = NULL => Dist(d) < RxBuildDescCnt

Attached ==
    /\ \A d \in Descs : own[d] => att[d] # NULL
    /\ \A d, e \in Descs : att[d] # NULL /\ att[d] = att[e] => d = e
    /\ \A b \in Bufs : RxBufInUse[b] <=>
         \E d \in Descs : att[d] = b /\ ~(pc = "take" /\ d = RxDescIdx)

Linking ==
    pc \in {"link", "take"} =>
        /\ ~own[RxDescIdx]
        /\ buff = att[RxDescIdx] /\ buff # NULL
        /\ RxBuildDescCnt < ETH_RX_DESC_CNT

BInv == BufType /\ Window /\ Attached /\ Linking

-----------------------------------------------------------------------------

\* A nonempty set of naturals contains its minimum.
LEMMA MinIn ==
    ASSUME NEW S, S \subseteq Nat, S # {}
    PROVE  Min(S) \in S
<1> DEFINE less == {ss \in Nat \X Nat : ss[1] < ss[2]}
<1>1. IsWellFoundedOn(less, Nat)
  BY NatLessThanWellFounded, Zenon DEF OpToRel
<1> HIDE DEF less
<1>2. PICK x \in S : \A y \in S : ~(<<y, x>> \in less)
  BY <1>1, WFMin
<1>3. ASSUME NEW y \in S PROVE x <= y
  <2>1. x \in Nat /\ y \in Nat
    OBVIOUS
  <2>2. y < x => <<y, x>> \in less
    BY <2>1 DEF less
  <2> QED BY <1>2, <2>1, <2>2
<1> QED BY <1>3 DEF Min

\* The index macro of the HAL steps through the descriptors cyclically.
LEMMA IncrIs ==
    ASSUME NEW d \in Descs
    PROVE  Incr(d) = IF d + 1 = ETH_RX_DESC_CNT THEN 0 ELSE d + 1
BY EthRxAssumption DEF Incr, Descs

\* If a descriptor has no buffer while none is being copied, a buffer is free:
\* there are as many buffers as descriptors.
LEMMA BufferLeft ==
    ASSUME BInv, pc # "take", NEW d \in Descs, att[d] = NULL
    PROVE  \E b \in Bufs : ~RxBufInUse[b]
<1> SUFFICES ASSUME \A b \in Bufs : RxBufInUse[b]
             PROVE  FALSE
  OBVIOUS
<1> DEFINE g == [b \in Bufs |-> CHOOSE e \in Descs : att[e] = b]
<1>1. \A b \in Bufs : g[b] \in Descs /\ att[g[b]] = b
  BY DEF BInv, Attached
<1>2. g \in [Bufs -> Descs \ {d}]
  <2>1. \A b \in Bufs : b # NULL
    BY EthRxAssumption DEF Bufs, NULL
  <2> QED BY <1>1, <2>1
<1>3. /\ IsFiniteSet(Bufs) /\ Cardinality(Bufs) = ETH_RX_DESC_CNT
      /\ IsFiniteSet(Descs) /\ Cardinality(Descs) = ETH_RX_DESC_CNT
  BY FS_Interval, EthRxAssumption DEF Bufs, Descs
<1>4. /\ IsFiniteSet(Descs \ {d})
      /\ Cardinality(Descs \ {d}) < Cardinality(Bufs)
  <2>1. Cardinality(Descs \ {d}) = Cardinality(Descs) - 1 /\ IsFiniteSet(Descs \ {d})
    BY <1>3, FS_RemoveElement, Zenon
  <2> QED BY <1>3, <2>1, EthRxAssumption
<1>5. \E x, y \in Bufs : x # y /\ g[x] = g[y]
  <2> HIDE DEF g
  <2> QED BY <1>2, <1>3, <1>4, FS_PigeonHole
<1> QED BY <1>1, <1>5

\* What RxAllocate returns is a buffer that is not in use.
LEMMA RxAllocateFree ==
    ASSUME NEW b \in Bufs, ~RxBufInUse[b]
    PROVE  RxAllocate \in Bufs /\ ~RxBufInUse[RxAllocate]
<1> DEFINE free == {x \in Bufs : ~RxBufInUse[x]}
<1>1. free \subseteq Nat /\ free # {}
  BY EthRxAssumption DEF Bufs
<1>2. RxAllocate = Min(free)
  BY <1>1 DEF RxAllocate
<1>3. Min(free) \in free
  <2> HIDE DEF free
  <2> QED BY <1>1, MinIn
<1> QED BY <1>2, <1>3

-----------------------------------------------------------------------------

\* After HAL_ETH_Start every descriptor has a buffer of its own.
LEMMA InitBInv == Init => BInv
<1> SUFFICES ASSUME Init PROVE BInv
  OBVIOUS
<1>1. BufType
  BY EthRxAssumption DEF Init, BufType, Descs, Bufs
<1>2. Window
  BY EthRxAssumption DEF Init, Window, Dist, Descs, NULL
<1>3. Attached
  BY EthRxAssumption DEF Init, Attached, Descs, Bufs, NULL
<1>4. Linking
  BY DEF Init, Linking
<1> QED BY <1>1, <1>2, <1>3, <1>4 DEF BInv

\* The DMA only gives descriptors away.
LEMMA DmaBInv ==
    ASSUME BInv, NEW last \in BOOLEAN, DmaReceive(last)
    PROVE  BInv'
<1>1. /\ own' = [own EXCEPT ![dmaIdx] = FALSE]
      /\ dmaIdx' = Incr(dmaIdx)
      /\ UNCHANGED <<att, RxBufInUse, RxDescIdx, RxBuildDescIdx, RxBuildDescCnt, pc, buff>>
  BY DEF DmaReceive, halVars, pollVars
<1>2. dmaIdx' \in Descs
  BY <1>1, IncrIs, EthRxAssumption DEF BInv, BufType, Descs
<1>3. BufType'
  BY <1>1, <1>2 DEF BInv, BufType, Descs, Bufs
<1>4. Window'
  BY <1>1 DEF BInv, Window, Dist, Descs
<1>5. Attached'
  BY <1>1 DEF BInv, BufType, Attached, Descs, Bufs
<1>6. Linking'
  BY <1>1 DEF BInv, BufType, Linking, Descs
<1> QED BY <1>3, <1>4, <1>5, <1>6 DEF BInv

\* Reading a descriptor: it is outside the window, so it has a buffer.
LEMMA ReadDescBInv ==
    ASSUME BInv, ReadDesc
    PROVE  BInv'
<1>1. /\ UNCHANGED <<own, att, dmaIdx, RxBufInUse, RxBuildDescIdx>>
      /\ pc = "read" /\ ~own[RxDescIdx] /\ RxBuildDescCnt < ETH_RX_DESC_CNT
      /\ \/ /\ pc' = "link" /\ buff' = att[RxDescIdx]
            /\ UNCHANGED <<RxDescIdx, RxBuildDescCnt>>
         \/ /\ RxDescIdx' = Incr(RxDescIdx) /\ RxBuildDescCnt' = RxBuildDescCnt + 1
            /\ UNCHANGED <<pc, buff>>
  BY EthRxAssumption DEF ReadDesc, dmaVars, BInv, BufType
<1>2. CASE pc' = "link" /\ buff' = att[RxDescIdx] /\ UNCHANGED <<RxDescIdx, RxBuildDescCnt>>
  <2>1. BufType'
    BY <1>1, <1>2 DEF BInv, BufType, Descs, Bufs
  <2>2. Window'
    BY <1>1, <1>2 DEF BInv, Window, Dist, Descs
  <2>3. Attached'
    BY <1>1, <1>2 DEF BInv, Attached, Descs, Bufs
  <2>4. att[RxDescIdx] # NULL
    BY <1>1, EthRxAssumption DEF BInv, BufType, Window, Descs
  <2>5. Linking'
    BY <1>1, <1>2, <2>4 DEF Linking
  <2> QED BY <2>1, <2>2, <2>3, <2>5 DEF BInv
<1>3. CASE /\ RxDescIdx' = Incr(RxDescIdx) /\ RxBuildDescCnt' = RxBuildDescCnt + 1
           /\ UNCHANGED <<pc, buff>>
  <2>1. RxDescIdx' = IF RxDescIdx + 1 = ETH_RX_DESC_CNT THEN 0 ELSE RxDescIdx + 1
    BY <1>3, IncrIs DEF BInv, BufType
  <2>2. BufType'
    BY <1>1, <1>3, <2>1, EthRxAssumption DEF BInv, BufType, Descs, Bufs
  <2>3. Window'
    BY <1>1, <1>3, <2>1, EthRxAssumption DEF BInv, BufType, Window, Dist, Descs
  <2>4. Attached'
    BY <1>1, <1>3 DEF BInv, Attached, Descs, Bufs
  <2>5. Linking'
    BY <1>1, <1>3 DEF Linking
  <2> QED BY <2>2, <2>3, <2>4, <2>5 DEF BInv
<1> QED BY <1>1, <1>2, <1>3

\* RxLinkCallback releases the buffer of the descriptor being read.
LEMMA LinkAllocBInv ==
    ASSUME BInv, LinkAlloc
    PROVE  BInv'
<1>1. /\ UNCHANGED <<own, att, dmaIdx, RxDescIdx, RxBuildDescIdx, RxBuildDescCnt, buff>>
      /\ pc = "link" /\ pc' = "take"
      /\ RxBufInUse' = [RxBufInUse EXCEPT ![buff] = FALSE]
  BY DEF LinkAlloc, dmaVars, halVars
<1>2. BufType'
  BY <1>1 DEF BInv, BufType, Descs, Bufs
<1>3. Window'
  BY <1>1 DEF BInv, Window, Dist, Descs
<1>4. Linking'
  BY <1>1 DEF BInv, Linking
<1>5. buff \in Bufs /\ buff = att[RxDescIdx] /\ RxDescIdx \in Descs
  BY <1>1 DEF BInv, BufType, Linking
<1>6. Attached'
  <2>1. ASSUME NEW b \in Bufs
        PROVE  RxBufInUse'[b] <=> \E d \in Descs : att[d] = b /\ d # RxDescIdx
    <3>1. CASE b = buff
      BY <1>1, <1>5, <3>1 DEF BInv, BufType, Attached, Linking
    <3>2. CASE b # buff
      BY <1>1, <1>5, <3>2 DEF BInv, BufType, Attached
    <3> QED BY <3>1, <3>2
  <2> QED BY <1>1, <2>1 DEF BInv, Attached, Descs, Bufs
<1> QED BY <1>2, <1>3, <1>4, <1>6 DEF BInv

\* The descriptor whose fragment was copied joins the window without buffer.
LEMMA LinkTakeBInv ==
    ASSUME BInv, LinkTake
    PROVE  BInv'
<1>1. /\ UNCHANGED <<own, dmaIdx, RxBufInUse, RxBuildDescIdx>>
      /\ pc = "take" /\ pc' = "read"
      /\ att' = [att EXCEPT ![RxDescIdx] = NULL]
      /\ RxDescIdx' = Incr(RxDescIdx) /\ RxBuildDescCnt' = RxBuildDescCnt + 1
  BY DEF LinkTake
<1>2. RxDescIdx' = IF RxDescIdx + 1 = ETH_RX_DESC_CNT THEN 0 ELSE RxDescIdx + 1
  BY <1>1, IncrIs DEF BInv, BufType
<1>3. BufType'
  BY <1>1, <1>2, EthRxAssumption DEF BInv, BufType, Linking, Descs, Bufs, NULL
<1>4. Window'
  <2>1. RxBuildDescCnt < ETH_RX_DESC_CNT /\ Dist(RxDescIdx) = RxBuildDescCnt
    BY <1>1, EthRxAssumption DEF BInv, BufType, Linking, Window, Descs
  <2>2. \A d \in Descs : att'[d] = NULL => d = RxDescIdx \/ Dist(d) < RxBuildDescCnt
    BY <1>1 DEF BInv, BufType, Window
  <2>3. \A d \in Descs : Dist(d)' = Dist(d)
    BY <1>1 DEF Dist
  <2>4. \A d \in Descs : att'[d] = NULL => Dist(d) < RxBuildDescCnt + 1
    BY <2>1, <2>2, EthRxAssumption DEF BInv, BufType, Dist, Descs
  <2>5. \/ Dist(RxDescIdx)' = RxBuildDescCnt'
        \/ RxBuildDescCnt' = ETH_RX_DESC_CNT /\ RxDescIdx' = RxBuildDescIdx'
    BY <1>1, <1>2, <2>1, EthRxAssumption DEF BInv, BufType, Dist, Descs
  <2> QED BY <1>1, <2>3, <2>4, <2>5 DEF Window, Descs
<1>5. Attached'
  <2>1. \A d \in Descs : d # RxDescIdx => att'[d] = att[d]
    BY <1>1 DEF BInv, BufType
  <2>2. att'[RxDescIdx] = NULL /\ RxDescIdx \in Descs /\ ~own[RxDescIdx]
    BY <1>1 DEF BInv, BufType, Linking
  <2>3. \A b \in Bufs : b # NULL
    BY EthRxAssumption DEF Bufs, NULL
  <2>4. \A d \in Descs : own'[d] => att'[d] # NULL
    BY <1>1, <2>1, <2>2 DEF BInv, Attached
  <2>5. \A d, e \in Descs : att'[d] # NULL /\ att'[d] = att'[e] => d = e
    BY <2>1, <2>2 DEF BInv, Attached
  <2>6. ASSUME NEW b \in Bufs
        PROVE  RxBufInUse'[b] <=> \E d \in Descs : att'[d] = b
    BY <1>1, <2>1, <2>2, <2>3 DEF BInv, Attached
  <2> QED BY <1>1, <2>4, <2>5, <2>6 DEF Attached, Descs, Bufs
<1>6. Linking'
  BY <1>1 DEF Linking
<1> QED BY <1>3, <1>4, <1>5, <1>6 DEF BInv

\* UpdateDescriptor takes the first descriptor out of the window and gives
\* it a buffer that no other descriptor has.
LEMMA UpdateDescBInv ==
    ASSUME BInv, UpdateDesc
    PROVE  BInv'
<1> DEFINE d == RxBuildDescIdx
           b == IF att[d] = NULL THEN RxAllocate ELSE att[d]
<1>1. /\ pc = "update" /\ RxBuildDescCnt > 0
      /\ UNCHANGED <<dmaIdx, RxDescIdx, buff>>
      /\ \/ /\ pc' = "return"
            /\ UNCHANGED <<att, own, RxBufInUse, RxBuildDescIdx, RxBuildDescCnt>>
         \/ /\ b # NULL
            /\ att' = [att EXCEPT ![d] = b]
            /\ RxBufInUse' = [RxBufInUse EXCEPT ![b] = TRUE]
            /\ own' = [own EXCEPT ![d] = TRUE]
            /\ RxBuildDescIdx' = Incr(d)
            /\ RxBuildDescCnt' = RxBuildDescCnt - 1
            /\ pc' = pc
  BY DEF UpdateDesc
<1>2. CASE pc' = "return" /\ UNCHANGED <<att, own, RxBufInUse, RxBuildDescIdx, RxBuildDescCnt>>
  <2>1. BufType' /\ Window'
    BY <1>1, <1>2 DEF BInv, BufType, Window, Dist, Descs, Bufs
  <2>2. Attached' /\ Linking'
    BY <1>1, <1>2 DEF BInv, Attached, Linking, Descs, Bufs
  <2> QED BY <2>1, <2>2 DEF BInv
<1>3. CASE /\ b # NULL
           /\ att' = [att EXCEPT ![d] = b]
           /\ RxBufInUse' = [RxBufInUse EXCEPT ![b] = TRUE]
           /\ own' = [own EXCEPT ![d] = TRUE]
           /\ RxBuildDescIdx' = Incr(d)
           /\ RxBuildDescCnt' = RxBuildDescCnt - 1
           /\ pc' = pc
  <2>1. d \in Descs /\ b \in Bufs /\ \A e \in Descs : att[e] = b => e = d
    <3>0. d \in Descs
      BY DEF BInv, BufType
    <3>1. CASE att[d] = NULL
      <4>1. \E c \in Bufs : ~RxBufInUse[c]
        BY <1>1, <3>0, <3>1, BufferLeft
      <4>2. RxAllocate \in Bufs /\ ~RxBufInUse[RxAllocate]
        BY <4>1, RxAllocateFree
      <4>3. \A e \in Descs : att[e] # RxAllocate
        BY <1>1, <4>2 DEF BInv, Attached
      <4> QED BY <3>0, <3>1, <4>2, <4>3
    <3>2. CASE att[d] # NULL
      BY <3>0, <3>2 DEF BInv, BufType, Attached
    <3> QED BY <3>1, <3>2
  <2> HIDE DEF b
  <2>2. RxBuildDescIdx' = IF d + 1 = ETH_RX_DESC_CNT THEN 0 ELSE d + 1
    BY <1>3, <2>1, IncrIs
  <2>3. BufType'
    BY <1>1, <1>3, <2>1, <2>2, EthRxAssumption DEF BInv, BufType, Descs, Bufs
  <2>4. Window'
    <3>1. \A e \in Descs : Dist(e)' = IF e = d THEN ETH_RX_DESC_CNT - 1 ELSE Dist(e) - 1
      BY <2>1, <2>2, EthRxAssumption DEF Dist, Descs
    <3>2. \A e \in Descs : att'[e] = NULL => e # d /\ att[e] = NULL
      BY <1>3, <2>1 DEF BInv, BufType
    <3>3. \A e \in Descs : att'[e] = NULL => Dist(e)' < RxBuildDescCnt'
      BY <1>3, <3>1, <3>2, EthRxAssumption DEF BInv, BufType, Window, Dist, Descs
    <3>4. Dist(RxDescIdx)' = RxBuildDescCnt'
      BY <1>1, <1>3, <2>1, <2>2, EthRxAssumption DEF BInv, BufType, Window, Dist, Descs
    <3> QED BY <3>3, <3>4 DEF Window, Descs
  <2>5. Attached'
    <3>1. \A e \in Descs : e # d => att'[e] = att[e] /\ own'[e] = own[e]
      BY <1>3 DEF BInv, BufType
    <3>2. att'[d] = b
      BY <1>3, <2>1 DEF BInv, BufType
    <3>3. \A e \in Descs : own'[e] => att'[e] # NULL
      BY <1>3, <3>1, <3>2 DEF BInv, Attached
    <3>4. \A e, f \in Descs : att'[e] # NULL /\ att'[e] = att'[f] => e = f
      BY <2>1, <3>1, <3>2 DEF BInv, Attached
    <3>5. ASSUME NEW c \in Bufs
          PROVE  RxBufInUse'[c] <=> \E e \in Descs : att'[e] = c
      <4>1. CASE c = b
        BY <1>3, <2>1, <3>2, <4>1 DEF BInv, BufType
      <4>2. CASE c # b
        <5>1. RxBufInUse'[c] = RxBufInUse[c]
          BY <1>3, <2>1, <4>2 DEF BInv, BufType
        <5>2. RxBufInUse[c] <=> \E e \in Descs : att[e] = c
          BY <1>1 DEF BInv, Attached
        <5>3. c # att[d] \/ att[d] = b
          <6>1. \A x \in Bufs : x # NULL
            BY EthRxAssumption DEF Bufs, NULL
          <6> QED BY <6>1 DEF b
        <5> QED BY <2>1, <3>1, <3>2, <4>2, <5>1, <5>2, <5>3
      <4> QED BY <4>1, <4>2
    <3> QED BY <1>1, <1>3, <3>3, <3>4, <3>5 DEF Attached, Descs, Bufs
  <2>6. Linking'
    BY <1>1, <1>3 DEF Linking
  <2> QED BY <2>3, <2>4, <2>5, <2>6 DEF BInv
<1> QED BY <1>1, <1>2, <1>3

\* Steps that leave descriptors and buffers alone and neither enter nor leave
\* RxLinkCallback.
LEMMA OtherBInv ==
    ASSUME BInv,
           UNCHANGED <<own, att, dmaIdx, RxBufInUse, RxDescIdx, RxBuildDescIdx, RxBuildDescCnt>>,
           \/ UNCHANGED <<pc, buff>>
           \/ pc \notin {"link", "take"} /\ pc' \notin {"link", "take"}
    PROVE  BInv'
<1>1. BufType' /\ Window'
  BY DEF BInv, BufType, Window, Dist, Descs, Bufs
<1>2. Attached'
  BY DEF BInv, Attached, Descs, Bufs
<1>3. Linking'
  BY DEF BInv, Linking
<1> QED BY <1>1, <1>2, <1>3 DEF BInv

\* Every step keeps the invariant.
LEMMA NextBInv == BInv /\ [Next]_vars => BInv'
<1> SUFFICES ASSUME BInv, [Next]_vars PROVE BInv'
  OBVIOUS
<1>1. CASE \E last \in BOOLEAN : DmaReceive(last)
  BY <1>1, DmaBInv
<1>2. CASE ReadDesc
  BY <1>2, ReadDescBInv
<1>3. CASE LinkAlloc
  BY <1>3, LinkAllocBInv
<1>4. CASE LinkTake
  BY <1>4, LinkTakeBInv
<1>5. CASE UpdateDesc
  BY <1>5, UpdateDescBInv
<1>6. CASE PollWake \/ ReadDone \/ UpdateDone
  BY <1>6, OtherBInv DEF PollWake, ReadDone, UpdateDone, dmaVars, halVars
<1>7. CASE ReadReturn
  BY <1>7, OtherBInv DEF ReadReturn, dmaVars
<1>8. CASE InputOk \/ InputFailed
  BY <1>8, OtherBInv DEF InputOk, InputFailed, dmaVars, halVars
<1>9. CASE Tcpip
  BY <1>9, OtherBInv DEF Tcpip, TcpipFetch, TcpipInput, TcpipOoseq, dmaVars, halVars, pollVars
<1>10. CASE \E f \in held : AppFree(f)
  BY <1>10, OtherBInv DEF AppFree, dmaVars, halVars, pollVars
<1>11. CASE UNCHANGED vars
  BY <1>11, OtherBInv DEF vars, dmaVars, halVars, pollVars
<1> QED
  BY <1>1, <1>2, <1>3, <1>4, <1>5, <1>6, <1>7, <1>8, <1>9, <1>10, <1>11
     DEF Next, Poll

\* The buffer invariant holds in every reachable state.
THEOREM BufferInvariance == Spec => []BInv
BY InitBInv, NextBInv, PTL DEF Spec

-----------------------------------------------------------------------------

\* No DMA write into a buffer that is attached elsewhere or being copied.
THEOREM NoSharedBufferAlways == Spec => []NoSharedBuffer
<1>1. BInv => NoSharedBuffer
  <2> SUFFICES ASSUME BInv, NEW d \in Descs, own[d]
               PROVE  /\ att[d] # NULL
                      /\ \A e \in Descs : att[e] = att[d] => e = d
                      /\ pc \in {"link", "take"} => att[d] # buff
    BY DEF NoSharedBuffer
  <2>1. att[d] # NULL /\ \A e \in Descs : att[e] = att[d] => e = d
    BY DEF BInv, Attached
  <2>2. pc \in {"link", "take"} => att[d] # buff
    BY <2>1 DEF BInv, BufType, Linking
  <2> QED BY <2>1, <2>2
<1> QED BY <1>1, BufferInvariance, PTL

\* HAL_ETH_RxAllocateCallback never runs out of buffers.
THEOREM AllocNeverFailsAlways == Spec => []AllocNeverFails
<1>1. BInv => AllocNeverFails
  <2> SUFFICES ASSUME BInv, pc = "update", att[RxBuildDescIdx] = NULL
               PROVE  RxAllocate # NULL
    BY DEF AllocNeverFails
  <2>1. \E b \in Bufs : ~RxBufInUse[b]
    BY BufferLeft DEF BInv, BufType
  <2>2. RxAllocate \in Bufs
    BY <2>1, RxAllocateFree
  <2> QED BY <2>2, EthRxAssumption DEF Bufs, NULL
<1> QED BY <1>1, BufferInvariance, PTL

-----------------------------------------------------------------------------
(***************************************************************************)
(* The frames: types, no pbuf is freed under its owner (NoUseAfterFree),   *)
(* what is delivered belongs to one frame (FrameIntact), and when a frame  *)
(* fits into one descriptor, as on the board, no pbuf is lost              *)
(* (NoPbufLeak).                                                           *)
(*                                                                         *)
(* OInv follows the pbufs: each has at most one owner among the frame      *)
(* being assembled, the fragment being copied, the frame being delivered,  *)
(* the mailbox, the tcpip thread and the application, and an owned pbuf is *)
(* not in the pool.  SInv adds, for one fragment per frame, that the count *)
(* of an owned pbuf is exactly one and of any other zero.  CInv follows    *)
(* the content: the unread descriptors between RxDescIdx and the DMA hold  *)
(* consecutive fragments, and the frame being assembled stops before the   *)
(* first of them.                                                          *)
(***************************************************************************)

In(f, x) == \E i \in DOMAIN f : f[i] = x
Distinct(f) == \A i, j \in DOMAIN f : f[i] = f[j] => i = j

Posted(x) == \E i \in DOMAIN tcpip_mbox : In(tcpip_mbox[i], x)
Held(x) == \E f \in held : In(f, x)

Shapes ==
    /\ pRxStart \in Seq(Pbufs) /\ p \in Seq(Pbufs)
    /\ q \in Pbufs \cup {NULL} /\ (pc # "take" => q = NULL)
    /\ cur \in Seq(Pbufs) \cup {OOSEQ}
    /\ tcpip_mbox \in Seq(Seq(Pbufs) \cup {OOSEQ})
    /\ held \subseteq Seq(Pbufs)
    /\ ref \in [Pbufs -> Nat]

Chains ==
    /\ Distinct(pRxStart) /\ Distinct(p) /\ Distinct(cur)
    /\ \A i \in DOMAIN tcpip_mbox : Distinct(tcpip_mbox[i])
    /\ \A f \in held : Distinct(f)

OneOwner ==
    /\ \A x \in Pbufs :
          /\ In(pRxStart, x) => ~(In(p, x) \/ q = x \/ In(cur, x) \/ Posted(x) \/ Held(x))
          /\ In(p, x) => ~(q = x \/ In(cur, x) \/ Posted(x) \/ Held(x))
          /\ q = x => ~(In(cur, x) \/ Posted(x) \/ Held(x))
          /\ In(cur, x) => ~(Posted(x) \/ Held(x))
          /\ Posted(x) => ~Held(x)
    /\ \A i, j \in DOMAIN tcpip_mbox : \A x \in Pbufs :
          In(tcpip_mbox[i], x) /\ In(tcpip_mbox[j], x) => i = j
    /\ \A f, g \in held : \A x \in Pbufs : In(f, x) /\ In(g, x) => f = g

HasOwner(x) ==
    In(pRxStart, x) \/ In(p, x) \/ q = x \/ In(cur, x) \/ Posted(x) \/ Held(x)

Allocated == \A x \in Pbufs : HasOwner(x) => ref[x] > 0

OInv == Shapes /\ Chains /\ OneOwner /\ Allocated

\* With one fragment per frame nothing waits at pRxStart between two frames.
Single ==
    /\ fs \in [Descs -> BOOLEAN] /\ ls \in [Descs -> BOOLEAN] /\ dmaFrag = 0
    /\ \A d \in Descs : ~own[d] => fs[d] /\ ls[d]
    /\ ~rxdataready => pRxStart = << >>
    /\ pc \in {"link", "take"} => rxdataready /\ pRxStart = << >>
    /\ pc = "input" => ~rxdataready
    /\ pc # "input" => p = << >>

Short ==
    /\ Len(pRxStart) <= 1 /\ Len(p) <= 1 /\ Len(cur) <= 1
    /\ \A i \in DOMAIN tcpip_mbox : Len(tcpip_mbox[i]) <= 1
    /\ \A f \in held : Len(f) <= 1

\* The count of a pbuf is one or, without an owner, zero.
Exact == \A x \in Pbufs : (HasOwner(x) => ref[x] = 1) /\ (~HasOwner(x) => ref[x] = 0)

SInv == Single /\ Short /\ Exact

-----------------------------------------------------------------------------
(* Content                                                                 *)

Unread(d) == Dist(d) >= RxBuildDescCnt /\ ~own[d]
Content(d) == RxBuf[att[d]]

\* The fragments of the frame of the next descriptor that were read before.
Passed == IF Unread(RxDescIdx) THEN Content(RxDescIdx)[2] - 1 ELSE dmaFrag
PassedFrame == IF Unread(RxDescIdx) THEN Content(RxDescIdx)[1] ELSE frame

Ring ==
    /\ \A d \in Descs : Dist(d) < RxBuildDescCnt => ~own[d]
    /\ \A d \in Descs : own[d] <=> own[dmaIdx] /\ Dist(d) >= Dist(dmaIdx)
    /\ ~own[dmaIdx] => dmaIdx = RxBuildDescIdx

ContentType ==
    /\ fs \in [Descs -> BOOLEAN] /\ ls \in [Descs -> BOOLEAN]
    /\ dmaFrag \in 0 .. MAX_FRAGS - 1 /\ frame \in 0 .. FRAME_IDS - 1
    /\ RxBuf \in [Bufs -> (0 .. FRAME_IDS - 1) \X (0 .. MAX_FRAGS)]
    /\ pc \in {"sleep", "read", "link", "take", "update", "return", "input"}
    /\ rxdataready \in BOOLEAN
    /\ data \in Seq((0 .. FRAME_IDS - 1) \X (0 .. MAX_FRAGS))

Filled ==
    \A d \in Descs : Unread(d) =>
        /\ Content(d)[2] \in 1 .. MAX_FRAGS
        /\ fs[d] <=> Content(d)[2] = 1
        /\ Content(d)[2] = MAX_FRAGS => ls[d]
        /\ Incr(d) # RxBuildDescIdx /\ Unread(Incr(d)) =>
              IF ls[d] THEN Content(Incr(d))[2] = 1
              ELSE Content(Incr(d)) = <<Content(d)[1], Content(d)[2] + 1>>
        /\ ~(Incr(d) # RxBuildDescIdx /\ Unread(Incr(d))) =>
              IF ls[d] THEN dmaFrag = 0
              ELSE dmaFrag = Content(d)[2] /\ frame = Content(d)[1]

Ordered ==
    \A i \in DOMAIN data :
        /\ data[i][1] = data[1][1]
        /\ i = 1 => data[i][2] = 1
        /\ i > 1 => data[i][2] > data[i - 1][2]

Partial ==
    /\ pc = "input" => pRxStart = << >> /\ ~rxdataready
    /\ pc # "input" => Len(data) = Len(pRxStart) /\ p = << >>
    /\ pc = "input" => Len(data) = Len(p)
    /\ Len(data) <= MAX_FRAGS
    /\ pc \in {"link", "take"} =>
          /\ Unread(RxDescIdx) /\ rxdataready = ls[RxDescIdx]
          /\ data = << >> => fs[RxDescIdx]
    /\ pc = "sleep" => ~rxdataready
    /\ pc # "input" /\ (rxdataready => pc \in {"link", "take"}) =>
          /\ Len(data) <= Passed
          /\ data # << >> => data[1][1] = PassedFrame /\ data[Len(data)][2] <= Passed
    /\ rxdataready /\ pc \notin {"link", "take"} => Passed = 0

CInv == ContentType /\ Ring /\ Filled /\ Ordered /\ Partial

-----------------------------------------------------------------------------
(* Sequences                                                               *)

\* A sequence with one more element.
LEMMA AppendIs ==
    ASSUME NEW S, NEW s \in Seq(S), NEW e \in S
    PROVE  /\ Append(s, e) \in Seq(S) /\ Len(Append(s, e)) = Len(s) + 1
           /\ DOMAIN Append(s, e) = 1 .. Len(s) + 1 /\ DOMAIN s = 1 .. Len(s) /\ Len(s) \in Nat
           /\ \A i \in 1 .. Len(s) : Append(s, e)[i] = s[i]
           /\ Append(s, e)[Len(s) + 1] = e
OBVIOUS

\* A queue without its first element.
LEMMA TailIs ==
    ASSUME NEW S, NEW s \in Seq(S), s # << >>
    PROVE  /\ Tail(s) \in Seq(S) /\ Head(s) = s[1] /\ Head(s) \in S /\ 1 \in DOMAIN s
           /\ \A i \in DOMAIN Tail(s) : i + 1 \in DOMAIN s /\ Tail(s)[i] = s[i + 1] /\ i \in Nat
           /\ \A i \in DOMAIN s : i # 1 => i - 1 \in DOMAIN Tail(s) /\ Tail(s)[i - 1] = s[i] /\ i \in Nat
<1>1. /\ Tail(s) \in Seq(S) /\ Len(Tail(s)) = Len(s) - 1 /\ Len(s) \in Nat /\ Len(s) # 0
      /\ \A i \in 1 .. Len(s) - 1 : Tail(s)[i] = s[i + 1]
  OBVIOUS
<1>2. DOMAIN Tail(s) = 1 .. Len(s) - 1 /\ DOMAIN s = 1 .. Len(s)
  BY <1>1
<1>3. Head(s) = s[1] /\ Head(s) \in S
  OBVIOUS
<1> QED BY <1>1, <1>2, <1>3

\* The elements of a sequence with one more element.
LEMMA InAppend ==
    ASSUME NEW S, NEW s \in Seq(S), NEW e \in S, NEW x
    PROVE  In(Append(s, e), x) <=> In(s, x) \/ x = e
BY AppendIs DEF In

\* A sequence of pbufs that gets one it did not have.
LEMMA DistinctAppend ==
    ASSUME NEW s \in Seq(Pbufs), NEW e \in Pbufs, Distinct(s), ~In(s, e)
    PROVE  Distinct(Append(s, e))
BY AppendIs DEF In, Distinct

\* Neither an empty frame nor the callback message contains a pbuf.
LEMMA InNothing ==
    ASSUME NEW x \in Pbufs
    PROVE  ~In(<< >>, x) /\ ~In(OOSEQ, x) /\ x # NULL
BY EthRxAssumption DEF In, OOSEQ, Pbufs, NULL

\* pbuf_free() leaves the pbufs of other frames alone, and the count of a
\* pbuf drops by one at most.
LEMMA FreeOthers ==
    ASSUME NEW c, NEW x \in Pbufs
    PROVE  /\ ~In(c, x) => pbuf_free(c)[x] = ref[x]
           /\ pbuf_free(c)[x] \in {ref[x], ref[x] - 1}
BY DEF pbuf_free, In

\* What pbuf_free() makes of the counts when the frame was allocated.
LEMMA FreeType ==
    ASSUME Shapes, NEW c, \A x \in Pbufs : In(c, x) => ref[x] > 0
    PROVE  pbuf_free(c) \in [Pbufs -> Nat]
<1>1. ASSUME NEW x \in Pbufs PROVE pbuf_free(c)[x] \in Nat
  <2>1. ref[x] \in Nat
    BY DEF Shapes
  <2>2. (~In(c, x) => pbuf_free(c)[x] = ref[x]) /\ pbuf_free(c)[x] \in {ref[x], ref[x] - 1}
    BY FreeOthers
  <2> QED BY <2>1, <2>2
<1>2. pbuf_free(c) = [x \in Pbufs |-> pbuf_free(c)[x]]
  BY DEF pbuf_free
<1> QED BY <1>1, <1>2

\* The same for several frames.
LEMMA FreeAll ==
    ASSUME Shapes, NEW C, \A c \in C : \A x \in Pbufs : In(c, x) => ref[x] > 0
    PROVE  /\ pbuf_free_all(C) \in [Pbufs -> Nat]
           /\ \A x \in Pbufs : (\A c \in C : ~In(c, x)) => pbuf_free_all(C)[x] = ref[x]
<1>1. ASSUME NEW x \in Pbufs
      PROVE  /\ pbuf_free_all(C)[x] \in Nat
             /\ (\A c \in C : ~In(c, x)) => pbuf_free_all(C)[x] = ref[x]
  <2> DEFINE S == {pbuf_free(c)[x] : c \in C} \cup {ref[x]}
  <2>1. S \subseteq Nat /\ S # {}
    <3>1. ASSUME NEW c \in C PROVE pbuf_free(c)[x] \in Nat
      <4>1. pbuf_free(c) \in [Pbufs -> Nat]
        BY FreeType
      <4> QED BY <4>1
    <3> QED BY <3>1 DEF Shapes
  <2>2. pbuf_free_all(C)[x] = Min(S)
    BY DEF pbuf_free_all
  <2>3. Min(S) \in S
    <3> HIDE DEF S
    <3> QED BY <2>1, MinIn
  <2>4. (\A c \in C : ~In(c, x)) => S = {ref[x]}
    BY FreeOthers
  <2> HIDE DEF S
  <2> QED BY <2>1, <2>2, <2>3, <2>4
<1>2. pbuf_free_all(C) = [x \in Pbufs |-> pbuf_free_all(C)[x]]
  BY DEF pbuf_free_all
<1> QED BY <1>1, <1>2

\* A message is posted to tcpip_mbox.
LEMMA Post ==
    ASSUME Shapes, NEW f \in Seq(Pbufs) \cup {OOSEQ}, tcpip_mbox' = Append(tcpip_mbox, f)
    PROVE  /\ tcpip_mbox' \in Seq(Seq(Pbufs) \cup {OOSEQ})
           /\ \A x \in Pbufs : Posted(x)' <=> Posted(x) \/ In(f, x)
           /\ Chains /\ Distinct(f) => \A i \in DOMAIN tcpip_mbox' : Distinct(tcpip_mbox'[i])
           /\ OneOwner /\ (\A x \in Pbufs : In(f, x) => ~Posted(x)) =>
                 \A i, j \in DOMAIN tcpip_mbox' : \A x \in Pbufs :
                    In(tcpip_mbox'[i], x) /\ In(tcpip_mbox'[j], x) => i = j
<1> DEFINE n == Len(tcpip_mbox) + 1
<1>1. /\ tcpip_mbox' \in Seq(Seq(Pbufs) \cup {OOSEQ})
      /\ DOMAIN tcpip_mbox' = 1 .. n /\ DOMAIN tcpip_mbox = 1 .. n - 1 /\ n \in Nat
      /\ \A i \in 1 .. n - 1 : tcpip_mbox'[i] = tcpip_mbox[i]
      /\ tcpip_mbox'[n] = f
  BY AppendIs DEF Shapes
<1> HIDE DEF n
<1>2. \A i \in DOMAIN tcpip_mbox' : i = n \/ (i \in DOMAIN tcpip_mbox /\ tcpip_mbox'[i] = tcpip_mbox[i])
  BY <1>1
<1>3. \A i \in DOMAIN tcpip_mbox : i \in DOMAIN tcpip_mbox' /\ tcpip_mbox'[i] = tcpip_mbox[i]
  BY <1>1
<1>4. n \in DOMAIN tcpip_mbox' /\ n \notin DOMAIN tcpip_mbox
  BY <1>1
<1>5. \A x \in Pbufs : Posted(x)' <=> Posted(x) \/ In(f, x)
  BY <1>1, <1>2, <1>3, <1>4 DEF Posted, In
<1>6. Chains /\ Distinct(f) => \A i \in DOMAIN tcpip_mbox' : Distinct(tcpip_mbox'[i])
  BY <1>1, <1>2 DEF Chains
<1>7. ASSUME OneOwner, \A x \in Pbufs : In(f, x) => ~Posted(x),
             NEW i \in DOMAIN tcpip_mbox', NEW j \in DOMAIN tcpip_mbox', NEW x \in Pbufs,
             In(tcpip_mbox'[i], x), In(tcpip_mbox'[j], x)
      PROVE  i = j
  <2>1. CASE i = n /\ j # n
    BY <1>1, <1>2, <1>7, <2>1 DEF Posted
  <2>2. CASE i # n /\ j = n
    BY <1>1, <1>2, <1>7, <2>2 DEF Posted
  <2>3. CASE i # n /\ j # n
    BY <1>2, <1>7, <2>3 DEF OneOwner
  <2> QED BY <2>1, <2>2, <2>3
<1> QED BY <1>1, <1>5, <1>6, <1>7

-----------------------------------------------------------------------------
(* Who owns a pbuf                                                         *)

\* At first every pbuf is in the pool.
LEMMA InitOInv == Init => OInv
<1> SUFFICES ASSUME Init PROVE OInv
  OBVIOUS
<1>1. Shapes
  BY DEF Init, Shapes
<1>2. /\ \A x \in Pbufs : ~In(<< >>, x) /\ x # NULL
      /\ pRxStart = << >> /\ p = << >> /\ q = NULL /\ cur = << >> /\ tcpip_mbox = << >> /\ held = {}
  BY InNothing DEF Init
<1>3. DOMAIN << >> = {}
  OBVIOUS
<1>4. \A x \in Pbufs : ~HasOwner(x)
  BY <1>2, <1>3 DEF HasOwner, Posted, Held
<1>5. Chains
  BY <1>2, <1>3 DEF Chains, Distinct
<1>6. OneOwner
  BY <1>2, <1>3, <1>4 DEF OneOwner, HasOwner
<1> QED BY <1>1, <1>4, <1>5, <1>6 DEF OInv, Allocated

\* Steps that move no pbuf.
LEMMA SameOInv ==
    ASSUME OInv, UNCHANGED <<pRxStart, p, q, cur, tcpip_mbox, held, ref>>,
           pc' = pc \/ pc # "take"
    PROVE  OInv'
<1>1. Shapes' /\ Chains'
  BY DEF OInv, Shapes, Chains, Pbufs
<1>2. OneOwner'
  BY DEF OInv, OneOwner, Posted, Held, Pbufs
<1>3. Allocated'
  BY DEF OInv, Allocated, HasOwner, Posted, Held, Pbufs
<1> QED BY <1>1, <1>2, <1>3 DEF OInv

\* A pbuf from the pool had no owner; an empty pool posts a message that
\* contains none.
LEMMA LinkAllocOInv ==
    ASSUME OInv, LinkAlloc
    PROVE  OInv'
<1>1. UNCHANGED <<pRxStart, p, cur, held>> /\ q = NULL /\ pc = "link" /\ pc' = "take"
  BY DEF LinkAlloc, halVars, OInv, Shapes
<1>2. CASE /\ FreePbufs # {} /\ q' = Min(FreePbufs) /\ ref' = [ref EXCEPT ![q'] = 1]
           /\ UNCHANGED <<pbuf_free_ooseq_pending, tcpip_mbox>>
  <2>1. FreePbufs \subseteq Nat
    BY EthRxAssumption DEF FreePbufs, Pbufs
  <2>2. q' \in FreePbufs
    BY <1>2, <2>1, MinIn
  <2>3. PICK n \in Pbufs : n = q' /\ ref[n] = 0
    BY <2>2 DEF FreePbufs
  <2>4. ~HasOwner(n)
    BY <2>3 DEF OInv, Allocated
  <2>5. ref' = [ref EXCEPT ![n] = 1]
    BY <1>2, <2>3
  <2>6. \A x \in Pbufs : (Posted(x)' <=> Posted(x)) /\ (Held(x)' <=> Held(x))
    BY <1>1, <1>2 DEF Posted, Held
  <2>7. Shapes' /\ Chains'
    BY <1>1, <1>2, <2>3, <2>5 DEF OInv, Shapes, Chains, Pbufs
  <2>8. OneOwner'
    <3>1. \A x \in Pbufs : x # NULL
      BY InNothing
    <3> QED BY <1>1, <1>2, <2>3, <2>4, <2>6, <3>1 DEF OInv, OneOwner, HasOwner, Pbufs
  <2>9. Allocated'
    <3>1. \A x \in Pbufs : HasOwner(x)' => x = n \/ HasOwner(x)
      BY <1>1, <2>3, <2>6 DEF HasOwner
    <3>2. \A x \in Pbufs : ref'[x] = IF x = n THEN 1 ELSE ref[x]
      BY <2>5 DEF OInv, Shapes
    <3> QED BY <3>1, <3>2 DEF OInv, Allocated, Pbufs
  <2> QED BY <2>7, <2>8, <2>9 DEF OInv
<1>3. CASE q' = NULL /\ PBUF_POOL_IS_EMPTY /\ UNCHANGED ref
  <2>1. CASE UNCHANGED tcpip_mbox
    BY <1>1, <1>3, <2>1, SameOInv
  <2>2. CASE tcpip_mbox' = Append(tcpip_mbox, OOSEQ)
    <3>1. Shapes
      BY DEF OInv
    <3>2. OOSEQ \in Seq(Pbufs) \cup {OOSEQ} /\ \A x \in Pbufs : ~In(OOSEQ, x)
      BY InNothing
    <3>3. Distinct(OOSEQ)
      BY DEF Distinct, OOSEQ
    <3>4. /\ tcpip_mbox' \in Seq(Seq(Pbufs) \cup {OOSEQ})
          /\ \A x \in Pbufs : Posted(x)' <=> Posted(x)
          /\ \A i \in DOMAIN tcpip_mbox' : Distinct(tcpip_mbox'[i])
          /\ \A i, j \in DOMAIN tcpip_mbox' : \A x \in Pbufs :
                    In(tcpip_mbox'[i], x) /\ In(tcpip_mbox'[j], x) => i = j
      BY <2>2, <3>1, <3>2, <3>3, Post DEF OInv
    <3>5. \A x \in Pbufs : Held(x)' <=> Held(x)
      BY <1>1 DEF Held
    <3>6. Shapes' /\ Chains'
      BY <1>1, <1>3, <3>4 DEF OInv, Shapes, Chains, Pbufs
    <3>7. OneOwner'
      BY <1>1, <1>3, <3>4, <3>5 DEF OInv, OneOwner, Pbufs
    <3>8. Allocated'
      BY <1>1, <1>3, <3>4, <3>5 DEF OInv, Allocated, HasOwner, Pbufs
    <3> QED BY <3>6, <3>7, <3>8 DEF OInv
  <2> QED BY <1>3, <2>1, <2>2 DEF PBUF_POOL_IS_EMPTY
<1> QED BY <1>2, <1>3 DEF LinkAlloc

\* The fragment that was copied joins the frame being assembled.
LEMMA LinkTakeOInv ==
    ASSUME OInv, LinkTake
    PROVE  OInv'
<1>1. /\ UNCHANGED <<p, cur, tcpip_mbox, held>> /\ q' = NULL /\ pc = "take" /\ pc' = "read"
      /\ \/ q = NULL /\ UNCHANGED <<pRxStart, ref>>
         \/ q # NULL /\ pRxStart' = Append(pRxStart, q) /\ ref' = ChainRef(q)
  BY DEF LinkTake, tcpipVars
<1>2. \A x \in Pbufs : (Posted(x)' <=> Posted(x)) /\ (Held(x)' <=> Held(x)) /\ x # NULL
  BY <1>1, InNothing DEF Posted, Held
<1>3. CASE q = NULL
  <2>1. Shapes' /\ Chains'
    BY <1>1, <1>3 DEF OInv, Shapes, Chains, Pbufs
  <2>2. OneOwner'
    BY <1>1, <1>2, <1>3 DEF OInv, OneOwner, Pbufs
  <2>3. Allocated'
    BY <1>1, <1>2, <1>3 DEF OInv, Allocated, HasOwner, Pbufs
  <2> QED BY <2>1, <2>2, <2>3 DEF OInv
<1>4. CASE q # NULL
  <2>1. PICK n \in Pbufs : n = q
    BY <1>4 DEF OInv, Shapes
  <2>2. pRxStart' = Append(pRxStart, n) /\ pRxStart \in Seq(Pbufs)
    BY <1>1, <1>4, <2>1 DEF OInv, Shapes
  <2>3. \A x \in Pbufs : In(pRxStart', x) <=> In(pRxStart, x) \/ x = n
    BY <2>2, InAppend
  <2>4. ~In(pRxStart, n)
    BY <2>1 DEF OInv, OneOwner
  <2>5. pRxStart' \in Seq(Pbufs) /\ Distinct(pRxStart')
    BY <2>2, <2>4, DistinctAppend, AppendIs DEF OInv, Chains
  <2>6. ref' \in [Pbufs -> Nat] /\ \A x \in Pbufs : ref'[x] >= ref[x]
    <3>1. ref \in [Pbufs -> Nat]
      BY DEF OInv, Shapes
    <3>2. ref' = ref \/ ref' = [ref EXCEPT ![n] = ref[n] + 1]
      BY <1>1, <1>4, <2>1 DEF ChainRef
    <3> QED BY <3>1, <3>2
  <2>7. Shapes' /\ Chains'
    BY <1>1, <2>5, <2>6 DEF OInv, Shapes, Chains, Pbufs
  <2>8. OneOwner'
    BY <1>1, <1>2, <2>1, <2>3 DEF OInv, OneOwner, Pbufs
  <2>9. Allocated'
    <3>1. \A x \in Pbufs : HasOwner(x)' => HasOwner(x)
      BY <1>1, <1>2, <2>1, <2>3 DEF HasOwner
    <3> QED BY <2>6, <3>1 DEF OInv, Shapes, Allocated, Pbufs
  <2> QED BY <2>7, <2>8, <2>9 DEF OInv
<1> QED BY <1>3, <1>4

\* The assembled frame is delivered.
LEMMA ReadReturnOInv ==
    ASSUME OInv, ReadReturn
    PROVE  OInv'
<1>1. /\ UNCHANGED <<q, cur, tcpip_mbox, held, ref>> /\ pc = "return"
      /\ \/ p' = pRxStart /\ pRxStart' = << >>
         \/ UNCHANGED <<p, pRxStart>>
  BY DEF ReadReturn, tcpipVars
<1>2. CASE UNCHANGED <<p, pRxStart>>
  BY <1>1, <1>2, SameOInv
<1>3. CASE p' = pRxStart /\ pRxStart' = << >>
  <2>1. \A x \in Pbufs : (Posted(x)' <=> Posted(x)) /\ (Held(x)' <=> Held(x)) /\ ~In(<< >>, x)
    BY <1>1, InNothing DEF Posted, Held
  <2>2. << >> \in Seq(Pbufs) /\ Distinct(<< >>)
    BY DEF Distinct
  <2>3. Shapes' /\ Chains'
    BY <1>1, <1>3, <2>2 DEF OInv, Shapes, Chains, Pbufs
  <2>4. OneOwner'
    BY <1>1, <1>3, <2>1 DEF OInv, OneOwner, Pbufs
  <2>5. Allocated'
    BY <1>1, <1>3, <2>1 DEF OInv, Allocated, HasOwner, Pbufs
  <2> QED BY <2>3, <2>4, <2>5 DEF OInv
<1> QED BY <1>1, <1>2, <1>3

\* netif->input() took the frame: it is in the mailbox now.
LEMMA InputOkOInv ==
    ASSUME OInv, InputOk
    PROVE  OInv'
<1>1. /\ UNCHANGED <<pRxStart, q, cur, held, ref>> /\ pc = "input"
      /\ tcpip_mbox' = Append(tcpip_mbox, p) /\ p' = << >>
  BY DEF InputOk, halVars
<1>2. Shapes
  BY DEF OInv
<1>3. PICK f \in Seq(Pbufs) \cup {OOSEQ} : f = p
  BY <1>2 DEF Shapes
<1>4. \A x \in Pbufs : In(f, x) => ~Posted(x)
  BY <1>3 DEF OInv, OneOwner
<1>5. /\ tcpip_mbox' \in Seq(Seq(Pbufs) \cup {OOSEQ})
      /\ \A x \in Pbufs : Posted(x)' <=> Posted(x) \/ In(f, x)
      /\ \A i \in DOMAIN tcpip_mbox' : Distinct(tcpip_mbox'[i])
      /\ \A i, j \in DOMAIN tcpip_mbox' : \A x \in Pbufs :
            In(tcpip_mbox'[i], x) /\ In(tcpip_mbox'[j], x) => i = j
  BY <1>1, <1>2, <1>3, <1>4, Post DEF OInv, Chains
<1>6. \A x \in Pbufs : (Held(x)' <=> Held(x)) /\ ~In(<< >>, x)
  BY <1>1, InNothing DEF Held
<1>7. << >> \in Seq(Pbufs) /\ Distinct(<< >>)
  BY DEF Distinct
<1>8. Shapes' /\ Chains'
  BY <1>1, <1>5, <1>7 DEF OInv, Shapes, Chains, Pbufs
<1>9. OneOwner'
  BY <1>1, <1>3, <1>5, <1>6 DEF OInv, OneOwner, Pbufs
<1>10. Allocated'
  BY <1>1, <1>3, <1>5, <1>6 DEF OInv, Allocated, HasOwner, Pbufs
<1> QED BY <1>8, <1>9, <1>10 DEF OInv

\* Frames that leave the places where they are owned, and are freed.
LEMMA FreedOInv ==
    ASSUME OInv, Shapes', Chains', OneOwner',
           \A x \in Pbufs : HasOwner(x)' => HasOwner(x) /\ ref'[x] = ref[x]
    PROVE  OInv'
BY DEF OInv, Allocated, Pbufs

\* ERR_MEM: the frame is freed.
LEMMA InputFailedOInv ==
    ASSUME OInv, InputFailed
    PROVE  OInv'
<1>1. /\ UNCHANGED <<pRxStart, q, cur, held, tcpip_mbox>> /\ pc = "input"
      /\ ref' = pbuf_free(p) /\ p' = << >>
  BY DEF InputFailed, halVars, tcpipVars
<1>2. \A x \in Pbufs : In(p, x) => ref[x] > 0
  BY DEF OInv, Allocated, HasOwner
<1>3. ref' \in [Pbufs -> Nat] /\ \A x \in Pbufs : ~In(p, x) => ref'[x] = ref[x]
  BY <1>1, <1>2, FreeType, FreeOthers DEF OInv
<1>4. \A x \in Pbufs : (Posted(x)' <=> Posted(x)) /\ (Held(x)' <=> Held(x)) /\ ~In(<< >>, x)
  BY <1>1, InNothing DEF Posted, Held
<1>5. << >> \in Seq(Pbufs) /\ Distinct(<< >>)
  BY DEF Distinct
<1>6. Shapes' /\ Chains'
  BY <1>1, <1>3, <1>5 DEF OInv, Shapes, Chains, Pbufs
<1>7. OneOwner'
  BY <1>1, <1>4 DEF OInv, OneOwner, Pbufs
<1>8. \A x \in Pbufs : HasOwner(x)' => HasOwner(x) /\ ~In(p, x)
  BY <1>1, <1>4 DEF OInv, OneOwner, HasOwner
<1> QED BY <1>3, <1>6, <1>7, <1>8, FreedOInv

\* The tcpip thread takes the first message.
LEMMA FetchOInv ==
    ASSUME OInv, TcpipFetch
    PROVE  OInv'
<1>1. /\ UNCHANGED <<pRxStart, p, q, pc, held, ref>> /\ cur = << >> /\ tcpip_mbox # << >>
      /\ cur' = Head(tcpip_mbox) /\ tcpip_mbox' = Tail(tcpip_mbox)
  BY DEF TcpipFetch, halVars, pollVars
<1>2. tcpip_mbox \in Seq(Seq(Pbufs) \cup {OOSEQ})
  BY DEF OInv, Shapes
<1>3. /\ tcpip_mbox' \in Seq(Seq(Pbufs) \cup {OOSEQ})
      /\ cur' = tcpip_mbox[1] /\ cur' \in Seq(Pbufs) \cup {OOSEQ} /\ 1 \in DOMAIN tcpip_mbox
      /\ \A i \in DOMAIN tcpip_mbox' :
            i + 1 \in DOMAIN tcpip_mbox /\ tcpip_mbox'[i] = tcpip_mbox[i + 1] /\ i \in Nat
      /\ \A i \in DOMAIN tcpip_mbox : i # 1 =>
            i - 1 \in DOMAIN tcpip_mbox' /\ tcpip_mbox'[i - 1] = tcpip_mbox[i] /\ i \in Nat
  BY <1>1, <1>2, TailIs
<1>4. \A i \in DOMAIN tcpip_mbox' : i # 0
  <2>1. \A i \in DOMAIN tcpip_mbox' : i >= 1
    BY <1>3
  <2> QED BY <2>1
<1>5. ASSUME NEW x \in Pbufs
      PROVE  /\ Posted(x) <=> Posted(x)' \/ In(cur', x)
             /\ ~(Posted(x)' /\ In(cur', x))
             /\ Held(x)' <=> Held(x)
             /\ ~In(cur, x)
  <2>1. Posted(x)' => Posted(x)
    BY <1>3 DEF Posted
  <2>2. In(cur', x) => Posted(x)
    BY <1>3 DEF Posted
  <2>3. ASSUME Posted(x) PROVE Posted(x)' \/ In(cur', x)
    <3>1. PICK i \in DOMAIN tcpip_mbox : In(tcpip_mbox[i], x)
      BY <2>3 DEF Posted
    <3>2. CASE i = 1
      BY <1>3, <3>1, <3>2
    <3>3. CASE i # 1
      BY <1>3, <3>1, <3>3 DEF Posted
    <3> QED BY <3>2, <3>3
  <2>4. ASSUME Posted(x)', In(cur', x) PROVE FALSE
    <3>1. PICK i \in DOMAIN tcpip_mbox' : In(tcpip_mbox'[i], x)
      BY <2>4 DEF Posted
    <3>2. i + 1 \in DOMAIN tcpip_mbox /\ In(tcpip_mbox[i + 1], x) /\ In(tcpip_mbox[1], x)
          /\ 1 \in DOMAIN tcpip_mbox /\ i \in Nat
      BY <1>3, <2>4, <3>1
    <3>3. i + 1 = 1
      BY <3>2 DEF OInv, OneOwner
    <3> QED BY <1>4, <3>2, <3>3
  <2>5. (Held(x)' <=> Held(x)) /\ ~In(cur, x)
    BY <1>1, InNothing DEF Held
  <2> QED BY <2>1, <2>2, <2>3, <2>4, <2>5
<1>6. Shapes'
  BY <1>1, <1>3 DEF OInv, Shapes, Pbufs
<1>7. Chains'
  BY <1>1, <1>3 DEF OInv, Chains
<1>8. OneOwner'
  <2>1. ASSUME NEW i \in DOMAIN tcpip_mbox', NEW j \in DOMAIN tcpip_mbox', NEW x \in Pbufs,
               In(tcpip_mbox'[i], x), In(tcpip_mbox'[j], x)
        PROVE  i = j
    <3>1. i + 1 = j + 1
      BY <1>3, <2>1 DEF OInv, OneOwner
    <3>2. i \in Nat /\ j \in Nat
      BY <1>3
    <3> QED BY <3>1, <3>2
  <2>2. \A x \in Pbufs :
          /\ In(pRxStart, x) => ~(In(p, x) \/ q = x \/ In(cur', x) \/ Posted(x)' \/ Held(x))
          /\ In(p, x) => ~(q = x \/ In(cur', x) \/ Posted(x)' \/ Held(x))
          /\ q = x => ~(In(cur', x) \/ Posted(x)' \/ Held(x))
          /\ In(cur', x) => ~(Posted(x)' \/ Held(x))
          /\ Posted(x)' => ~Held(x)
    BY <1>5 DEF OInv, OneOwner
  <2> QED BY <1>1, <1>5, <2>1, <2>2 DEF OInv, OneOwner, Pbufs
<1>9. Allocated'
  BY <1>1, <1>5 DEF OInv, Allocated, HasOwner, Pbufs
<1> QED BY <1>6, <1>7, <1>8, <1>9 DEF OInv

\* The tcpip thread frees the frame or leaves it to the application.
LEMMA TcpipInputOInv ==
    ASSUME OInv, NEW keep \in BOOLEAN, TcpipInput(keep)
    PROVE  OInv'
<1>1. /\ UNCHANGED <<pRxStart, p, q, pc, tcpip_mbox>> /\ cur \notin {<< >>, OOSEQ} /\ cur' = << >>
      /\ \/ held' = held \cup {cur} /\ ref' = ref
         \/ held' = held /\ ref' = pbuf_free(cur)
  BY DEF TcpipInput, halVars, pollVars
<1>2. \A x \in Pbufs : (Posted(x)' <=> Posted(x)) /\ ~In(<< >>, x)
  BY <1>1, InNothing DEF Posted
<1>3. << >> \in Seq(Pbufs) /\ Distinct(<< >>) /\ cur \in Seq(Pbufs)
  BY <1>1 DEF Distinct, OInv, Shapes
<1>4. CASE held' = held \cup {cur} /\ ref' = ref
  <2>1. \A x \in Pbufs : Held(x)' <=> Held(x) \/ In(cur, x)
    BY <1>4 DEF Held
  <2>2. Shapes' /\ Chains'
    BY <1>1, <1>3, <1>4 DEF OInv, Shapes, Chains, Pbufs
  <2>3. \A f, g \in held' : \A x \in Pbufs : In(f, x) /\ In(g, x) => f = g
    BY <1>4 DEF OInv, OneOwner, Held
  <2>4. OneOwner'
    BY <1>1, <1>2, <2>1, <2>3 DEF OInv, OneOwner, Pbufs
  <2>5. Allocated'
    BY <1>1, <1>2, <1>4, <2>1 DEF OInv, Allocated, HasOwner, Pbufs
  <2> QED BY <2>2, <2>4, <2>5 DEF OInv
<1>5. CASE held' = held /\ ref' = pbuf_free(cur)
  <2>1. \A x \in Pbufs : In(cur, x) => ref[x] > 0
    BY DEF OInv, Allocated, HasOwner
  <2>2. ref' \in [Pbufs -> Nat] /\ \A x \in Pbufs : ~In(cur, x) => ref'[x] = ref[x]
    BY <1>5, <2>1, FreeType, FreeOthers DEF OInv
  <2>3. \A x \in Pbufs : Held(x)' <=> Held(x)
    BY <1>5 DEF Held
  <2>4. Shapes' /\ Chains'
    BY <1>1, <1>3, <1>5, <2>2 DEF OInv, Shapes, Chains, Pbufs
  <2>5. OneOwner'
    BY <1>1, <1>2, <1>5, <2>3 DEF OInv, OneOwner, Pbufs
  <2>6. \A x \in Pbufs : HasOwner(x)' => HasOwner(x) /\ ~In(cur, x)
    BY <1>1, <1>2, <2>3 DEF OInv, OneOwner, HasOwner
  <2> QED BY <2>2, <2>4, <2>5, <2>6, FreedOInv
<1> QED BY <1>1, <1>4, <1>5

\* Some of the frames left to the application are freed.
LEMMA UnheldOInv ==
    ASSUME OInv, NEW segs \in SUBSET held, held' = held \ segs,
           ref' \in [Pbufs -> Nat],
           \A x \in Pbufs : (\A f \in segs : ~In(f, x)) => ref'[x] = ref[x],
           UNCHANGED <<pRxStart, p, q, pc, tcpip_mbox>>,
           cur' = cur \/ cur' = << >>
    PROVE  OInv'
<1>1. \A x \in Pbufs : (Posted(x)' <=> Posted(x)) /\ ~In(<< >>, x) /\ (Held(x)' => Held(x))
  BY InNothing DEF Posted, Held
<1>2. << >> \in Seq(Pbufs) /\ Distinct(<< >>)
  BY DEF Distinct
<1>3. Shapes' /\ Chains'
  BY <1>2 DEF OInv, Shapes, Chains, Pbufs
<1>4. OneOwner'
  BY <1>1 DEF OInv, OneOwner, Pbufs
<1>5. ASSUME NEW x \in Pbufs, HasOwner(x)'
      PROVE  HasOwner(x) /\ \A f \in segs : ~In(f, x)
  <2>1. HasOwner(x)
    BY <1>1, <1>5 DEF HasOwner
  <2>2. \A f \in segs : In(f, x) => ~Held(x)'
    BY DEF OInv, OneOwner, Held
  <2>3. \A f \in segs : In(f, x) => Held(x)
    BY DEF Held
  <2> QED BY <1>1, <1>5, <2>1, <2>2, <2>3 DEF OInv, OneOwner, HasOwner
<1> QED BY <1>3, <1>4, <1>5, FreedOInv

\* pbuf_free_ooseq() and netbuf_delete().
LEMMA HeldOInv ==
    ASSUME OInv, \/ \E segs \in SUBSET held : TcpipOoseq(segs)
                 \/ \E f \in held : AppFree(f)
    PROVE  OInv'
<1>0. Shapes /\ \A f \in held : \A x \in Pbufs : In(f, x) => ref[x] > 0
  BY DEF OInv, Allocated, HasOwner, Held
<1>1. ASSUME NEW segs \in SUBSET held, TcpipOoseq(segs) PROVE OInv'
  <2>1. /\ UNCHANGED <<pRxStart, p, q, pc, tcpip_mbox>> /\ cur' = << >>
        /\ held' = held \ segs /\ ref' = pbuf_free_all(segs)
    BY <1>1 DEF TcpipOoseq, halVars, pollVars
  <2>2. /\ ref' \in [Pbufs -> Nat]
        /\ \A x \in Pbufs : (\A f \in segs : ~In(f, x)) => ref'[x] = ref[x]
    BY <1>0, <2>1, FreeAll
  <2> QED BY <2>1, <2>2, UnheldOInv
<1>2. ASSUME NEW f \in held, AppFree(f) PROVE OInv'
  <2>1. /\ UNCHANGED <<pRxStart, p, q, pc, tcpip_mbox>> /\ cur' = cur
        /\ held' = held \ {f} /\ ref' = pbuf_free(f)
    BY <1>2 DEF AppFree, halVars, pollVars
  <2>2. /\ ref' \in [Pbufs -> Nat]
        /\ \A x \in Pbufs : ~In(f, x) => ref'[x] = ref[x]
    BY <1>0, <2>1, FreeType, FreeOthers
  <2>3. /\ {f} \in SUBSET held
        /\ \A x \in Pbufs : (\A g \in {f} : ~In(g, x)) => ref'[x] = ref[x]
    BY <2>2
  <2> QED BY <2>1, <2>2, <2>3, UnheldOInv
<1> QED BY <1>1, <1>2

\* Every step keeps OInv.
LEMMA NextOInv == OInv /\ [Next]_vars => OInv'
<1> SUFFICES ASSUME OInv, [Next]_vars PROVE OInv'
  OBVIOUS
<1>1. CASE \E last \in BOOLEAN : DmaReceive(last)
  BY <1>1, SameOInv DEF DmaReceive, halVars, pollVars, tcpipVars
<1>2. CASE PollWake \/ ReadDone \/ UpdateDone
  BY <1>2, SameOInv DEF PollWake, ReadDone, UpdateDone, halVars, tcpipVars
<1>3. CASE ReadDesc \/ UpdateDesc
  BY <1>3, SameOInv DEF ReadDesc, UpdateDesc, tcpipVars
<1>4. CASE LinkAlloc
  BY <1>4, LinkAllocOInv
<1>5. CASE LinkTake
  BY <1>5, LinkTakeOInv
<1>6. CASE ReadReturn
  BY <1>6, ReadReturnOInv
<1>7. CASE InputOk
  BY <1>7, InputOkOInv
<1>8. CASE InputFailed
  BY <1>8, InputFailedOInv
<1>9. CASE TcpipFetch
  BY <1>9, FetchOInv
<1>10. CASE \E keep \in BOOLEAN : TcpipInput(keep)
  BY <1>10, TcpipInputOInv
<1>11. CASE (\E segs \in SUBSET held : TcpipOoseq(segs)) \/ (\E f \in held : AppFree(f))
  BY <1>11, HeldOInv
<1>12. CASE UNCHANGED vars
  BY <1>12, SameOInv DEF vars, halVars, pollVars, tcpipVars
<1> QED
  BY <1>1, <1>2, <1>3, <1>4, <1>5, <1>6, <1>7, <1>8, <1>9, <1>10, <1>11, <1>12
     DEF Next, Poll, Tcpip

\* tcpip_input(), ethernetif_poll(), pbuf_free(): no pbuf is freed under its
\* owner and none has two, for any pool, mailbox and number of fragments: in
\* particular a frame is not freed after netif->input() took it.
THEOREM NoUseAfterFreeAlways == Spec => []NoUseAfterFree
<1>1. OInv => NoUseAfterFree
  <2> SUFFICES ASSUME OInv, NEW f \in Owned \ {OOSEQ, <<NULL>>}, NEW g \in Owned \ {OOSEQ, <<NULL>>},
                      NEW i \in DOMAIN f, NEW j \in DOMAIN g
               PROVE  ref[f[i]] > 0 /\ (f[i] = g[j] => f = g /\ i = j)
    BY DEF NoUseAfterFree
  <2>1. ASSUME NEW h \in Owned \ {OOSEQ, <<NULL>>}, NEW k \in DOMAIN h
        PROVE  /\ h[k] \in Pbufs /\ Distinct(h)
               /\ \/ h = pRxStart \/ h = p \/ (h = <<q>> /\ h[k] = q /\ q # NULL) \/ h = cur \/ h \in held
                  \/ \E n \in DOMAIN tcpip_mbox : h = tcpip_mbox[n]
    <3>1. CASE h = pRxStart \/ h = p \/ h = cur
      BY <3>1 DEF OInv, Shapes, Chains
    <3>2. CASE h = <<q>>
      <4>1. q \in Pbufs /\ q # NULL
        BY <3>2 DEF OInv, Shapes
      <4>2. k = 1 /\ h[1] = q /\ DOMAIN h = {1}
        BY <3>2
      <4> QED BY <3>2, <4>1, <4>2 DEF Distinct
    <3>3. CASE h \in held
      BY <3>3 DEF OInv, Shapes, Chains
    <3>4. CASE \E n \in DOMAIN tcpip_mbox : h = tcpip_mbox[n]
      <4>1. PICK n \in DOMAIN tcpip_mbox : h = tcpip_mbox[n]
        BY <3>4
      <4>2. h \in Seq(Pbufs) /\ Distinct(h)
        BY <4>1 DEF OInv, Shapes, Chains
      <4> QED BY <4>1, <4>2
    <3> QED BY <3>1, <3>2, <3>3, <3>4 DEF Owned
  <2>2. PICK x : x = f[i]
    OBVIOUS
  <2>3. x \in Pbufs /\ In(f, x)
    BY <2>1, <2>2 DEF In
  <2>4. ref[f[i]] > 0
    BY <2>1, <2>2, <2>3 DEF OInv, Allocated, HasOwner, Posted, Held
  <2>5. ASSUME f[i] = g[j] PROVE f = g
    <3>1. In(g, x)
      BY <2>2, <2>5 DEF In
    <3>2. CASE f = pRxStart
      BY <2>1, <2>2, <2>3, <2>5, <3>1, <3>2 DEF OInv, OneOwner, Posted, Held
    <3>3. CASE f = p
      BY <2>1, <2>2, <2>3, <2>5, <3>1, <3>3 DEF OInv, OneOwner, Posted, Held
    <3>4. CASE f = <<q>> /\ x = q
      BY <2>1, <2>2, <2>3, <2>5, <3>1, <3>4 DEF OInv, OneOwner, Posted, Held
    <3>5. CASE f = cur
      BY <2>1, <2>2, <2>3, <2>5, <3>1, <3>5 DEF OInv, OneOwner, Posted, Held
    <3>6. CASE f \in held
      BY <2>1, <2>2, <2>3, <2>5, <3>1, <3>6 DEF OInv, OneOwner, Posted, Held
    <3>7. CASE \E n \in DOMAIN tcpip_mbox : f = tcpip_mbox[n]
      BY <2>1, <2>2, <2>3, <2>5, <3>1, <3>7 DEF OInv, OneOwner, Posted, Held
    <3> QED BY <2>1, <2>2, <3>2, <3>3, <3>4, <3>5, <3>6, <3>7
  <2>6. ASSUME f[i] = g[j], f = g PROVE i = j
    BY <2>1, <2>6 DEF Distinct
  <2> QED BY <2>4, <2>5, <2>6
<1> QED BY <1>1, InitOInv, NextOInv, PTL DEF Spec

-----------------------------------------------------------------------------
(* One fragment per frame                                                  *)

\* At first every pbuf is in the pool.
LEMMA InitSInv == MAX_FRAGS = 1 /\ Init => SInv
<1> SUFFICES ASSUME MAX_FRAGS = 1, Init PROVE SInv
  OBVIOUS
<1>1. Single /\ Short
  BY DEF Init, Single, Short
<1>2. Exact
  <2>1. \A x \in Pbufs : ~In(<< >>, x) /\ x # NULL
    BY InNothing
  <2>2. DOMAIN << >> = {}
    OBVIOUS
  <2> QED BY <2>1, <2>2 DEF Init, Exact, HasOwner, Posted, Held
<1> QED BY <1>1, <1>2 DEF SInv

\* The frames and counts are untouched.
LEMMA SameSInv ==
    ASSUME SInv, UNCHANGED <<pRxStart, p, q, cur, tcpip_mbox, held, ref>>
    PROVE  Short' /\ Exact'
<1>1. Short'
  BY DEF SInv, Short
<1>2. Exact'
  BY DEF SInv, Exact, HasOwner, Posted, Held, Pbufs
<1> QED BY <1>1, <1>2

\* The steps of eth_poll that move no pbuf, and the DMA: a descriptor it
\* filled holds a whole frame.
LEMMA DescSInv ==
    ASSUME MAX_FRAGS = 1, BInv, SInv,
           \/ \E last \in BOOLEAN : DmaReceive(last)
           \/ PollWake \/ ReadDesc \/ ReadDone \/ UpdateDesc \/ UpdateDone \/ UNCHANGED vars
    PROVE  SInv'
<1>1. Short' /\ Exact'
  <2>1. UNCHANGED <<pRxStart, p, q, cur, tcpip_mbox, held, ref>>
    BY DEF DmaReceive, PollWake, ReadDesc, ReadDone, UpdateDesc, UpdateDone, vars,
           halVars, pollVars, tcpipVars
  <2> QED BY <2>1, SameSInv
<1>2. ASSUME NEW last \in BOOLEAN, DmaReceive(last) PROVE Single'
  <2>0. dmaFrag = 0 /\ last = TRUE
    BY <1>2 DEF DmaReceive, SInv, Single
  <2>1. /\ fs' = [fs EXCEPT ![dmaIdx] = TRUE] /\ ls' = [ls EXCEPT ![dmaIdx] = TRUE]
        /\ own' = [own EXCEPT ![dmaIdx] = FALSE] /\ dmaFrag' = 0
        /\ UNCHANGED <<rxdataready, pRxStart, pc, p>>
    BY <1>2, <2>0 DEF DmaReceive, halVars, pollVars
  <2> QED BY <2>1 DEF SInv, Single, BInv, BufType, Descs
<1>3. CASE ReadDesc
  <2>1. fs[RxDescIdx] /\ ls[RxDescIdx] /\ pRxStart = << >>
    BY <1>3 DEF ReadDesc, SInv, Single, BInv, BufType
  <2>2. /\ pc = "read" /\ pc' = "link" /\ rxdataready' = TRUE
        /\ UNCHANGED <<fs, ls, dmaFrag, own, pRxStart, p>>
    BY <1>3, <2>1 DEF ReadDesc, dmaVars, SInv, Single, BInv, BufType
  <2> QED BY <1>1, <2>1, <2>2 DEF SInv, Single, Descs
<1>4. CASE UpdateDesc
  <2>1. /\ pc = "update" /\ (pc' = "return" \/ pc' = pc)
        /\ own' = own \/ own' = [own EXCEPT ![RxBuildDescIdx] = TRUE]
        /\ UNCHANGED <<fs, ls, dmaFrag, rxdataready, pRxStart, p>>
    BY <1>4 DEF UpdateDesc
  <2>2. \A d \in Descs : own[d] => own'[d]
    BY <2>1 DEF BInv, BufType
  <2> QED BY <1>1, <2>1, <2>2 DEF SInv, Single, Descs
<1>5. CASE PollWake \/ ReadDone \/ UpdateDone \/ UNCHANGED vars
  <2>1. /\ (pc' \in {"read", "update", "return"} /\ pc \in {"sleep", "read", "update"}) \/ pc' = pc
        /\ UNCHANGED <<fs, ls, own, dmaFrag, rxdataready, pRxStart, p>>
    BY <1>5 DEF PollWake, ReadDone, UpdateDone, vars, dmaVars, halVars, pollVars
  <2> QED BY <1>1, <2>1 DEF SInv, Single, Descs
<1> QED BY <1>1, <1>2, <1>3, <1>4, <1>5 DEF SInv

\* A step that changes who owns a pbuf, but not which pbufs are owned.
LEMMA MovedSInv ==
    ASSUME SInv, \A x \in Pbufs : (HasOwner(x)' <=> HasOwner(x)) /\ ref'[x] = ref[x]
    PROVE  Exact'
BY DEF SInv, Exact, Pbufs

\* A frame is freed: the one pbuf it may have goes back to the pool.
LEMMA FreedSInv ==
    ASSUME OInv, SInv, NEW c \in Seq(Pbufs), Len(c) <= 1, ref' = pbuf_free(c),
           \A x \in Pbufs : In(c, x) => HasOwner(x),
           \A x \in Pbufs : HasOwner(x)' <=> HasOwner(x) /\ ~In(c, x)
    PROVE  Exact'
<1>1. ASSUME NEW x \in Pbufs PROVE (HasOwner(x)' => ref'[x] = 1) /\ (~HasOwner(x)' => ref'[x] = 0)
  <2>1. CASE In(c, x)
    <3>1. ref[x] = 1
      BY <2>1 DEF SInv, Exact
    <3>2. c[1] = x /\ 1 \in DOMAIN c
      BY <2>1 DEF In
    <3>3. \A j \in 1 .. 1 - 1 : ref[c[j]] = 1
      OBVIOUS
    <3>4. ref'[x] = ref[x] - 1
      BY <3>2, <3>3 DEF pbuf_free
    <3> QED BY <2>1, <3>1, <3>4
  <2>2. CASE ~In(c, x)
    <3>1. ref'[x] = ref[x]
      BY <2>2, FreeOthers
    <3> QED BY <2>2, <3>1 DEF SInv, Exact
  <2> QED BY <2>1, <2>2
<1> QED BY <1>1 DEF Exact, Pbufs

\* RxLinkCallback takes a pbuf from the pool, or posts the callback.
LEMMA LinkAllocSInv ==
    ASSUME OInv, OInv', SInv, LinkAlloc
    PROVE  SInv'
<1>1. /\ UNCHANGED <<fs, ls, own, dmaFrag, rxdataready, pRxStart, p, cur, held>>
      /\ q = NULL /\ pc = "link" /\ pc' = "take"
  BY DEF LinkAlloc, dmaVars, halVars, OInv, Shapes
<1>2. Single'
  BY <1>1 DEF SInv, Single, Descs
<1>3. CASE /\ FreePbufs # {} /\ q' = Min(FreePbufs) /\ ref' = [ref EXCEPT ![q'] = 1]
           /\ UNCHANGED <<pbuf_free_ooseq_pending, tcpip_mbox>>
  <2>1. Short'
    BY <1>1, <1>3 DEF SInv, Short
  <2>2. q' \in Pbufs
    <3>1. FreePbufs \subseteq Nat
      BY EthRxAssumption DEF FreePbufs, Pbufs
    <3> QED BY <1>3, <3>1, MinIn DEF FreePbufs
  <2>3. PICK n \in Pbufs : n = q'
    BY <2>2
  <2>4. \A x \in Pbufs : ref'[x] = IF x = n THEN 1 ELSE ref[x]
    BY <1>3, <2>3 DEF OInv, Shapes
  <2>5. \A x \in Pbufs : (Posted(x)' <=> Posted(x)) /\ (Held(x)' <=> Held(x)) /\ x # NULL
    BY <1>1, <1>3, InNothing DEF Posted, Held
  <2>6. \A x \in Pbufs : HasOwner(x)' <=> HasOwner(x) \/ x = n
    BY <1>1, <2>3, <2>5 DEF HasOwner
  <2>7. Exact'
    BY <2>4, <2>6 DEF SInv, Exact, Pbufs
  <2> QED BY <1>2, <2>1, <2>7 DEF SInv
<1>4. CASE q' = NULL /\ PBUF_POOL_IS_EMPTY /\ UNCHANGED ref
  <2>1. CASE UNCHANGED tcpip_mbox
    BY <1>1, <1>2, <1>4, <2>1, SameSInv DEF SInv
  <2>2. CASE tcpip_mbox' = Append(tcpip_mbox, OOSEQ)
    <3>1. Shapes
      BY DEF OInv
    <3>2. OOSEQ \in Seq(Pbufs) \cup {OOSEQ} /\ \A x \in Pbufs : ~In(OOSEQ, x)
      BY InNothing
    <3>3. \A x \in Pbufs : Posted(x)' <=> Posted(x)
      BY <2>2, <3>1, <3>2, Post
    <3>4. \A x \in Pbufs : Held(x)' <=> Held(x)
      BY <1>1 DEF Held
    <3>5. \A x \in Pbufs : (HasOwner(x)' <=> HasOwner(x)) /\ ref'[x] = ref[x]
      BY <1>1, <1>4, <3>3, <3>4 DEF HasOwner
    <3>6. Exact'
      BY <3>5, MovedSInv
    <3>7. \A i \in DOMAIN tcpip_mbox' : (i \in DOMAIN tcpip_mbox /\ tcpip_mbox'[i] = tcpip_mbox[i])
                                        \/ tcpip_mbox'[i] = OOSEQ
      BY <2>2, <3>1, <3>2, AppendIs DEF Shapes
    <3>8. Len(OOSEQ) = 1
      BY DEF OOSEQ
    <3>9. Short'
      BY <1>1, <3>7, <3>8 DEF SInv, Short
    <3> QED BY <1>2, <3>6, <3>9 DEF SInv
  <2> QED BY <1>4, <2>1, <2>2 DEF PBUF_POOL_IS_EMPTY
<1> QED BY <1>3, <1>4 DEF LinkAlloc

\* The fragment is the whole frame: nothing to chain it to, no reference is
\* added.
LEMMA LinkTakeSInv ==
    ASSUME OInv, SInv, LinkTake
    PROVE  SInv'
<1>1. /\ UNCHANGED <<fs, ls, own, dmaFrag, rxdataready, p, cur, tcpip_mbox, held>>
      /\ q' = NULL /\ pc = "take" /\ pc' = "read"
      /\ pRxStart = << >> /\ rxdataready /\ ref' = ref
      /\ \/ q = NULL /\ pRxStart' = << >>
         \/ q # NULL /\ pRxStart' = Append(<< >>, q)
  BY DEF LinkTake, ChainRef, tcpipVars, SInv, Single
<1>2. Single'
  BY <1>1 DEF SInv, Single, Descs
<1>3. q \in Pbufs \cup {NULL} /\ Len(<< >>) = 0 /\ (q \in Pbufs => << >> \in Seq(Pbufs))
  BY DEF OInv, Shapes
<1>4. Short'
  <2>1. CASE q = NULL
    BY <1>1, <1>3, <2>1 DEF SInv, Short
  <2>2. CASE q # NULL
    <3>1. pRxStart' = <<q>> /\ Len(<<q>>) = 1
      BY <1>1, <2>2
    <3> QED BY <1>1, <3>1 DEF SInv, Short
  <2> QED BY <2>1, <2>2
<1>5. ASSUME NEW x \in Pbufs PROVE HasOwner(x)' <=> HasOwner(x)
  <2>1. (Posted(x)' <=> Posted(x)) /\ (Held(x)' <=> Held(x)) /\ x # NULL /\ ~In(<< >>, x)
    BY <1>1, InNothing DEF Posted, Held
  <2>2. In(pRxStart', x) <=> x = q
    <3>1. CASE q = NULL
      BY <1>1, <2>1, <3>1
    <3>2. CASE q # NULL
      <4>1. PICK n \in Pbufs : n = q
        BY <1>3, <3>2
      <4>2. pRxStart' = Append(<< >>, n) /\ << >> \in Seq(Pbufs)
        BY <1>1, <3>2, <4>1
      <4>3. In(Append(<< >>, n), x) <=> In(<< >>, x) \/ x = n
        BY <4>2, InAppend
      <4> QED BY <2>1, <4>1, <4>2, <4>3
    <3> QED BY <3>1, <3>2
  <2> QED BY <1>1, <2>1, <2>2 DEF HasOwner
<1>6. Exact'
  BY <1>1, <1>5, MovedSInv
<1> QED BY <1>2, <1>4, <1>6 DEF SInv

\* The assembled frame is delivered.
LEMMA ReadReturnSInv ==
    ASSUME OInv, SInv, ReadReturn
    PROVE  SInv'
<1>1. /\ UNCHANGED <<fs, ls, own, dmaFrag, q, cur, tcpip_mbox, held, ref>> /\ pc = "return"
      /\ p = << >> /\ rxdataready' = FALSE /\ pRxStart' = << >> /\ p' = pRxStart
      /\ pc' \in {"sleep", "input"} /\ (pc' = "sleep" => pRxStart = << >>)
  BY DEF ReadReturn, dmaVars, tcpipVars, SInv, Single
<1>2. Single'
  BY <1>1 DEF SInv, Single, Descs
<1>3. Short'
  BY <1>1 DEF SInv, Short
<1>4. \A x \in Pbufs : (Posted(x)' <=> Posted(x)) /\ (Held(x)' <=> Held(x)) /\ ~In(<< >>, x)
  BY <1>1, InNothing DEF Posted, Held
<1>5. \A x \in Pbufs : HasOwner(x)' <=> HasOwner(x)
  BY <1>1, <1>4 DEF HasOwner
<1>6. Exact'
  BY <1>1, <1>5, MovedSInv
<1> QED BY <1>2, <1>3, <1>6 DEF SInv

\* netif->input() took the frame.
LEMMA InputOkSInv ==
    ASSUME OInv, SInv, InputOk
    PROVE  SInv'
<1>1. /\ UNCHANGED <<fs, ls, own, dmaFrag, rxdataready, pRxStart, q, cur, held, ref>>
      /\ pc = "input" /\ pc' = "read" /\ tcpip_mbox' = Append(tcpip_mbox, p) /\ p' = << >>
  BY DEF InputOk, dmaVars, halVars
<1>2. Single'
  BY <1>1 DEF SInv, Single, Descs
<1>3. Shapes
  BY DEF OInv
<1>4. PICK f \in Seq(Pbufs) \cup {OOSEQ} : f = p
  BY <1>3 DEF Shapes
<1>5. Short'
  <2>1. \A i \in DOMAIN tcpip_mbox' : (i \in DOMAIN tcpip_mbox /\ tcpip_mbox'[i] = tcpip_mbox[i])
                                      \/ tcpip_mbox'[i] = p
    BY <1>1, <1>3, <1>4, AppendIs DEF Shapes
  <2> QED BY <1>1, <2>1 DEF SInv, Short
<1>6. \A x \in Pbufs : Posted(x)' <=> Posted(x) \/ In(f, x)
  BY <1>1, <1>3, <1>4, Post
<1>7. \A x \in Pbufs : (Held(x)' <=> Held(x)) /\ ~In(<< >>, x)
  BY <1>1, InNothing DEF Held
<1>8. \A x \in Pbufs : HasOwner(x)' <=> HasOwner(x)
  BY <1>1, <1>4, <1>6, <1>7 DEF HasOwner
<1>9. Exact'
  BY <1>1, <1>8, MovedSInv
<1> QED BY <1>2, <1>5, <1>9 DEF SInv

\* ERR_MEM: the frame is freed.
LEMMA InputFailedSInv ==
    ASSUME OInv, SInv, InputFailed
    PROVE  SInv'
<1>1. /\ UNCHANGED <<fs, ls, own, dmaFrag, rxdataready, pRxStart, q, cur, held, tcpip_mbox>>
      /\ pc = "input" /\ pc' = "read" /\ ref' = pbuf_free(p) /\ p' = << >>
  BY DEF InputFailed, dmaVars, halVars, tcpipVars
<1>2. Single' /\ Short'
  BY <1>1 DEF SInv, Single, Short, Descs
<1>3. \A x \in Pbufs : (Posted(x)' <=> Posted(x)) /\ (Held(x)' <=> Held(x)) /\ ~In(<< >>, x)
  BY <1>1, InNothing DEF Posted, Held
<1>4. \A x \in Pbufs : HasOwner(x)' <=> HasOwner(x) /\ ~In(p, x)
  BY <1>1, <1>3 DEF HasOwner, OInv, OneOwner
<1>5. p \in Seq(Pbufs) /\ Len(p) <= 1 /\ \A x \in Pbufs : In(p, x) => HasOwner(x)
  BY DEF OInv, Shapes, SInv, Short, HasOwner
<1>6. PICK c \in Seq(Pbufs) : c = p
  BY <1>5
<1>7. Exact'
  BY <1>1, <1>4, <1>5, <1>6, FreedSInv
<1> QED BY <1>2, <1>7 DEF SInv

\* The tcpip thread takes the first message.
LEMMA FetchSInv ==
    ASSUME OInv, SInv, TcpipFetch
    PROVE  SInv'
<1>1. /\ UNCHANGED <<fs, ls, own, dmaFrag, rxdataready, pRxStart, p, q, pc, held, ref>>
      /\ cur = << >> /\ tcpip_mbox # << >>
      /\ cur' = Head(tcpip_mbox) /\ tcpip_mbox' = Tail(tcpip_mbox)
  BY DEF TcpipFetch, dmaVars, halVars, pollVars
<1>2. tcpip_mbox \in Seq(Seq(Pbufs) \cup {OOSEQ})
  BY DEF OInv, Shapes
<1>3. /\ cur' = tcpip_mbox[1] /\ 1 \in DOMAIN tcpip_mbox
      /\ \A i \in DOMAIN tcpip_mbox' :
            i + 1 \in DOMAIN tcpip_mbox /\ tcpip_mbox'[i] = tcpip_mbox[i + 1]
      /\ \A i \in DOMAIN tcpip_mbox : i # 1 =>
            i - 1 \in DOMAIN tcpip_mbox' /\ tcpip_mbox'[i - 1] = tcpip_mbox[i]
  BY <1>1, <1>2, TailIs
<1>4. Single'
  BY <1>1 DEF SInv, Single, Descs
<1>5. Short'
  BY <1>1, <1>3 DEF SInv, Short
<1>6. ASSUME NEW x \in Pbufs PROVE HasOwner(x)' <=> HasOwner(x)
  <2>1. Posted(x)' \/ In(cur', x) => Posted(x)
    BY <1>3 DEF Posted
  <2>2. ASSUME Posted(x) PROVE Posted(x)' \/ In(cur', x)
    <3>1. PICK i \in DOMAIN tcpip_mbox : In(tcpip_mbox[i], x)
      BY <2>2 DEF Posted
    <3>2. CASE i = 1
      BY <1>3, <3>1, <3>2
    <3>3. CASE i # 1
      BY <1>3, <3>1, <3>3 DEF Posted
    <3> QED BY <3>2, <3>3
  <2>3. (Held(x)' <=> Held(x)) /\ ~In(cur, x)
    BY <1>1, InNothing DEF Held
  <2> QED BY <1>1, <2>1, <2>2, <2>3 DEF HasOwner
<1>7. Exact'
  BY <1>1, <1>6, MovedSInv
<1> QED BY <1>4, <1>5, <1>7 DEF SInv

\* The tcpip thread frees the frame or leaves it to the application.
LEMMA TcpipInputSInv ==
    ASSUME OInv, SInv, NEW keep \in BOOLEAN, TcpipInput(keep)
    PROVE  SInv'
<1>1. /\ UNCHANGED <<fs, ls, own, dmaFrag, rxdataready, pRxStart, p, q, pc, tcpip_mbox>>
      /\ cur \notin {<< >>, OOSEQ} /\ cur' = << >>
      /\ \/ held' = held \cup {cur} /\ ref' = ref
         \/ held' = held /\ ref' = pbuf_free(cur)
  BY DEF TcpipInput, dmaVars, halVars, pollVars
<1>2. Single' /\ Short'
  BY <1>1 DEF SInv, Single, Short, Descs
<1>3. \A x \in Pbufs : (Posted(x)' <=> Posted(x)) /\ ~In(<< >>, x)
  BY <1>1, InNothing DEF Posted
<1>4. CASE held' = held \cup {cur} /\ ref' = ref
  <2>1. \A x \in Pbufs : Held(x)' <=> Held(x) \/ In(cur, x)
    BY <1>4 DEF Held
  <2>2. \A x \in Pbufs : HasOwner(x)' <=> HasOwner(x)
    BY <1>1, <1>3, <2>1 DEF HasOwner
  <2>3. Exact'
    BY <1>4, <2>2, MovedSInv
  <2> QED BY <1>2, <2>3 DEF SInv
<1>5. CASE held' = held /\ ref' = pbuf_free(cur)
  <2>1. \A x \in Pbufs : Held(x)' <=> Held(x)
    BY <1>5 DEF Held
  <2>2. \A x \in Pbufs : HasOwner(x)' <=> HasOwner(x) /\ ~In(cur, x)
    BY <1>1, <1>3, <2>1 DEF HasOwner, OInv, OneOwner
  <2>3. cur \in Seq(Pbufs) /\ Len(cur) <= 1 /\ \A x \in Pbufs : In(cur, x) => HasOwner(x)
    BY <1>1 DEF OInv, Shapes, SInv, Short, HasOwner
  <2>4. PICK c \in Seq(Pbufs) : c = cur
    BY <2>3
  <2>5. Exact'
    BY <1>5, <2>2, <2>3, <2>4, FreedSInv
  <2> QED BY <1>2, <2>5 DEF SInv
<1> QED BY <1>1, <1>4, <1>5

\* pbuf_free_ooseq(): the pbuf of every segment goes back to the pool.
LEMMA OoseqSInv ==
    ASSUME OInv, SInv, NEW segs \in SUBSET held, TcpipOoseq(segs)
    PROVE  SInv'
<1>1. /\ UNCHANGED <<fs, ls, own, dmaFrag, rxdataready, pRxStart, p, q, pc, tcpip_mbox>>
      /\ cur = OOSEQ /\ cur' = << >> /\ held' = held \ segs /\ ref' = pbuf_free_all(segs)
  BY DEF TcpipOoseq, dmaVars, halVars, pollVars
<1>2. Single' /\ Short'
  BY <1>1 DEF SInv, Single, Short, Descs
<1>3. Shapes /\ \A f \in segs : \A x \in Pbufs : In(f, x) => ref[x] > 0
  BY DEF OInv, Allocated, HasOwner, Held
<1>4. \A x \in Pbufs : (Posted(x)' <=> Posted(x)) /\ ~In(<< >>, x) /\ ~In(cur, x)
  BY <1>1, InNothing DEF Posted
<1>5. ASSUME NEW x \in Pbufs PROVE (HasOwner(x)' => ref'[x] = 1) /\ (~HasOwner(x)' => ref'[x] = 0)
  <2>1. CASE \A f \in segs : ~In(f, x)
    <3>1. ref'[x] = ref[x]
      BY <1>1, <1>3, <2>1, FreeAll
    <3>2. Held(x)' <=> Held(x)
      BY <1>1, <2>1 DEF Held
    <3>3. HasOwner(x)' <=> HasOwner(x)
      BY <1>1, <1>4, <3>2 DEF HasOwner
    <3> QED BY <3>1, <3>3 DEF SInv, Exact
  <2>2. CASE \E f \in segs : In(f, x)
    <3>1. PICK f \in segs : In(f, x)
      BY <2>2
    <3>2. Held(x) /\ HasOwner(x)
      BY <3>1 DEF Held, HasOwner
    <3>3. ~Held(x)'
      BY <1>1, <3>1 DEF Held, OInv, OneOwner
    <3>4. ~HasOwner(x)'
      BY <1>1, <1>4, <3>2, <3>3 DEF HasOwner, OInv, OneOwner
    <3>5. ref[x] = 1
      BY <3>2 DEF SInv, Exact
    <3>6. f[1] = x /\ 1 \in DOMAIN f
      <4>1. f \in Seq(Pbufs) /\ Len(f) <= 1
        BY DEF OInv, Shapes, SInv, Short
      <4> QED BY <3>1, <4>1 DEF In
    <3>7. pbuf_free(f)[x] = 0
      <4>1. \A j \in 1 .. 1 - 1 : ref[f[j]] = 1
        OBVIOUS
      <4> QED BY <3>5, <3>6, <4>1 DEF pbuf_free
    <3>8. ref'[x] = 0
      <4> DEFINE S == {pbuf_free(c)[x] : c \in segs} \cup {ref[x]}
      <4>1. ref'[x] = Min(S)
        BY <1>1 DEF pbuf_free_all
      <4>2. 0 \in S
        BY <3>7
      <4>3. \A s \in S : s \in {0, 1}
        BY <3>5, FreeOthers
      <4>4. Min(S) = 0
        <5> HIDE DEF S
        <5>1. \A y \in S : 0 <= y
          BY <4>3
        <5>2. \A m \in S : (\A y \in S : m <= y) => m = 0
          BY <4>2, <4>3
        <5> QED BY <4>2, <5>1, <5>2 DEF Min
      <4> QED BY <4>1, <4>4
    <3> QED BY <3>4, <3>8
  <2> QED BY <2>1, <2>2
<1>6. Exact'
  BY <1>5 DEF Exact, Pbufs
<1> QED BY <1>2, <1>6 DEF SInv

\* netbuf_delete().
LEMMA AppFreeSInv ==
    ASSUME OInv, SInv, NEW f \in held, AppFree(f)
    PROVE  SInv'
<1>1. /\ UNCHANGED <<fs, ls, own, dmaFrag, rxdataready, pRxStart, p, q, pc, tcpip_mbox, cur>>
      /\ held' = held \ {f} /\ ref' = pbuf_free(f)
  BY DEF AppFree, dmaVars, halVars, pollVars
<1>2. Single' /\ Short'
  BY <1>1 DEF SInv, Single, Short, Descs
<1>3. \A x \in Pbufs : Posted(x)' <=> Posted(x)
  BY <1>1 DEF Posted
<1>4. \A x \in Pbufs : Held(x)' <=> Held(x) /\ ~In(f, x)
  BY <1>1 DEF Held, OInv, OneOwner
<1>5. f \in Seq(Pbufs) /\ Len(f) <= 1 /\ \A x \in Pbufs : In(f, x) => Held(x) /\ HasOwner(x)
  BY DEF OInv, Shapes, SInv, Short, Held, HasOwner
<1>6. \A x \in Pbufs : HasOwner(x)' <=> HasOwner(x) /\ ~In(f, x)
  BY <1>1, <1>3, <1>4, <1>5 DEF HasOwner, OInv, OneOwner
<1>7. PICK c \in Seq(Pbufs) : c = f
  BY <1>5
<1>8. Exact'
  BY <1>1, <1>5, <1>6, <1>7, FreedSInv
<1> QED BY <1>2, <1>8 DEF SInv

\* Every step keeps SInv.
LEMMA NextSInv == MAX_FRAGS = 1 /\ BInv /\ OInv /\ OInv' /\ SInv /\ [Next]_vars => SInv'
<1> SUFFICES ASSUME MAX_FRAGS = 1, BInv, OInv, OInv', SInv, [Next]_vars PROVE SInv'
  OBVIOUS
<1>1. CASE \/ \E last \in BOOLEAN : DmaReceive(last)
           \/ PollWake \/ ReadDesc \/ ReadDone \/ UpdateDesc \/ UpdateDone \/ UNCHANGED vars
  BY <1>1, DescSInv
<1>2. CASE LinkAlloc
  BY <1>2, LinkAllocSInv
<1>3. CASE LinkTake
  BY <1>3, LinkTakeSInv
<1>4. CASE ReadReturn
  BY <1>4, ReadReturnSInv
<1>5. CASE InputOk
  BY <1>5, InputOkSInv
<1>6. CASE InputFailed
  BY <1>6, InputFailedSInv
<1>7. CASE TcpipFetch
  BY <1>7, FetchSInv
<1>8. CASE \E keep \in BOOLEAN : TcpipInput(keep)
  BY <1>8, TcpipInputSInv
<1>9. CASE \E segs \in SUBSET held : TcpipOoseq(segs)
  BY <1>9, OoseqSInv
<1>10. CASE \E f \in held : AppFree(f)
  BY <1>10, AppFreeSInv
<1> QED
  BY <1>1, <1>2, <1>3, <1>4, <1>5, <1>6, <1>7, <1>8, <1>9, <1>10 DEF Next, Poll, Tcpip

\* pbuf_alloc(), pbuf_free(), netif->input(): when a frame fits into one
\* descriptor no pbuf is lost on any path, whatever fails: it is in the pool
\* or somebody will still free it.  (With more fragments pbuf_chain() adds a
\* reference nobody drops; the run eth_rx_leak shows the loss.)
THEOREM NoPbufLeakAlways ==
    ASSUME MAX_FRAGS = 1
    PROVE  Spec => []NoPbufLeak
<1>1. OInv /\ SInv => NoPbufLeak
  <2> SUFFICES ASSUME OInv, SInv, NEW x \in Pbufs, ref[x] > 0
               PROVE  \E f \in Owned \ {OOSEQ} : In(f, x)
    BY DEF NoPbufLeak, In
  <2>1. HasOwner(x)
    BY DEF SInv, Exact
  <2>2. ~In(OOSEQ, x) /\ x # NULL
    BY InNothing
  <2>3. CASE In(pRxStart, x) \/ In(p, x) \/ In(cur, x)
    BY <2>2, <2>3 DEF Owned
  <2>4. CASE q = x
    <3>1. In(<<q>>, x)
      BY <2>4 DEF In
    <3> QED BY <2>2, <3>1 DEF Owned
  <2>5. CASE Posted(x) \/ Held(x)
    BY <2>2, <2>5 DEF Owned, Posted, Held
  <2> QED BY <2>1, <2>3, <2>4, <2>5 DEF HasOwner
<1> QED BY <1>1, InitSInv, NextSInv, InitOInv, NextOInv, BufferInvariance, PTL DEF Spec

-----------------------------------------------------------------------------
(* The ring of descriptors                                                 *)

\* Dist counts the descriptors from RxBuildDescIdx on.
LEMMA DistStep ==
    ASSUME BInv, NEW d \in Descs
    PROVE  /\ Dist(d) \in 0 .. ETH_RX_DESC_CNT - 1 /\ Incr(d) \in Descs
           /\ IF Incr(d) = RxBuildDescIdx THEN Dist(d) = ETH_RX_DESC_CNT - 1
              ELSE Dist(Incr(d)) = Dist(d) + 1
           /\ Dist(RxBuildDescIdx) = 0
           /\ \A e \in Descs : Dist(d) = Dist(e) => d = e
<1>1. Incr(d) = IF d + 1 = ETH_RX_DESC_CNT THEN 0 ELSE d + 1
  BY IncrIs
<1>2. RxBuildDescIdx \in 0 .. ETH_RX_DESC_CNT - 1 /\ d \in 0 .. ETH_RX_DESC_CNT - 1
      /\ ETH_RX_DESC_CNT \in Nat
  BY EthRxAssumption DEF BInv, BufType, Descs
<1> QED BY <1>1, <1>2 DEF Dist, Descs

\* The next descriptor to read is the first one outside the window.
LEMMA ReadIs ==
    ASSUME BInv
    PROVE  /\ RxDescIdx \in Descs
           /\ RxBuildDescCnt < ETH_RX_DESC_CNT => Dist(RxDescIdx) = RxBuildDescCnt
           /\ RxBuildDescCnt = ETH_RX_DESC_CNT => RxDescIdx = RxBuildDescIdx
           /\ RxBuildDescCnt \in 0 .. ETH_RX_DESC_CNT /\ ETH_RX_DESC_CNT \in Nat \ {0}
<1>1. RxDescIdx \in Descs /\ RxBuildDescCnt \in 0 .. ETH_RX_DESC_CNT /\ ETH_RX_DESC_CNT \in Nat \ {0}
  BY EthRxAssumption DEF BInv, BufType
<1>2. Dist(RxDescIdx) \in 0 .. ETH_RX_DESC_CNT - 1
  BY <1>1, DistStep
<1> QED BY <1>1, <1>2 DEF BInv, Window

\* What an unread descriptor holds.
LEMMA ContentIs ==
    ASSUME BInv, ContentType, NEW d \in Descs, Dist(d) >= RxBuildDescCnt
    PROVE  /\ att[d] \in Bufs /\ Content(d) \in (0 .. FRAME_IDS - 1) \X (0 .. MAX_FRAGS)
           /\ \A e \in Descs : att[e] = att[d] => e = d
<1>1. Dist(d) \in Int /\ RxBuildDescCnt \in Int
  BY DistStep DEF BInv, BufType
<1>2. att[d] # NULL
  BY <1>1 DEF BInv, Window
<1> QED BY <1>2 DEF BInv, BufType, Attached, ContentType, Content

\* How many fragments of its frame came before the next one.
LEMMA PassedIs == BInv /\ ContentType /\ Filled => Passed \in 0 .. MAX_FRAGS - 1
<1> SUFFICES ASSUME BInv, ContentType, Filled
             PROVE  Passed \in 0 .. MAX_FRAGS - 1
  OBVIOUS
<1>1. RxDescIdx \in Descs
  BY ReadIs
<1>2. CASE Unread(RxDescIdx)
  <2>1. Content(RxDescIdx)[2] \in 1 .. MAX_FRAGS
    BY <1>1, <1>2 DEF Filled
  <2> QED BY <1>2, <2>1, EthRxAssumption DEF Passed
<1>3. CASE ~Unread(RxDescIdx)
  BY <1>3 DEF Passed, ContentType
<1> QED BY <1>2, <1>3

\* The same after a step.
LEMMA PassedNext == BInv' /\ ContentType' /\ Filled' => Passed' \in Nat
<1> DEFINE Ok == Passed \in Nat
<1>1. BInv /\ ContentType /\ Filled => Ok
  BY PassedIs
<1> HIDE DEF Ok
<1>2. BInv' /\ ContentType' /\ Filled' => Ok'
  BY <1>1, PTL
<1> QED BY <1>2 DEF Ok

-----------------------------------------------------------------------------
(* The content of a frame                                                  *)

\* At first nothing is received.
LEMMA InitCInv == Init => CInv
<1> SUFFICES ASSUME Init PROVE CInv
  OBVIOUS
<1>1. BInv
  BY InitBInv
<1>2. ContentType
  <2>1. 0 \in 0 .. FRAME_IDS - 1 /\ 0 \in 0 .. MAX_FRAGS /\ 0 \in 0 .. MAX_FRAGS - 1
    BY EthRxAssumption
  <2>2. RxBuf \in [Bufs -> (0 .. FRAME_IDS - 1) \X (0 .. MAX_FRAGS)]
    BY <2>1 DEF Init
  <2>3. << >> \in Seq((0 .. FRAME_IDS - 1) \X (0 .. MAX_FRAGS))
    OBVIOUS
  <2> QED BY <2>1, <2>2, <2>3 DEF Init, ContentType
<1>3. /\ \A d \in Descs : own[d] /\ Dist(d) \in Nat
      /\ RxBuildDescCnt = 0 /\ dmaIdx \in Descs /\ dmaIdx = RxBuildDescIdx /\ Dist(RxBuildDescIdx) = 0
  <2>1. dmaIdx \in Descs
    BY EthRxAssumption DEF Init, Descs
  <2>2. \A d \in Descs : Dist(d) \in Nat /\ Dist(RxBuildDescIdx) = 0
    BY <1>1, DistStep
  <2> QED BY <2>1, <2>2 DEF Init
<1>4. Ring
  BY <1>3 DEF Ring
<1>5. Filled
  BY <1>3 DEF Filled, Unread
<1>6. Ordered
  BY DEF Init, Ordered
<1>7. Passed \in 0 .. MAX_FRAGS - 1
  BY <1>1, <1>2, <1>5, PassedIs
<1>8. Len(<< >>) = 0 /\ MAX_FRAGS \in Nat
  BY EthRxAssumption
<1>9. Partial
  BY <1>7, <1>8 DEF Init, Partial
<1> QED BY <1>2, <1>4, <1>5, <1>6, <1>9 DEF CInv

\* Steps that touch neither descriptors nor indices.
LEMMA SameRing ==
    ASSUME CInv, UNCHANGED <<own, att, fs, ls, dmaIdx, dmaFrag, frame, RxBuf,
                             RxDescIdx, RxBuildDescIdx, RxBuildDescCnt>>
    PROVE  /\ Ring' /\ Filled' /\ Passed' = Passed /\ PassedFrame' = PassedFrame
           /\ Unread(RxDescIdx)' <=> Unread(RxDescIdx)
<1>1. Ring'
  BY DEF CInv, Ring, Dist, Descs
<1>2. Filled'
  BY DEF CInv, Filled, Unread, Content, Dist, Incr, Descs
<1>3. Passed' = Passed /\ PassedFrame' = PassedFrame /\ (Unread(RxDescIdx)' <=> Unread(RxDescIdx))
  BY DEF Passed, PassedFrame, Unread, Content, Dist
<1> QED BY <1>1, <1>2, <1>3

\* The DMA fills its next descriptor: it becomes the last unread one.
LEMMA DmaCInv ==
    ASSUME BInv, OInv, CInv, NEW last \in BOOLEAN, DmaReceive(last)
    PROVE  CInv'
<1>0. PICK k \in Descs, r \in Descs : k = dmaIdx /\ r = RxDescIdx
  BY DEF BInv, BufType
<1>1. /\ own[k] /\ (dmaFrag + 1 = MAX_FRAGS => last)
      /\ RxBuf' = [RxBuf EXCEPT ![att[k]] = <<frame, dmaFrag + 1>>]
      /\ fs' = [fs EXCEPT ![k] = (dmaFrag = 0)]
      /\ ls' = [ls EXCEPT ![k] = last]
      /\ own' = [own EXCEPT ![k] = FALSE]
      /\ dmaIdx' = Incr(k)
      /\ dmaFrag' = IF last THEN 0 ELSE dmaFrag + 1
      /\ frame' = IF last THEN (frame + 1) % FRAME_IDS ELSE frame
      /\ UNCHANGED <<att, RxDescIdx, RxBuildDescIdx, RxBuildDescCnt, pRxStart, rxdataready, pc, p, data>>
  BY <1>0 DEF DmaReceive, halVars, pollVars
<1>2. k \in Descs /\ Incr(k) \in Descs /\ RxBuildDescIdx \in Descs /\ Dist(k) >= RxBuildDescCnt
  <2>1. k \in Descs /\ RxBuildDescIdx \in Descs /\ RxBuildDescCnt \in Int
    BY DEF BInv, BufType
  <2>2. Incr(k) \in Descs /\ Dist(k) \in Int
    BY <2>1, DistStep
  <2> QED BY <1>1, <2>1, <2>2 DEF CInv, Ring
<1>3. /\ \A d \in Descs : Dist(d)' = Dist(d)
      /\ \A d \in Descs : Dist(d) \in 0 .. ETH_RX_DESC_CNT - 1 /\ Incr(d) \in Descs
      /\ \A d \in Descs : own'[d] <=> own[d] /\ d # k
      /\ ETH_RX_DESC_CNT \in Nat /\ RxBuildDescCnt \in Nat
  BY <1>1, <1>2, DistStep, ReadIs DEF Dist, BInv, BufType
<1>3a. \A d \in Descs : own[d] <=> Dist(d) >= Dist(k)
  BY <1>0, <1>1 DEF CInv, Ring
<1>4. ContentType'
  <2>1. att[k] \in Bufs
    BY <1>2, ContentIs DEF CInv
  <2>2. frame \in 0 .. FRAME_IDS - 1 /\ FRAME_IDS \in Nat \ {0} /\ dmaFrag + 1 \in 0 .. MAX_FRAGS
    BY EthRxAssumption DEF CInv, ContentType
  <2>3. frame' \in 0 .. FRAME_IDS - 1
    BY <1>1, <2>2
  <2>4. dmaFrag' \in 0 .. MAX_FRAGS - 1
    BY <1>1, <2>2, EthRxAssumption DEF CInv, ContentType
  <2>5. RxBuf' \in [Bufs -> (0 .. FRAME_IDS - 1) \X (0 .. MAX_FRAGS)]
    BY <1>1, <2>1, <2>2 DEF CInv, ContentType
  <2>6. fs' \in [Descs -> BOOLEAN] /\ ls' \in [Descs -> BOOLEAN]
    BY <1>1 DEF CInv, ContentType
  <2> QED BY <1>1, <2>3, <2>4, <2>5, <2>6 DEF CInv, ContentType, Bufs, Descs
<1>5. Ring'
  <2>1. \A d \in Descs : Dist(d) < RxBuildDescCnt => ~own'[d]
    BY <1>3 DEF CInv, Ring
  <2>2. CASE Incr(k) = RxBuildDescIdx
    <3>1. Dist(k) = ETH_RX_DESC_CNT - 1
      BY <1>2, <2>2, DistStep
    <3>2. \A d \in Descs : ~own'[d]
      <4>1. \A d \in Descs : own[d] => Dist(d) = Dist(k)
        BY <1>2, <1>3, <1>3a, <3>1
      <4> QED BY <1>2, <1>3, <4>1, DistStep
    <3> QED BY <1>1, <1>2, <1>3, <2>2, <3>2 DEF Ring, Descs
  <2>3. CASE Incr(k) # RxBuildDescIdx
    <3>1. Dist(Incr(k)) = Dist(k) + 1
      BY <1>2, <2>3, DistStep
    <3>2. \A d \in Descs : own'[d] <=> Dist(d) >= Dist(Incr(k))
      <4>1. \A d \in Descs : d # k => Dist(d) # Dist(k)
        BY <1>2, DistStep
      <4> QED BY <1>2, <1>3, <1>3a, <3>1, <4>1
    <3>3. own'[Incr(k)]
      BY <1>2, <1>3, <3>2
    <3> QED BY <1>1, <1>2, <1>3, <2>1, <3>2, <3>3 DEF Ring, Descs
  <2> QED BY <2>2, <2>3
<1>6. /\ Content(k)' = <<frame, dmaFrag + 1>> /\ Unread(k)' /\ ~Unread(k)
      /\ \A d \in Descs : d # k => (Unread(d)' <=> Unread(d))
      /\ \A d \in Descs : d # k /\ Dist(d) >= RxBuildDescCnt => Content(d)' = Content(d)
  <2>1. att[k] \in Bufs /\ \A e \in Descs : att[e] = att[k] => e = k
    BY <1>2, ContentIs DEF CInv
  <2>2. Content(k)' = <<frame, dmaFrag + 1>>
    BY <1>1, <2>1 DEF Content, CInv, ContentType
  <2>3. \A d \in Descs : d # k /\ Dist(d) >= RxBuildDescCnt => Content(d)' = Content(d)
    <3> SUFFICES ASSUME NEW d \in Descs, d # k, Dist(d) >= RxBuildDescCnt PROVE Content(d)' = Content(d)
      OBVIOUS
    <3>1. att[d] \in Bufs /\ att[d] # att[k]
      BY <2>1, ContentIs DEF CInv
    <3> QED BY <1>1, <2>1, <3>1 DEF Content, CInv, ContentType
  <2> QED BY <1>1, <1>2, <1>3, <2>2, <2>3 DEF Unread
<1>7. ASSUME NEW d \in Descs, Unread(d)
      PROVE  /\ d # k /\ Incr(d) # RxBuildDescIdx /\ Dist(Incr(d)) = Dist(d) + 1
             /\ Incr(d) # k => Unread(Incr(d))
  <2>1. Dist(d) < Dist(k) /\ d # k
    BY <1>2, <1>3, <1>3a, <1>7 DEF Unread
  <2>2. Incr(d) # RxBuildDescIdx /\ Dist(Incr(d)) = Dist(d) + 1
    BY <1>2, <1>3, <2>1, DistStep
  <2>3. ASSUME Incr(d) # k PROVE Unread(Incr(d))
    <3>1. Dist(Incr(d)) # Dist(k)
      BY <1>2, <1>3, <2>3, DistStep
    <3>2. ~own[Incr(d)]
      BY <1>2, <1>3, <1>3a, <2>1, <2>2, <3>1
    <3> QED BY <1>3, <1>7, <2>2, <3>2 DEF Unread
  <2> QED BY <2>1, <2>2, <2>3
<1>8. Filled'
  <2> SUFFICES ASSUME NEW d \in Descs, Unread(d)'
        PROVE  /\ Content(d)'[2] \in 1 .. MAX_FRAGS
               /\ fs'[d] <=> Content(d)'[2] = 1
               /\ Content(d)'[2] = MAX_FRAGS => ls'[d]
               /\ Incr(d) # RxBuildDescIdx /\ Unread(Incr(d))' =>
                     IF ls'[d] THEN Content(Incr(d))'[2] = 1
                     ELSE Content(Incr(d))' = <<Content(d)'[1], Content(d)'[2] + 1>>
               /\ ~(Incr(d) # RxBuildDescIdx /\ Unread(Incr(d))') =>
                     IF ls'[d] THEN dmaFrag' = 0
                     ELSE dmaFrag' = Content(d)'[2] /\ frame' = Content(d)'[1]
    BY <1>1 DEF Filled, Descs, Incr
  <2>1. CASE d = k
    <3>1. Content(d)'[2] = dmaFrag + 1 /\ Content(d)'[1] = frame
      BY <1>6, <2>1
    <3>2. dmaFrag \in 0 .. MAX_FRAGS - 1 /\ MAX_FRAGS \in Nat
      BY EthRxAssumption DEF CInv, ContentType
    <3>3. fs'[d] = (dmaFrag = 0) /\ ls'[d] = last
      BY <1>1, <1>2, <2>1 DEF CInv, ContentType
    <3>4. ~(Incr(d) # RxBuildDescIdx /\ Unread(Incr(d))')
      <4> SUFFICES ASSUME Incr(d) # RxBuildDescIdx PROVE ~Unread(Incr(d))'
        OBVIOUS
      <4>1. Dist(Incr(d)) = Dist(d) + 1
        BY <2>1, DistStep
      <4>2. own[Incr(d)] /\ Incr(d) # k
        BY <1>2, <1>3, <1>3a, <2>1, <4>1
      <4> QED BY <1>2, <1>3, <4>2, <2>1 DEF Unread
    <3>5. IF ls'[d] THEN dmaFrag' = 0 ELSE dmaFrag' = Content(d)'[2] /\ frame' = Content(d)'[1]
      BY <1>1, <3>1, <3>3
    <3>6. Content(d)'[2] \in 1 .. MAX_FRAGS /\ (Content(d)'[2] = 1 <=> dmaFrag = 0)
          /\ (Content(d)'[2] = MAX_FRAGS <=> dmaFrag + 1 = MAX_FRAGS)
      BY <3>1, <3>2
    <3>7. (fs'[d] <=> Content(d)'[2] = 1) /\ (Content(d)'[2] = MAX_FRAGS => ls'[d])
      BY <1>1, <3>3, <3>6
    <3> QED BY <3>4, <3>5, <3>6, <3>7
  <2>2. CASE d # k
    <3>1. Unread(d)
      BY <1>6, <2>2
    <3>2. Dist(d) >= RxBuildDescCnt
      BY <3>1 DEF Unread
    <3>3. Content(d)' = Content(d) /\ fs'[d] = fs[d] /\ ls'[d] = ls[d]
      BY <1>1, <1>6, <2>2, <3>2 DEF CInv, ContentType
    <3>4. Incr(d) # RxBuildDescIdx /\ Dist(Incr(d)) = Dist(d) + 1 /\ Incr(d) \in Descs
      BY <1>3, <1>7, <3>1
    <3>5. CASE Incr(d) = k
      <4>1. IF ls[d] THEN dmaFrag = 0 ELSE dmaFrag = Content(d)[2] /\ frame = Content(d)[1]
        BY <1>6, <3>1, <3>5 DEF CInv, Filled
      <4>2. Content(Incr(d))' = <<frame, dmaFrag + 1>> /\ Unread(Incr(d))'
        BY <1>6, <3>5
      <4> QED BY <3>1, <3>3, <3>4, <4>1, <4>2 DEF CInv, Filled
    <3>6. CASE Incr(d) # k
      <4>1. Unread(Incr(d))
        BY <1>7, <3>1, <3>6
      <4>2. Content(Incr(d))' = Content(Incr(d)) /\ Unread(Incr(d))'
        BY <1>6, <3>4, <3>6, <4>1 DEF Unread
      <4> QED BY <3>1, <3>3, <3>4, <4>1, <4>2 DEF CInv, Filled
    <3> QED BY <3>5, <3>6
  <2> QED BY <2>1, <2>2
<1>9. Passed' = Passed /\ PassedFrame' = PassedFrame /\ (Unread(r) => Unread(r)' /\ r # k)
  <2>1. r \in Descs /\ r = RxDescIdx /\ RxDescIdx' = r
    BY <1>0, <1>1
  <2>2. CASE r = k
    <3>1. Unread(RxDescIdx)' /\ Content(RxDescIdx)' = <<frame, dmaFrag + 1>> /\ ~Unread(RxDescIdx)
      BY <1>1, <1>6, <2>1, <2>2 DEF Unread, Content, Dist
    <3>2. dmaFrag \in Int
      BY DEF CInv, ContentType
    <3>3. Content(RxDescIdx)'[2] - 1 = dmaFrag /\ Content(RxDescIdx)'[1] = frame
      BY <3>1, <3>2
    <3>4. Passed' = Content(RxDescIdx)'[2] - 1 /\ PassedFrame' = Content(RxDescIdx)'[1]
      BY <3>1 DEF Passed, PassedFrame
    <3>5. Passed = dmaFrag /\ PassedFrame = frame
      BY <3>1 DEF Passed, PassedFrame
    <3> QED BY <2>1, <2>2, <3>1, <3>3, <3>4, <3>5
  <2>3. CASE r # k
    <3>1. Unread(r)
      <4>1. RxBuildDescCnt < ETH_RX_DESC_CNT
        BY <1>2, <1>3, ReadIs
      <4>2. Dist(r) = RxBuildDescCnt /\ Dist(r) # Dist(k)
        BY <1>2, <2>1, <2>3, <4>1, ReadIs, DistStep
      <4>3. ~own[r]
        BY <1>2, <1>3, <1>3a, <2>1, <4>2
      <4> QED BY <1>3, <2>1, <4>2, <4>3 DEF Unread
    <3>2. Unread(r)' /\ Content(r)' = Content(r)
      BY <1>6, <2>1, <2>3, <3>1 DEF Unread
    <3>3. Unread(RxDescIdx)' /\ Content(RxDescIdx)' = Content(RxDescIdx)
      BY <1>1, <2>1, <3>2 DEF Unread, Content, Dist
    <3> QED BY <2>1, <2>3, <3>1, <3>3 DEF Passed, PassedFrame
  <2> QED BY <2>2, <2>3
<1>10. Ordered'
  BY <1>1 DEF CInv, Ordered
<1>11. Partial'
  <2>1. pc \in {"link", "take"} => ls'[RxDescIdx] = ls[RxDescIdx] /\ fs'[RxDescIdx] = fs[RxDescIdx]
    <3>1. pc \in {"link", "take"} => r # k
      BY <1>0, <1>9 DEF CInv, Partial
    <3> QED BY <1>0, <1>1, <3>1 DEF CInv, ContentType, Partial
  <2>2. Unread(RxDescIdx) => Unread(RxDescIdx)'
    BY <1>0, <1>1, <1>9 DEF Unread, Dist
  <2> QED BY <1>1, <1>9, <2>1, <2>2 DEF CInv, Partial
<1> QED BY <1>4, <1>5, <1>8, <1>10, <1>11 DEF CInv

\* ReadData goes on to the next descriptor: the one it leaves joins the
\* window.  Nothing of the next frame was read if that was its last fragment.
LEMMA AdvanceRing ==
    ASSUME BInv, CInv, Unread(RxDescIdx), RxBuildDescCnt < ETH_RX_DESC_CNT,
           RxDescIdx' = Incr(RxDescIdx), RxBuildDescCnt' = RxBuildDescCnt + 1,
           att' = att \/ att' = [att EXCEPT ![RxDescIdx] = NULL],
           UNCHANGED <<own, fs, ls, dmaIdx, dmaFrag, frame, RxBuf, RxBuildDescIdx>>
    PROVE  /\ Ring' /\ Filled'
           /\ IF ls[RxDescIdx] THEN Passed' = 0
              ELSE Passed' = Content(RxDescIdx)[2] /\ PassedFrame' = Content(RxDescIdx)[1]
<1>0. PICK r \in Descs : r = RxDescIdx
  BY ReadIs
<1>1. /\ Unread(r) /\ Dist(r) = RxBuildDescCnt /\ Incr(r) \in Descs
      /\ RxBuildDescCnt \in Nat /\ ETH_RX_DESC_CNT \in Nat /\ ~own[r]
  BY <1>0, ReadIs, DistStep DEF Unread
<1>2. \A d \in Descs : Dist(d)' = Dist(d) /\ Dist(d) \in 0 .. ETH_RX_DESC_CNT - 1 /\ Incr(d) \in Descs
  BY DistStep DEF Dist
<1>3. \A d \in Descs : d # r => Dist(d) # Dist(r)
  BY DistStep
<1>4. \A d \in Descs : Unread(d)' <=> Unread(d) /\ d # r
  BY <1>1, <1>2, <1>3 DEF Unread
<1>5. \A d \in Descs : d # r => Content(d)' = Content(d)
  BY <1>0 DEF Content, BInv, BufType
<1>6. Ring'
  <2>1. \A d \in Descs : Dist(d) < RxBuildDescCnt + 1 => ~own[d]
    BY <1>1, <1>2, <1>3 DEF CInv, Ring
  <2>2. dmaIdx \in Descs
    BY DEF BInv, BufType
  <2> QED BY <1>2, <2>1, <2>2 DEF CInv, Ring, Descs
<1>7. ASSUME NEW d \in Descs, Incr(d) # RxBuildDescIdx, Unread(d), d # r PROVE Incr(d) # r
  BY <1>1, <1>2, <1>7, DistStep DEF Unread
<1>8. Filled'
  <2> SUFFICES ASSUME NEW d \in Descs, Unread(d)'
        PROVE  /\ Content(d)'[2] \in 1 .. MAX_FRAGS
               /\ fs[d] <=> Content(d)'[2] = 1
               /\ Content(d)'[2] = MAX_FRAGS => ls[d]
               /\ Incr(d) # RxBuildDescIdx /\ Unread(Incr(d))' =>
                     IF ls[d] THEN Content(Incr(d))'[2] = 1
                     ELSE Content(Incr(d))' = <<Content(d)'[1], Content(d)'[2] + 1>>
               /\ ~(Incr(d) # RxBuildDescIdx /\ Unread(Incr(d))') =>
                     IF ls[d] THEN dmaFrag = 0
                     ELSE dmaFrag = Content(d)'[2] /\ frame = Content(d)'[1]
    BY DEF Filled, Descs, Incr
  <2>1. Unread(d) /\ d # r /\ Content(d)' = Content(d) /\ Incr(d) \in Descs
    BY <1>2, <1>4, <1>5
  <2>2. CASE Incr(d) # RxBuildDescIdx
    <3>1. Incr(d) # r
      BY <1>7, <2>1, <2>2
    <3>2. (Unread(Incr(d))' <=> Unread(Incr(d))) /\ Content(Incr(d))' = Content(Incr(d))
      BY <1>4, <1>5, <2>1, <3>1
    <3> QED BY <2>1, <2>2, <3>2 DEF CInv, Filled
  <2>3. CASE Incr(d) = RxBuildDescIdx
    BY <2>1, <2>3 DEF CInv, Filled
  <2> QED BY <2>2, <2>3
<1>9. IF ls[r] THEN Passed' = 0 ELSE Passed' = Content(r)[2] /\ PassedFrame' = Content(r)[1]
  <2>1. Content(r) \in (0 .. FRAME_IDS - 1) \X (0 .. MAX_FRAGS)
    BY <1>1, ContentIs DEF CInv, Unread
  <2>2. PICK e \in Descs : e = Incr(r)
    BY <1>1
  <2>3. (Unread(RxDescIdx)' <=> Unread(e)') /\ Content(RxDescIdx)' = Content(e)'
    BY <1>0, <2>2 DEF Unread, Content, Dist
  <2>4. CASE Unread(e)'
    <3>1. Unread(e) /\ e # r /\ Content(e)' = Content(e)
      BY <1>4, <1>5, <2>4
    <3>2. e # RxBuildDescIdx
      <4>1. Dist(RxBuildDescIdx) = 0
        BY <1>0, DistStep
      <4> QED BY <1>1, <1>2, <2>4, <4>1 DEF Unread
    <3>3. IF ls[r] THEN Content(e)[2] = 1 ELSE Content(e) = <<Content(r)[1], Content(r)[2] + 1>>
      BY <1>1, <2>2, <3>1, <3>2 DEF CInv, Filled
    <3>4. Passed' = Content(e)[2] - 1 /\ PassedFrame' = Content(e)[1]
      BY <2>3, <2>4, <3>1 DEF Passed, PassedFrame
    <3>5. CASE ls[r]
      BY <3>3, <3>4, <3>5
    <3>6. CASE ~ls[r]
      <4>1. Content(e)[1] = Content(r)[1] /\ Content(e)[2] = Content(r)[2] + 1 /\ Content(r)[2] \in Int
        BY <2>1, <3>3, <3>6
      <4> QED BY <3>4, <3>6, <4>1
    <3> QED BY <3>5, <3>6
  <2>5. CASE ~Unread(e)'
    <3>1. ~(Incr(r) # RxBuildDescIdx /\ Unread(Incr(r)))
      <4> SUFFICES ASSUME Incr(r) # RxBuildDescIdx, Unread(Incr(r)) PROVE FALSE
        OBVIOUS
      <4>1. Incr(r) # r
        BY <1>1, <1>2, DistStep
      <4> QED BY <1>4, <2>2, <2>5, <4>1
    <3>2. IF ls[r] THEN dmaFrag = 0 ELSE dmaFrag = Content(r)[2] /\ frame = Content(r)[1]
      BY <1>1, <3>1 DEF CInv, Filled
    <3>3. Passed' = dmaFrag /\ PassedFrame' = frame
      BY <2>3, <2>5 DEF Passed, PassedFrame
    <3> QED BY <3>2, <3>3
  <2> QED BY <2>4, <2>5
<1> QED BY <1>0, <1>6, <1>8, <1>9

\* UpdateDescriptor gives the first descriptor of the window to the DMA: the
\* unread ones stay as they are.
LEMMA UpdateCInv ==
    ASSUME BInv, BInv', OInv, CInv, UpdateDesc
    PROVE  CInv'
<1> DEFINE b == IF att[RxBuildDescIdx] = NULL THEN RxAllocate ELSE att[RxBuildDescIdx]
<1>1. /\ pc = "update" /\ RxBuildDescCnt > 0
      /\ UNCHANGED <<fs, ls, dmaIdx, dmaFrag, frame, RxBuf, RxDescIdx, pRxStart, rxdataready, p, data>>
      /\ \/ pc' = "return" /\ UNCHANGED <<att, own, RxBuildDescIdx, RxBuildDescCnt>>
         \/ /\ att' = [att EXCEPT ![RxBuildDescIdx] = b]
            /\ own' = [own EXCEPT ![RxBuildDescIdx] = TRUE]
            /\ RxBuildDescIdx' = Incr(RxBuildDescIdx)
            /\ RxBuildDescCnt' = RxBuildDescCnt - 1
            /\ pc' = pc
  BY DEF UpdateDesc
<1>2. ContentType' /\ Ordered'
  BY <1>1 DEF CInv, ContentType, Ordered, Bufs, Descs
<1>3. Ring' /\ Filled' /\ Passed' = Passed /\ PassedFrame' = PassedFrame
  <2>1. CASE UNCHANGED <<att, own, RxBuildDescIdx, RxBuildDescCnt>>
    BY <1>1, <2>1, SameRing
  <2>2. CASE /\ att' = [att EXCEPT ![RxBuildDescIdx] = b]
             /\ own' = [own EXCEPT ![RxBuildDescIdx] = TRUE]
             /\ RxBuildDescIdx' = Incr(RxBuildDescIdx)
             /\ RxBuildDescCnt' = RxBuildDescCnt - 1
             /\ pc' = pc
    <3> HIDE DEF b
    <3>0. PICK w \in Descs : w = RxBuildDescIdx
      BY DEF BInv, BufType
    <3>1. /\ RxBuildDescCnt \in Nat /\ ETH_RX_DESC_CNT \in Nat \ {0} /\ Dist(w) = 0
          /\ RxBuildDescCnt <= ETH_RX_DESC_CNT
          /\ dmaIdx \in Descs /\ RxDescIdx \in Descs
          /\ \A d \in Descs : Dist(d) \in 0 .. ETH_RX_DESC_CNT - 1 /\ Incr(d) \in Descs
      BY <3>0, ReadIs, DistStep DEF BInv, BufType
    <3>2. \A d \in Descs : Dist(d)' = IF d = w THEN ETH_RX_DESC_CNT - 1 ELSE Dist(d) - 1
      <4>1. RxBuildDescIdx' = IF w + 1 = ETH_RX_DESC_CNT THEN 0 ELSE w + 1
        BY <2>2, <3>0, IncrIs
      <4> QED BY <3>0, <4>1, EthRxAssumption DEF Dist, Descs
    <3>3. \A d \in Descs : d # w => Dist(d) # 0
      BY <3>0, <3>1, DistStep
    <3>4. /\ ~own[w] /\ own'[w] /\ \A d \in Descs : d # w => own'[d] = own[d] /\ att'[d] = att[d]
      BY <1>1, <2>2, <3>0, <3>1 DEF BInv, BufType, CInv, Ring
    <3>5. \A d \in Descs : Unread(d)' <=> Unread(d)
      <4>1. ~Unread(w) /\ ~Unread(w)'
        BY <1>1, <3>1, <3>4 DEF Unread
      <4>2. \A d \in Descs : d # w => (Unread(d)' <=> Unread(d))
        BY <2>2, <3>1, <3>2, <3>4 DEF Unread
      <4> QED BY <4>1, <4>2
    <3>6. \A d \in Descs : Unread(d) => d # w /\ Content(d)' = Content(d)
      <4>1. ~Unread(w)
        BY <1>1, <3>1 DEF Unread
      <4> QED BY <1>1, <3>4, <4>1 DEF Content
    <3>7. Ring'
      <4>1. \A d \in Descs : Dist(d)' < RxBuildDescCnt' => ~own'[d]
        <5>1. \A d \in Descs : d # w /\ Dist(d) < RxBuildDescCnt => ~own'[d]
          BY <3>4 DEF CInv, Ring
        <5> QED BY <2>2, <3>1, <3>2, <5>1
      <4>2. CASE own[dmaIdx]
        <5>1. dmaIdx # w /\ own'[dmaIdx]
          BY <3>1, <3>4, <4>2
        <5>2. \A d \in Descs : own'[d] <=> Dist(d)' >= Dist(dmaIdx) - 1
          <6>1. \A d \in Descs : d # w => (own'[d] <=> Dist(d) >= Dist(dmaIdx))
            BY <3>4, <4>2 DEF CInv, Ring
          <6> QED BY <3>1, <3>2, <3>4, <6>1
        <5>3. Dist(dmaIdx)' = Dist(dmaIdx) - 1
          <6>1. PICK k \in Descs : k = dmaIdx /\ dmaIdx' = k
            BY <1>1, <3>1
          <6>2. Dist(k)' = Dist(k) - 1
            BY <3>2, <5>1, <6>1
          <6> QED BY <6>1, <6>2 DEF Dist
        <5> QED BY <1>1, <4>1, <5>1, <5>2, <5>3 DEF Ring, Descs
      <4>3. CASE ~own[dmaIdx]
        <5>1. dmaIdx = w /\ \A d \in Descs : ~own[d]
          BY <3>0, <4>3 DEF CInv, Ring
        <5>2. \A d \in Descs : own'[d] <=> d = w
          BY <3>4, <5>1
        <5>3. \A d \in Descs : Dist(d)' >= ETH_RX_DESC_CNT - 1 <=> d = w
          BY <3>1, <3>2
        <5>4. Dist(dmaIdx)' = ETH_RX_DESC_CNT - 1
          <6>1. Dist(w)' = ETH_RX_DESC_CNT - 1 /\ dmaIdx' = w
            BY <1>1, <3>2, <5>1
          <6> QED BY <6>1 DEF Dist
        <5>5. own'[dmaIdx']
          BY <1>1, <5>1, <5>2
        <5> QED BY <4>1, <5>2, <5>3, <5>4, <5>5 DEF Ring, Descs
      <4> QED BY <4>2, <4>3
    <3>8. Filled'
      <4> SUFFICES ASSUME NEW d \in Descs, Unread(d)'
            PROVE  /\ Content(d)'[2] \in 1 .. MAX_FRAGS
                   /\ fs[d] <=> Content(d)'[2] = 1
                   /\ Content(d)'[2] = MAX_FRAGS => ls[d]
                   /\ Incr(d) # RxBuildDescIdx' /\ Unread(Incr(d))' =>
                         IF ls[d] THEN Content(Incr(d))'[2] = 1
                         ELSE Content(Incr(d))' = <<Content(d)'[1], Content(d)'[2] + 1>>
                   /\ ~(Incr(d) # RxBuildDescIdx' /\ Unread(Incr(d))') =>
                         IF ls[d] THEN dmaFrag = 0
                         ELSE dmaFrag = Content(d)'[2] /\ frame = Content(d)'[1]
        BY <1>1 DEF Filled, Descs, Incr
      <4>1. Unread(d) /\ d # w /\ Content(d)' = Content(d) /\ Incr(d) \in Descs
        BY <3>1, <3>5, <3>6
      <4>2. Incr(d) # RxBuildDescIdx'
        BY <2>2, <3>0, <4>1, IncrIs, EthRxAssumption DEF Descs
      <4>3. CASE Incr(d) # w
        <5>1. (Unread(Incr(d))' <=> Unread(Incr(d)))
              /\ (Unread(Incr(d)) => Content(Incr(d))' = Content(Incr(d)))
          BY <3>5, <3>6, <4>1
        <5> QED BY <3>0, <4>1, <4>2, <4>3, <5>1 DEF CInv, Filled
      <4>4. CASE Incr(d) = w
        <5>1. ~Unread(Incr(d))'
          BY <3>5, <3>6, <4>4
        <5> QED BY <3>0, <4>1, <4>4, <5>1 DEF CInv, Filled
      <4> QED BY <4>3, <4>4
    <3>9. Passed' = Passed /\ PassedFrame' = PassedFrame
      <4>1. PICK r \in Descs : r = RxDescIdx /\ RxDescIdx' = r
        BY <1>1, <3>1
      <4>2. (Unread(r)' <=> Unread(r)) /\ (Unread(r) => Content(r)' = Content(r))
        BY <3>5, <3>6
      <4>3. (Unread(RxDescIdx)' <=> Unread(RxDescIdx))
            /\ (Unread(RxDescIdx) => Content(RxDescIdx)' = Content(RxDescIdx))
        BY <4>1, <4>2 DEF Unread, Content, Dist
      <4> QED BY <1>1, <4>3 DEF Passed, PassedFrame
    <3> QED BY <3>7, <3>8, <3>9
  <2> QED BY <1>1, <2>1, <2>2
<1>4. Partial'
  BY <1>1, <1>3 DEF CInv, Partial
<1> QED BY <1>2, <1>3, <1>4 DEF CInv

\* ReadData looks at the next descriptor: it belongs to the frame being
\* assembled, or starts one, or is skipped.
LEMMA ReadDescCInv ==
    ASSUME BInv, OInv, CInv, ReadDesc
    PROVE  CInv'
<1>1. /\ pc = "read" /\ ~own[RxDescIdx] /\ RxBuildDescCnt < ETH_RX_DESC_CNT /\ rxdataready = FALSE
      /\ UNCHANGED <<own, att, fs, ls, dmaIdx, dmaFrag, frame, RxBuf, RxBuildDescIdx, pRxStart, p, data>>
      /\ \/ /\ fs[RxDescIdx] \/ pRxStart # << >>
            /\ pc' = "link" /\ rxdataready' = ls[RxDescIdx]
            /\ UNCHANGED <<RxDescIdx, RxBuildDescCnt>>
         \/ /\ ~fs[RxDescIdx] /\ pRxStart = << >>
            /\ RxDescIdx' = Incr(RxDescIdx) /\ RxBuildDescCnt' = RxBuildDescCnt + 1
            /\ UNCHANGED <<pc, rxdataready>>
  <2>1. rxdataready \in BOOLEAN /\ RxBuildDescCnt \in 0 .. ETH_RX_DESC_CNT
    BY DEF CInv, ContentType, BInv, BufType
  <2> QED BY <2>1 DEF ReadDesc, dmaVars
<1>2. Unread(RxDescIdx) /\ RxDescIdx \in Descs
  <2>1. Dist(RxDescIdx) = RxBuildDescCnt /\ RxBuildDescCnt \in Int /\ RxDescIdx \in Descs
    BY <1>1, ReadIs
  <2> QED BY <1>1, <2>1 DEF Unread
<1>3. rxdataready' \in BOOLEAN
  BY <1>1, <1>2 DEF CInv, ContentType
<1>4. ContentType' /\ Ordered'
  BY <1>1, <1>3 DEF CInv, ContentType, Ordered, Bufs, Descs
<1>5. pRxStart \in Seq(Pbufs) /\ Len(data) = Len(pRxStart) /\ p = << >>
      /\ data \in Seq((0 .. FRAME_IDS - 1) \X (0 .. MAX_FRAGS))
  BY <1>1 DEF OInv, Shapes, CInv, Partial, ContentType
<1>6. data = << >> <=> pRxStart = << >>
  BY <1>5
<1>7. CASE pc' = "link" /\ rxdataready' = ls[RxDescIdx] /\ UNCHANGED <<RxDescIdx, RxBuildDescCnt>>
  <2>1. /\ Ring' /\ Filled' /\ Passed' = Passed /\ PassedFrame' = PassedFrame /\ Unread(RxDescIdx)'
    BY <1>1, <1>2, <1>7, SameRing
  <2>2. data = << >> => fs[RxDescIdx]
    BY <1>1, <1>6, <1>7
  <2>3. Partial'
    BY <1>1, <1>7, <2>1, <2>2 DEF CInv, Partial
  <2> QED BY <1>4, <2>1, <2>3 DEF CInv
<1>8. CASE /\ ~fs[RxDescIdx] /\ pRxStart = << >>
           /\ RxDescIdx' = Incr(RxDescIdx) /\ RxBuildDescCnt' = RxBuildDescCnt + 1
           /\ UNCHANGED <<pc, rxdataready>>
  <2>1. Ring' /\ Filled'
    BY <1>1, <1>2, <1>8, AdvanceRing
  <2>2. BInv'
    BY ReadDescBInv
  <2>3. Passed' \in Nat
    BY <1>4, <2>1, <2>2, PassedNext
  <2>4. data' = << >> /\ Len(<< >>) = 0 /\ MAX_FRAGS \in Nat
    BY <1>1, <1>6, <1>8, EthRxAssumption
  <2>5. Partial'
    BY <1>1, <1>5, <1>8, <2>3, <2>4 DEF Partial
  <2> QED BY <1>4, <2>1, <2>5 DEF CInv
<1> QED BY <1>1, <1>7, <1>8

\* RxLinkCallback appends the fragment, or loses it for want of a pbuf.
LEMMA LinkTakeCInv ==
    ASSUME BInv, OInv, CInv, LinkTake
    PROVE  CInv'
<1> DEFINE Frag == (0 .. FRAME_IDS - 1) \X (0 .. MAX_FRAGS)
<1>1. /\ pc = "take" /\ pc' = "read"
      /\ \/ UNCHANGED <<data, pRxStart>>
         \/ /\ q # NULL /\ data' = Append(data, RxBuf[buff])
            /\ pRxStart' = Append(pRxStart, q)
      /\ att' = [att EXCEPT ![RxDescIdx] = NULL]
      /\ RxDescIdx' = Incr(RxDescIdx) /\ RxBuildDescCnt' = RxBuildDescCnt + 1
      /\ UNCHANGED <<own, fs, ls, dmaIdx, dmaFrag, frame, RxBuf, RxBuildDescIdx, rxdataready, p>>
  BY DEF LinkTake
<1>2. /\ Unread(RxDescIdx) /\ rxdataready = ls[RxDescIdx] /\ (data = << >> => fs[RxDescIdx])
      /\ RxBuildDescCnt < ETH_RX_DESC_CNT /\ RxDescIdx \in Descs /\ buff = att[RxDescIdx]
      /\ Len(data) = Len(pRxStart) /\ p = << >> /\ Len(data) <= Passed
      /\ data # << >> => data[1][1] = PassedFrame /\ data[Len(data)][2] <= Passed
  BY <1>1, ReadIs DEF CInv, Partial, BInv, Linking
<1>3. PICK c \in Frag : /\ c = Content(RxDescIdx) /\ c = RxBuf[buff]
                        /\ c[2] \in 1 .. MAX_FRAGS /\ c[1] \in Int /\ (fs[RxDescIdx] <=> c[2] = 1)
  <2>1. Content(RxDescIdx) \in Frag /\ Content(RxDescIdx) = RxBuf[buff]
    BY <1>2, ContentIs DEF CInv, Unread, Content
  <2>2. Content(RxDescIdx)[2] \in 1 .. MAX_FRAGS /\ (fs[RxDescIdx] <=> Content(RxDescIdx)[2] = 1)
    BY <1>2 DEF CInv, Filled
  <2> QED BY <2>1, <2>2
<1>4. Passed = c[2] - 1 /\ PassedFrame = c[1] /\ MAX_FRAGS \in Nat
  BY <1>2, <1>3, EthRxAssumption DEF Passed, PassedFrame
<1>5. /\ Ring' /\ Filled'
      /\ IF rxdataready THEN Passed' = 0 ELSE Passed' = c[2] /\ PassedFrame' = c[1]
  BY <1>1, <1>2, <1>3, AdvanceRing
<1>6. data \in Seq(Frag) /\ pRxStart \in Seq(Pbufs) /\ rxdataready \in BOOLEAN
  BY DEF OInv, Shapes, CInv, ContentType
<1>7. CASE UNCHANGED <<data, pRxStart>>
  <2>1. ContentType' /\ Ordered'
    BY <1>1, <1>7 DEF CInv, ContentType, Ordered, Bufs, Descs
  <2>2. Len(data) \in Nat /\ (data # << >> => data[Len(data)][2] \in Int)
    <3>1. Len(data) \in Nat /\ (data # << >> => data[Len(data)] \in Frag)
      BY <1>6
    <3> QED BY <3>1
  <2>3. rxdataready = FALSE => /\ Len(data) <= Passed'
                               /\ data # << >> => data[1][1] = PassedFrame' /\ data[Len(data)][2] <= Passed'
    BY <1>2, <1>3, <1>4, <1>5, <2>2
  <2>4. Len(data) <= MAX_FRAGS
    BY <1>2, <1>3, <1>4, <2>2
  <2>5. rxdataready = TRUE => Passed' = 0
    BY <1>5
  <2>6. Partial'
    BY <1>1, <1>2, <1>6, <1>7, <2>3, <2>4, <2>5 DEF Partial
  <2> QED BY <1>5, <2>1, <2>6 DEF CInv
<1>8. CASE /\ q # NULL /\ data' = Append(data, RxBuf[buff])
           /\ pRxStart' = Append(pRxStart, q)
  <2>1. PICK x \in Pbufs : x = q
    BY <1>8 DEF OInv, Shapes
  <2>2. Len(pRxStart') = Len(pRxStart) + 1
    BY <1>6, <1>8, <2>1
  <2>3. data' = Append(data, c)
    BY <1>3, <1>8
  <2> HIDE DEF Frag
  <2>4. /\ data' \in Seq(Frag) /\ Len(data') = Len(data) + 1 /\ Len(data) \in Nat
        /\ DOMAIN data' = 1 .. Len(data) + 1 /\ DOMAIN data = 1 .. Len(data)
        /\ \A i \in 1 .. Len(data) : data'[i] = data[i]
        /\ data'[Len(data) + 1] = c
    BY <1>6, <2>3, AppendIs
  <2> USE DEF Frag
  <2>5. ContentType'
    BY <1>1, <2>4 DEF CInv, ContentType, Bufs, Descs
  <2>6. data # << >> => Len(data) > 0
    BY <1>6
  <2>7. data'[1][1] = c[1]
    BY <1>2, <1>4, <2>4, <2>6
  <2>8. Ordered'
    <3>1. ASSUME NEW i \in 1 .. Len(data)
          PROVE  data'[i][1] = c[1] /\ (i = 1 => data'[i][2] = 1) /\ (i > 1 => data'[i][2] > data'[i - 1][2])
      <4>1. data'[i] = data[i] /\ data # << >> /\ i \in DOMAIN data
        BY <1>6, <2>4
      <4>2. data[i][1] = c[1]
        BY <1>2, <1>4, <4>1 DEF CInv, Ordered
      <4>3. i > 1 => i - 1 \in 1 .. Len(data)
        OBVIOUS
      <4>4. i > 1 => data'[i - 1] = data[i - 1]
        BY <2>4, <4>3
      <4> QED BY <4>1, <4>2, <4>4 DEF CInv, Ordered
    <3>2. CASE data = << >>
      <4>1. Len(data) = 0 /\ c[2] = 1 /\ data'[1] = c /\ DOMAIN data' = 1 .. 1
        BY <1>2, <1>3, <2>4, <3>2
      <4>2. \A i \in DOMAIN data' : i = 1
        BY <4>1
      <4> QED BY <4>1, <4>2 DEF Ordered
    <3>3. CASE data # << >>
      <4>1. Len(data) \in 1 .. Len(data) /\ Len(data) + 1 > 1 /\ (Len(data) + 1) - 1 = Len(data)
        BY <2>4, <2>6, <3>3
      <4>2. data'[Len(data)] = data[Len(data)] /\ data[Len(data)] \in Frag
        BY <1>6, <2>4, <4>1
      <4>3. data[Len(data)][2] \in Int /\ c[2] \in Int
        BY <1>3, <4>2
      <4>4. c[2] > data[Len(data)][2]
        BY <1>2, <1>4, <3>3, <4>3
      <4>5. \A i \in DOMAIN data' : i \in 1 .. Len(data) \/ i = Len(data) + 1
        BY <2>4
      <4>6. \A i \in DOMAIN data' :
              data'[i][1] = c[1] /\ (i = 1 => data'[i][2] = 1) /\ (i > 1 => data'[i][2] > data'[i - 1][2])
        <5>1. ASSUME NEW i \in DOMAIN data', i = Len(data) + 1
              PROVE  data'[i] = c /\ i # 1 /\ i - 1 = Len(data)
          BY <2>4, <4>1, <5>1
        <5> QED BY <3>1, <4>2, <4>4, <4>5, <5>1
      <4> QED BY <2>7, <4>6 DEF Ordered
    <3> QED BY <3>2, <3>3
  <2>9. Len(data') <= c[2] /\ Len(data') <= MAX_FRAGS /\ data'[Len(data')][2] = c[2] /\ data' # << >>
    BY <1>2, <1>3, <1>4, <2>4
  <2>10. rxdataready = FALSE => /\ Len(data') <= Passed' /\ data'[1][1] = PassedFrame'
                                /\ data'[Len(data')][2] <= Passed'
    BY <1>3, <1>5, <2>7, <2>9
  <2>11. rxdataready = TRUE => Passed' = 0
    BY <1>5
  <2>12. Partial'
    BY <1>1, <1>2, <1>6, <2>2, <2>4, <2>9, <2>10, <2>11 DEF Partial
  <2> QED BY <1>5, <2>5, <2>8, <2>12 DEF CInv
<1> QED BY <1>1, <1>7, <1>8

\* The frame is delivered, or the poll ends.
LEMMA ReadReturnCInv ==
    ASSUME BInv, BInv', OInv, CInv, ReadReturn
    PROVE  CInv'
<1>1. /\ pc = "return" /\ rxdataready' = FALSE
      /\ UNCHANGED <<own, att, fs, ls, dmaIdx, dmaFrag, frame, RxBuf, RxDescIdx, RxBuildDescIdx,
                     RxBuildDescCnt, data>>
      /\ \/ /\ rxdataready /\ p' = pRxStart /\ pRxStart' = << >>
            /\ pc' = IF pRxStart = << >> THEN "sleep" ELSE "input"
         \/ ~rxdataready /\ pc' = "sleep" /\ UNCHANGED <<p, pRxStart>>
  BY DEF ReadReturn, dmaVars
<1>2. Ring' /\ Filled' /\ Passed' = Passed /\ PassedFrame' = PassedFrame
  BY <1>1, SameRing
<1>3. ContentType' /\ Ordered'
  BY <1>1 DEF CInv, ContentType, Ordered, Bufs, Descs
<1>4. Passed' \in Nat /\ Len(<< >>) = 0 /\ MAX_FRAGS \in Nat
  BY <1>2, <1>3, PassedNext, EthRxAssumption
<1>5. /\ pRxStart \in Seq(Pbufs) /\ data \in Seq((0 .. FRAME_IDS - 1) \X (0 .. MAX_FRAGS))
      /\ Len(data) = Len(pRxStart) /\ p = << >>
  BY <1>1 DEF OInv, Shapes, CInv, ContentType, Partial
<1>6. pRxStart = << >> <=> data = << >>
  BY <1>5
<1>7. Partial'
  <2>1. CASE rxdataready /\ pRxStart = << >>
    <3>1. pc' = "sleep" /\ data' = << >> /\ p' = << >> /\ pRxStart' = << >>
      BY <1>1, <1>6, <2>1
    <3> QED BY <1>1, <1>4, <3>1 DEF Partial
  <2>2. CASE rxdataready /\ pRxStart # << >>
    <3>1. pc' = "input" /\ data' = data /\ p' = pRxStart /\ pRxStart' = << >>
      BY <1>1, <2>2
    <3> QED BY <1>1, <1>5, <3>1 DEF CInv, Partial
  <2>3. CASE ~rxdataready
    <3>1. pc' = "sleep" /\ data' = data /\ UNCHANGED <<p, pRxStart>>
      BY <1>1, <2>3
    <3> QED BY <1>1, <1>2, <2>3, <3>1 DEF CInv, Partial
  <2> QED BY <2>1, <2>2, <2>3
<1> QED BY <1>2, <1>3, <1>7 DEF CInv

\* The frame was taken or freed; nothing of the next one was read.
LEMMA InputCInv ==
    ASSUME BInv, BInv', CInv, InputOk \/ InputFailed
    PROVE  CInv'
<1>1. /\ pc = "input" /\ pc' = "read" /\ p' = << >> /\ data' = << >>
      /\ UNCHANGED <<own, att, fs, ls, dmaIdx, dmaFrag, frame, RxBuf, RxDescIdx, RxBuildDescIdx,
                     RxBuildDescCnt, pRxStart, rxdataready>>
  BY DEF InputOk, InputFailed, dmaVars, halVars
<1>2. Ring' /\ Filled'
  BY <1>1, SameRing
<1>3. << >> \in Seq((0 .. FRAME_IDS - 1) \X (0 .. MAX_FRAGS)) /\ Len(<< >>) = 0 /\ DOMAIN << >> = {}
  OBVIOUS
<1>4. ContentType' /\ Ordered'
  BY <1>1, <1>3 DEF CInv, ContentType, Ordered, Bufs, Descs
<1>5. Passed' \in Nat /\ MAX_FRAGS \in Nat
  BY <1>2, <1>4, PassedNext, EthRxAssumption
<1>6. Partial'
  BY <1>1, <1>3, <1>5 DEF CInv, Partial
<1> QED BY <1>2, <1>4, <1>6 DEF CInv

\* The other steps of eth_poll change pc at most; the other tasks nothing.
LEMMA OtherCInv ==
    ASSUME CInv, UNCHANGED <<own, att, fs, ls, dmaIdx, dmaFrag, frame, RxBuf, RxDescIdx,
                             RxBuildDescIdx, RxBuildDescCnt, pRxStart, rxdataready, p, data>>,
           \/ pc' = pc
           \/ pc = "link" /\ pc' = "take"
           \/ pc = "sleep" /\ pc' = "read"
           \/ pc = "read" /\ pc' = "update"
           \/ pc = "update" /\ pc' = "return"
    PROVE  CInv'
<1>1. /\ Ring' /\ Filled' /\ Passed' = Passed /\ PassedFrame' = PassedFrame
      /\ Unread(RxDescIdx)' <=> Unread(RxDescIdx)
  BY SameRing
<1>2. ContentType' /\ Ordered'
  BY DEF CInv, ContentType, Ordered, Bufs, Descs
<1>3. Partial'
  BY <1>1 DEF CInv, Partial
<1> QED BY <1>1, <1>2, <1>3 DEF CInv

\* Every step keeps CInv.
LEMMA NextCInv == BInv /\ BInv' /\ OInv /\ CInv /\ [Next]_vars => CInv'
<1> SUFFICES ASSUME BInv, BInv', OInv, CInv, [Next]_vars PROVE CInv'
  OBVIOUS
<1>1. CASE \E last \in BOOLEAN : DmaReceive(last)
  BY <1>1, DmaCInv
<1>2. CASE ReadDesc
  BY <1>2, ReadDescCInv
<1>3. CASE LinkTake
  BY <1>3, LinkTakeCInv
<1>4. CASE UpdateDesc
  BY <1>4, UpdateCInv
<1>5. CASE ReadReturn
  BY <1>5, ReadReturnCInv
<1>6. CASE InputOk \/ InputFailed
  BY <1>6, InputCInv
<1>7. CASE PollWake \/ ReadDone \/ LinkAlloc \/ UpdateDone
  BY <1>7, OtherCInv DEF PollWake, ReadDone, LinkAlloc, UpdateDone, dmaVars, halVars
<1>8. CASE Tcpip \/ \E f \in held : AppFree(f)
  BY <1>8, OtherCInv DEF Tcpip, TcpipFetch, TcpipInput, TcpipOoseq, AppFree, dmaVars, halVars, pollVars
<1>9. CASE UNCHANGED vars
  BY <1>9, OtherCInv DEF vars, dmaVars, halVars, pollVars
<1> QED BY <1>1, <1>2, <1>3, <1>4, <1>5, <1>6, <1>7, <1>8, <1>9 DEF Next, Poll

\* What eth_poll knows of the frame it assembles holds in every state.
THEOREM ContentInvariance == Spec => [](OInv /\ CInv)
BY InitOInv, NextOInv, InitCInv, NextCInv, BufferInvariance, PTL DEF Spec

\* HAL_ETH_RxLinkCallback, ethernetif_poll(): what netif->input() gets are
\* fragments of one frame, from its first one on and in order, for any ring,
\* pool and number of fragments, also when pbufs run out in the middle of a
\* frame and when the frame is read in several polls.
THEOREM FrameIntactAlways == Spec => []FrameIntact
<1>1. CInv => FrameIntact
  BY DEF CInv, Ordered, FrameIntact
<1> QED BY <1>1, ContentInvariance, PTL

-----------------------------------------------------------------------------
(* Type correctness                                                        *)

\* What TypeOK needs beside the other invariants: pbuf_chain() adds a
\* reference only to a pbuf just allocated, and frames stay short.
Bounded ==
    /\ buff \in Bufs \cup {NULL} /\ pbuf_free_ooseq_pending \in BOOLEAN
    /\ Len(tcpip_mbox) <= TCPIP_MBOX_SIZE
    /\ \A x \in Pbufs : ref[x] <= 2 /\ (q = x => ref[x] = 1)
    /\ Len(cur) <= MAX_FRAGS
    /\ \A i \in DOMAIN tcpip_mbox : Len(tcpip_mbox[i]) <= MAX_FRAGS
    /\ \A f \in held : Len(f) <= MAX_FRAGS

\* An untouched count keeps its bound, and so does one pbuf_free() lowers.
LEMMA RefBounded ==
    ASSUME OInv, Bounded, q = NULL \/ ref' = ref, q' = q,
           \A x \in Pbufs : ref'[x] <= ref[x] /\ ref'[x] \in Nat
    PROVE  \A x \in Pbufs : ref'[x] <= 2 /\ (q' = x => ref'[x] = 1)
<1>1. \A x \in Pbufs : ref[x] \in Nat /\ x # NULL
  BY InNothing DEF OInv, Shapes
<1>2. \A x \in Pbufs : ref'[x] <= 2
  BY <1>1 DEF Bounded
<1>3. \A x \in Pbufs : q' = x => ref'[x] = 1
  BY <1>1 DEF Bounded
<1> QED BY <1>2, <1>3

\* A new message keeps the mailbox bounded.
LEMMA PostBounded ==
    ASSUME OInv, Bounded, NEW f \in Seq(Pbufs) \cup {OOSEQ}, Len(f) <= MAX_FRAGS,
           tcpip_mbox' = Append(tcpip_mbox, f), Len(tcpip_mbox) < TCPIP_MBOX_SIZE
    PROVE  /\ Len(tcpip_mbox') <= TCPIP_MBOX_SIZE
           /\ \A i \in DOMAIN tcpip_mbox' : Len(tcpip_mbox'[i]) <= MAX_FRAGS
<1>1. tcpip_mbox \in Seq(Seq(Pbufs) \cup {OOSEQ}) /\ TCPIP_MBOX_SIZE \in Nat
  BY EthRxAssumption DEF OInv, Shapes
<1>2. /\ Len(tcpip_mbox') = Len(tcpip_mbox) + 1 /\ Len(tcpip_mbox) \in Nat
      /\ DOMAIN tcpip_mbox' = 1 .. Len(tcpip_mbox) + 1 /\ DOMAIN tcpip_mbox = 1 .. Len(tcpip_mbox)
      /\ \A i \in 1 .. Len(tcpip_mbox) : tcpip_mbox'[i] = tcpip_mbox[i]
      /\ tcpip_mbox'[Len(tcpip_mbox) + 1] = f
  BY <1>1, AppendIs
<1>3. \A i \in DOMAIN tcpip_mbox' : i \in DOMAIN tcpip_mbox \/ i = Len(tcpip_mbox) + 1
  BY <1>2
<1> QED BY <1>1, <1>2, <1>3 DEF Bounded

\* pbuf_free() lowers counts.
LEMMA FreeLowers ==
    ASSUME OInv, NEW c, \A x \in Pbufs : In(c, x) => ref[x] > 0
    PROVE  \A x \in Pbufs : pbuf_free(c)[x] <= ref[x] /\ pbuf_free(c)[x] \in Nat
<1>1. pbuf_free(c) \in [Pbufs -> Nat]
  BY FreeType DEF OInv
<1>2. \A x \in Pbufs : ref[x] \in Nat
  BY DEF OInv, Shapes
<1>3. \A x \in Pbufs : pbuf_free(c)[x] \in {ref[x], ref[x] - 1}
  BY FreeOthers
<1> QED BY <1>1, <1>2, <1>3

\* The same for several frames.
LEMMA FreeAllLowers ==
    ASSUME OInv, NEW C, \A c \in C : \A x \in Pbufs : In(c, x) => ref[x] > 0
    PROVE  \A x \in Pbufs : pbuf_free_all(C)[x] <= ref[x] /\ pbuf_free_all(C)[x] \in Nat
<1> SUFFICES ASSUME NEW x \in Pbufs
             PROVE  pbuf_free_all(C)[x] <= ref[x] /\ pbuf_free_all(C)[x] \in Nat
  OBVIOUS
<1> DEFINE S == {pbuf_free(c)[x] : c \in C} \cup {ref[x]}
<1>1. ref[x] \in Nat
  BY DEF OInv, Shapes
<1>2. \A s \in S : s <= ref[x] /\ s \in Nat
  BY <1>1, FreeLowers
<1>3. pbuf_free_all(C)[x] = Min(S)
  BY DEF pbuf_free_all
<1>4. Min(S) \in S
  <2>1. S \subseteq Nat /\ S # {}
    BY <1>2
  <2> HIDE DEF S
  <2> QED BY <2>1, MinIn
<1> HIDE DEF S
<1> QED BY <1>2, <1>3, <1>4

\* Every step keeps the bounds.
LEMMA NextBounded == BInv /\ BInv' /\ OInv /\ CInv /\ Bounded /\ [Next]_vars => Bounded'
<1> SUFFICES ASSUME BInv, BInv', OInv, CInv, Bounded, [Next]_vars PROVE Bounded'
  OBVIOUS
<1> USE DEF Bufs
<1>0. /\ \A x \in Pbufs : ref[x] \in Nat /\ x # NULL
      /\ TCPIP_MBOX_SIZE \in Nat /\ MAX_FRAGS \in Nat \ {0} /\ Len(<< >>) = 0
      /\ (pc # "take" => q = NULL)
  BY InNothing, EthRxAssumption DEF OInv, Shapes
<1>1. ASSUME UNCHANGED <<q, ref, pbuf_free_ooseq_pending, tcpip_mbox, cur, held>>,
             buff' \in Bufs \cup {NULL}
      PROVE  Bounded'
  BY <1>1 DEF Bounded, Pbufs
<1>2. CASE \/ \E last \in BOOLEAN : DmaReceive(last)
           \/ PollWake \/ ReadDone \/ UpdateDone \/ UpdateDesc \/ ReadReturn \/ UNCHANGED vars
  <2>1. UNCHANGED <<q, ref, pbuf_free_ooseq_pending, tcpip_mbox, cur, held, buff>>
    BY <1>2 DEF DmaReceive, PollWake, ReadDone, UpdateDone, UpdateDesc, ReadReturn, vars,
                pollVars, tcpipVars
  <2> QED BY <1>1, <2>1 DEF Bounded
<1>3. CASE ReadDesc
  <2>1. /\ UNCHANGED <<q, ref, pbuf_free_ooseq_pending, tcpip_mbox, cur, held>>
        /\ buff' = att[RxDescIdx] \/ buff' = buff
    BY <1>3 DEF ReadDesc, tcpipVars
  <2>2. buff' \in Bufs \cup {NULL}
    BY <2>1 DEF Bounded, BInv, BufType
  <2> QED BY <1>1, <2>1, <2>2
<1>4. CASE LinkAlloc
  <2>1. UNCHANGED <<buff, cur, held>> /\ pc = "link"
    BY <1>4 DEF LinkAlloc
  <2>2. CASE /\ FreePbufs # {} /\ q' = Min(FreePbufs) /\ ref' = [ref EXCEPT ![q'] = 1]
             /\ UNCHANGED <<pbuf_free_ooseq_pending, tcpip_mbox>>
    <3>1. FreePbufs \subseteq Nat
      BY EthRxAssumption DEF FreePbufs, Pbufs
    <3>2. PICK n \in Pbufs : n = q'
      BY <2>2, <3>1, MinIn DEF FreePbufs
    <3>3. \A x \in Pbufs : ref'[x] = IF x = n THEN 1 ELSE ref[x]
      BY <2>2, <3>2 DEF OInv, Shapes
    <3>4. \A x \in Pbufs : ref'[x] <= 2 /\ (q' = x => ref'[x] = 1)
      BY <1>0, <3>2, <3>3 DEF Bounded
    <3> QED BY <2>1, <2>2, <3>4 DEF Bounded, Pbufs
  <2>3. CASE q' = NULL /\ PBUF_POOL_IS_EMPTY /\ UNCHANGED ref
    <3>1. CASE UNCHANGED <<pbuf_free_ooseq_pending, tcpip_mbox>>
      BY <1>0, <2>1, <2>3, <3>1 DEF Bounded, Pbufs
    <3>2. CASE /\ pbuf_free_ooseq_pending' = TRUE /\ tcpip_mbox' = Append(tcpip_mbox, OOSEQ)
               /\ Len(tcpip_mbox) # TCPIP_MBOX_SIZE
      <4>1. Len(tcpip_mbox) < TCPIP_MBOX_SIZE
        <5>1. Len(tcpip_mbox) \in Nat
          BY DEF OInv, Shapes
        <5> QED BY <1>0, <3>2, <5>1 DEF Bounded
      <4>2. Len(OOSEQ) <= MAX_FRAGS /\ OOSEQ \in Seq(Pbufs) \cup {OOSEQ}
        BY <1>0 DEF OOSEQ
      <4>3. /\ Len(tcpip_mbox') <= TCPIP_MBOX_SIZE
            /\ \A i \in DOMAIN tcpip_mbox' : Len(tcpip_mbox'[i]) <= MAX_FRAGS
        BY <3>2, <4>1, <4>2, PostBounded
      <4> QED BY <1>0, <2>1, <2>3, <3>2, <4>3 DEF Bounded, Pbufs
    <3> QED BY <2>3, <3>1, <3>2 DEF PBUF_POOL_IS_EMPTY
  <2> QED BY <1>4, <2>2, <2>3 DEF LinkAlloc
<1>5. CASE LinkTake
  <2>1. /\ UNCHANGED <<pbuf_free_ooseq_pending, tcpip_mbox, cur, held>>
        /\ buff' = NULL /\ q' = NULL
        /\ ref' = ref \/ (q # NULL /\ ref' = ChainRef(q))
    BY <1>5 DEF LinkTake, tcpipVars
  <2>2. \A x \in Pbufs : ref'[x] <= 2
    <3>1. CASE ref' = ref
      BY <3>1 DEF Bounded
    <3>2. CASE q # NULL /\ ref' = ChainRef(q)
      <4>1. PICK n \in Pbufs : n = q
        BY <3>2 DEF OInv, Shapes
      <4>2. ref' = ref \/ ref' = [ref EXCEPT ![n] = ref[n] + 1]
        BY <3>2, <4>1 DEF ChainRef
      <4>3. ref[n] = 1
        BY <4>1 DEF Bounded
      <4> QED BY <4>2, <4>3 DEF Bounded, OInv, Shapes
    <3> QED BY <2>1, <3>1, <3>2
  <2> QED BY <1>0, <2>1, <2>2 DEF Bounded, Pbufs
<1>6. CASE InputOk
  <2>1. /\ UNCHANGED <<buff, q, ref, pbuf_free_ooseq_pending, cur, held>> /\ pc = "input"
        /\ tcpip_mbox' = Append(tcpip_mbox, p) /\ Len(tcpip_mbox) < TCPIP_MBOX_SIZE
    BY <1>6 DEF InputOk, CanInput
  <2>2. Len(p) <= MAX_FRAGS
    BY <2>1 DEF CInv, Partial
  <2>3. PICK f \in Seq(Pbufs) \cup {OOSEQ} : f = p
    BY DEF OInv, Shapes
  <2>4. /\ Len(tcpip_mbox') <= TCPIP_MBOX_SIZE
        /\ \A i \in DOMAIN tcpip_mbox' : Len(tcpip_mbox'[i]) <= MAX_FRAGS
    BY <2>1, <2>2, <2>3, PostBounded
  <2> QED BY <2>1, <2>4 DEF Bounded, Pbufs
<1>7. CASE InputFailed
  <2>1. /\ UNCHANGED <<buff, q, pbuf_free_ooseq_pending, tcpip_mbox, cur, held>> /\ pc = "input"
        /\ ref' = pbuf_free(p)
    BY <1>7 DEF InputFailed, tcpipVars
  <2>2. \A x \in Pbufs : In(p, x) => ref[x] > 0
    BY DEF OInv, Allocated, HasOwner
  <2>3. \A x \in Pbufs : ref'[x] <= 2 /\ (q' = x => ref'[x] = 1)
    BY <1>0, <2>1, <2>2, FreeLowers, RefBounded
  <2> QED BY <2>1, <2>3 DEF Bounded, Pbufs
<1>8. CASE TcpipFetch
  <2>1. /\ UNCHANGED <<buff, q, ref, pbuf_free_ooseq_pending, held>> /\ tcpip_mbox # << >>
        /\ cur' = Head(tcpip_mbox) /\ tcpip_mbox' = Tail(tcpip_mbox)
    BY <1>8 DEF TcpipFetch, pollVars
  <2>2. tcpip_mbox \in Seq(Seq(Pbufs) \cup {OOSEQ})
    BY DEF OInv, Shapes
  <2>3. /\ cur' = tcpip_mbox[1] /\ 1 \in DOMAIN tcpip_mbox
        /\ \A i \in DOMAIN tcpip_mbox' :
              i + 1 \in DOMAIN tcpip_mbox /\ tcpip_mbox'[i] = tcpip_mbox[i + 1]
    BY <2>1, <2>2, TailIs
  <2>4. Len(tcpip_mbox') <= TCPIP_MBOX_SIZE
    BY <1>0, <2>1, <2>2 DEF Bounded
  <2> QED BY <2>1, <2>3, <2>4 DEF Bounded, Pbufs
<1>9. ASSUME NEW keep \in BOOLEAN, TcpipInput(keep) PROVE Bounded'
  <2>1. /\ UNCHANGED <<buff, q, pc, pbuf_free_ooseq_pending, tcpip_mbox>> /\ cur' = << >> /\ pc = "sleep"
        /\ \/ held' = held \cup {cur} /\ ref' = ref
           \/ held' = held /\ ref' = pbuf_free(cur)
    BY <1>9 DEF TcpipInput, pollVars
  <2>2. \A x \in Pbufs : In(cur, x) => ref[x] > 0
    BY DEF OInv, Allocated, HasOwner
  <2>3. \A x \in Pbufs : ref'[x] <= 2 /\ (q' = x => ref'[x] = 1)
    <3>1. CASE ref' = ref
      BY <2>1, <3>1 DEF Bounded
    <3>2. CASE ref' = pbuf_free(cur)
      BY <1>0, <2>1, <2>2, <3>2, FreeLowers, RefBounded
    <3> QED BY <2>1, <3>1, <3>2
  <2> QED BY <1>0, <2>1, <2>3 DEF Bounded, Pbufs
<1>10. ASSUME NEW segs \in SUBSET held, TcpipOoseq(segs) PROVE Bounded'
  <2>1. /\ UNCHANGED <<buff, q, tcpip_mbox>> /\ cur' = << >> /\ pc = "sleep"
        /\ pbuf_free_ooseq_pending' = FALSE /\ held' = held \ segs /\ ref' = pbuf_free_all(segs)
    BY <1>10 DEF TcpipOoseq, pollVars
  <2>2. \A f \in segs : \A x \in Pbufs : In(f, x) => ref[x] > 0
    BY DEF OInv, Allocated, HasOwner, Held
  <2>3. \A x \in Pbufs : ref'[x] <= 2 /\ (q' = x => ref'[x] = 1)
    BY <1>0, <2>1, <2>2, FreeAllLowers, RefBounded
  <2>4. \A g \in held' : Len(g) <= MAX_FRAGS
    BY <2>1 DEF Bounded
  <2>5. /\ buff' \in Bufs \cup {NULL} /\ pbuf_free_ooseq_pending' \in BOOLEAN
        /\ Len(tcpip_mbox') <= TCPIP_MBOX_SIZE /\ Len(cur') <= MAX_FRAGS
        /\ \A i \in DOMAIN tcpip_mbox' : Len(tcpip_mbox'[i]) <= MAX_FRAGS
    <3>1. pbuf_free_ooseq_pending' \in BOOLEAN
      BY <2>1
    <3>2. Len(cur') <= MAX_FRAGS
      BY <1>0, <2>1
    <3> QED BY <2>1, <3>1, <3>2 DEF Bounded
  <2> QED BY <2>3, <2>4, <2>5 DEF Bounded, Pbufs
<1>11. ASSUME NEW f \in held, AppFree(f) PROVE Bounded'
  <2>1. /\ UNCHANGED <<buff, q, tcpip_mbox, cur, pbuf_free_ooseq_pending>> /\ pc = "sleep"
        /\ held' = held \ {f} /\ ref' = pbuf_free(f)
    BY <1>11 DEF AppFree, pollVars
  <2>2. \A x \in Pbufs : In(f, x) => ref[x] > 0
    BY DEF OInv, Allocated, HasOwner, Held
  <2>3. \A x \in Pbufs : ref'[x] <= 2 /\ (q' = x => ref'[x] = 1)
    BY <1>0, <2>1, <2>2, FreeLowers, RefBounded
  <2>4. \A g \in held' : Len(g) <= MAX_FRAGS
    BY <2>1 DEF Bounded
  <2>5. /\ buff' \in Bufs \cup {NULL} /\ pbuf_free_ooseq_pending' \in BOOLEAN
        /\ Len(tcpip_mbox') <= TCPIP_MBOX_SIZE /\ Len(cur') <= MAX_FRAGS
        /\ \A i \in DOMAIN tcpip_mbox' : Len(tcpip_mbox'[i]) <= MAX_FRAGS
    BY <2>1 DEF Bounded
  <2> QED BY <2>3, <2>4, <2>5 DEF Bounded, Pbufs
<1> QED
  BY <1>2, <1>3, <1>4, <1>5, <1>6, <1>7, <1>8, <1>9, <1>10, <1>11 DEF Next, Poll, Tcpip

\* At first nothing is posted or referenced.
LEMMA InitBounded == Init => Bounded
<1> SUFFICES ASSUME Init PROVE Bounded
  OBVIOUS
<1>1. /\ \A x \in Pbufs : x # NULL /\ ref[x] = 0
      /\ tcpip_mbox = << >> /\ cur = << >> /\ held = {} /\ q = NULL /\ buff = NULL
      /\ pbuf_free_ooseq_pending = FALSE
  BY InNothing DEF Init
<1>2. Len(<< >>) = 0 /\ DOMAIN << >> = {} /\ MAX_FRAGS \in Nat /\ TCPIP_MBOX_SIZE \in Nat
  BY EthRxAssumption
<1>3. \A x \in Pbufs : ref[x] <= 2 /\ (q = x => ref[x] = 1)
  BY <1>1
<1>4. Len(tcpip_mbox) <= TCPIP_MBOX_SIZE /\ Len(cur) <= MAX_FRAGS
  BY <1>1, <1>2
<1>5. DOMAIN tcpip_mbox = {}
  BY <1>1, <1>2
<1> QED BY <1>1, <1>3, <1>4, <1>5 DEF Bounded

\* A short sequence of pbufs is a frame.
LEMMA FrameIs ==
    ASSUME NEW f \in Seq(Pbufs), Len(f) <= MAX_FRAGS
    PROVE  f \in Frames
<1>1. Len(f) \in 0 .. MAX_FRAGS
  BY EthRxAssumption
<1>2. f \in [1 .. Len(f) -> Pbufs]
  OBVIOUS
<1> QED BY <1>1, <1>2 DEF Frames

\* Every variable keeps its type; in particular no count exceeds two, and
\* no frame and no mailbox its bound.
THEOREM TypeCorrect == Spec => []TypeOK
<1>1. BInv /\ OInv /\ CInv /\ Bounded => TypeOK
  <2> SUFFICES ASSUME BInv, OInv, CInv, Bounded PROVE TypeOK
    OBVIOUS
  <2>1. pRxStart \in Frames /\ p \in Frames
    <3>1. pRxStart \in Seq(Pbufs) /\ p \in Seq(Pbufs)
      BY DEF OInv, Shapes
    <3>2. Len(pRxStart) <= MAX_FRAGS /\ Len(p) <= MAX_FRAGS
      <4>1. Len(<< >>) = 0 /\ MAX_FRAGS \in Nat
        BY EthRxAssumption
      <4> QED BY <4>1 DEF CInv, Partial
    <3> QED BY <3>1, <3>2, FrameIs
  <2>2. held \subseteq Frames
    BY FrameIs DEF OInv, Shapes, Bounded
  <2>3. ref \in [Pbufs -> 0 .. 2]
    <3>1. ref \in [Pbufs -> Nat]
      BY DEF OInv, Shapes
    <3>2. \A x \in Pbufs : ref[x] \in 0 .. 2
      BY <3>1 DEF Bounded
    <3> QED BY <3>1, <3>2
  <2>4. /\ q \in Pbufs \cup {NULL} /\ buff \in Bufs \cup {NULL} /\ pbuf_free_ooseq_pending \in BOOLEAN
        /\ Len(tcpip_mbox) <= TCPIP_MBOX_SIZE
    BY DEF OInv, Shapes, Bounded
  <2> QED BY <2>1, <2>2, <2>3, <2>4 DEF TypeOK, BInv, BufType, CInv, ContentType
<1> QED BY <1>1, InitBounded, NextBounded, BufferInvariance, ContentInvariance, PTL DEF Spec

=============================================================================
