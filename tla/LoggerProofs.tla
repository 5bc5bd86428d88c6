---------------------------- MODULE LoggerProofs ----------------------------
(***************************************************************************)
(* Proofs about the logger for every buffer, message and chunk size.       *)
(*                                                                         *)
(* The inductive invariant ties the two positions to the history: how many *)
(* bytes are pending (Positions), and which byte every cell holds          *)
(* (Contents).  Both avoid the modulo operator: total - m_writePos is the  *)
(* number of bytes stored in completed laps, 0 or at least one lap.        *)
(***************************************************************************)
EXTENDS Logger, TLAPS

\* The pending bytes in terms of the positions.  Once m_bufferFull is set,
\* the distance is known only up to laps that overwrote pending bytes.
Positions ==
    /\ ~m_bufferFull => total - mark = m_writePos - m_readPos
    /\ m_bufferFull =>
         \/ total - mark = LOG_BUFFER_SIZE - m_readPos + m_writePos
         \/ total - mark >= 2 * LOG_BUFFER_SIZE - m_readPos + m_writePos

\* The byte in every cell: this lap's below m_writePos, the previous lap's
\* from m_writePos on, or the memset value when there was no previous lap.
Contents ==
    /\ total = m_writePos \/ total - m_writePos >= LOG_BUFFER_SIZE
    /\ \A i \in Cells :
         /\ i < m_writePos => m_buffer[i] = total - m_writePos + i + 1
         /\ (m_writePos <= i /\ total >= LOG_BUFFER_SIZE) =>
               m_buffer[i] = total - m_writePos - LOG_BUFFER_SIZE + i + 1

IInv == TypeOK /\ Positions /\ Contents

-----------------------------------------------------------------------------

\* The length handed to _write() is at least the two bytes of "\r\n" and at
\* most MAX_LOG_MSG, so it never exceeds the buffer.
LEMMA MsgLenBounds ==
    ASSUME NEW t \in 0 .. MaxText
    PROVE  MsgLen(t) \in 2 .. LOG_BUFFER_SIZE
BY LoggerAssumption DEF MsgLen

\* Static initialisation establishes the invariant.
LEMMA InitIInv == Init => IInv
<1> SUFFICES ASSUME Init PROVE IInv
  OBVIOUS
<1>1. 0 \in Cells /\ 0 \in 0 .. MaxBytes
  BY LoggerAssumption DEF Cells
<1>2. TypeOK
  <2>1. m_bufferFull \in BOOLEAN
    BY DEF Init
  <2>2. m_buffer \in [Cells -> 0 .. MaxBytes] /\ total \in 0 .. MaxBytes /\ mark \in 0 .. total
    BY <1>1 DEF Init
  <2> QED BY <1>1, <2>1, <2>2 DEF Init, TypeOK
<1>3. Positions /\ Contents
  BY <1>1, LoggerAssumption DEF Init, Positions, Contents, Cells
<1> QED BY <1>2, <1>3 DEF IInv

\* log() and its siblings keep the invariant, whether the message wraps or not.
LEMMA LogIInv ==
    ASSUME IInv, NEW t \in 0 .. MaxText, Log(t)
    PROVE  IInv'
<1> DEFINE len == MsgLen(t)
<1>1. len \in 2 .. LOG_BUFFER_SIZE
  BY MsgLenBounds
<1> HIDE DEF len
<1>2. /\ _write(len) /\ total + len <= MaxBytes /\ total' = total + len
      /\ UNCHANGED <<m_readPos, mark>>
  BY DEF Log, len
<1>3. CASE m_writePos + len >= LOG_BUFFER_SIZE
  <2>1. /\ m_writePos' = m_writePos + len - LOG_BUFFER_SIZE
        /\ m_bufferFull' = TRUE
        /\ m_buffer' = [i \in Cells |->
                IF i < m_writePos + len - LOG_BUFFER_SIZE
                THEN total + (LOG_BUFFER_SIZE - m_writePos) + i + 1
                ELSE IF i >= m_writePos THEN total + (i - m_writePos) + 1
                ELSE m_buffer[i]]
    BY <1>1, <1>2, <1>3, LoggerAssumption DEF _write, Stored, IInv, TypeOK, Cells
  <2>2. TypeOK'
    BY <1>1, <1>2, <1>3, <2>1, LoggerAssumption DEF IInv, TypeOK, Cells
  <2>3. Positions'
    BY <1>1, <1>2, <1>3, <2>1, LoggerAssumption DEF IInv, TypeOK, Positions, Cells
  <2>4. Contents'
    BY <1>1, <1>2, <1>3, <2>1, LoggerAssumption DEF IInv, TypeOK, Contents, Cells
  <2> QED BY <2>2, <2>3, <2>4 DEF IInv
<1>4. CASE m_writePos + len < LOG_BUFFER_SIZE
  <2>1. /\ m_writePos' = m_writePos + len
        /\ m_bufferFull' = m_bufferFull
        /\ m_buffer' = [i \in Cells |->
                IF m_writePos <= i /\ i < m_writePos + len
                THEN total + (i - m_writePos) + 1
                ELSE m_buffer[i]]
    BY <1>1, <1>2, <1>4, LoggerAssumption DEF _write, Stored, IInv, TypeOK, Cells
  <2>2. TypeOK'
    BY <1>1, <1>2, <1>4, <2>1, LoggerAssumption DEF IInv, TypeOK, Cells
  <2>3. Positions'
    BY <1>1, <1>2, <1>4, <2>1, LoggerAssumption DEF IInv, TypeOK, Positions, Cells
  <2>4. Contents'
    BY <1>1, <1>2, <1>4, <2>1, LoggerAssumption DEF IInv, TypeOK, Contents, Cells
  <2> QED BY <2>2, <2>3, <2>4 DEF IInv
<1> QED
  BY <1>1, <1>3, <1>4, LoggerAssumption DEF IInv, TypeOK, Cells

\* Every step keeps the invariant.
LEMMA NextIInv == IInv /\ [Next]_vars => IInv'
<1> SUFFICES ASSUME IInv, [Next]_vars PROVE IInv'
  OBVIOUS
<1>1. CASE \E t \in 0 .. MaxText : Log(t)
  BY <1>1, LogIInv
<1>2. CASE flush
  <2>1. CASE UNCHANGED <<m_buffer, m_writePos, m_readPos, m_bufferFull, total, mark>>
    BY <2>1 DEF IInv, TypeOK, Positions, Contents, Cells
  <2>2. CASE /\ m_readPos' = m_writePos /\ m_bufferFull' = FALSE /\ mark' = total
             /\ UNCHANGED <<m_buffer, m_writePos, total>>
    <3>1. TypeOK'
      <4>1. m_bufferFull' \in BOOLEAN
        BY <2>2
      <4>2. mark' \in 0 .. total' /\ m_readPos' \in Cells'
        BY <2>2 DEF IInv, TypeOK, Cells
      <4> QED BY <2>2, <4>1, <4>2 DEF IInv, TypeOK, Cells
    <3>2. Positions'
      BY <2>2, LoggerAssumption DEF IInv, TypeOK, Positions, Cells
    <3>3. Contents'
      BY <2>2 DEF IInv, Contents, Cells
    <3> QED BY <3>1, <3>2, <3>3 DEF IInv
  <2> QED BY <1>2, <2>1, <2>2 DEF flush, vars
<1>3. CASE clear
  <2>1. 0 \in Cells /\ 0 \in 0 .. MaxBytes
    BY LoggerAssumption DEF Cells
  <2>2. TypeOK'
    <3>1. m_bufferFull' \in BOOLEAN
      BY <1>3 DEF clear
    <3>2. m_buffer' \in [Cells -> 0 .. MaxBytes]
      BY <1>3, <2>1 DEF clear
    <3>3. total' \in 0 .. MaxBytes /\ mark' \in 0 .. total'
      BY <1>3, <2>1 DEF clear
    <3> QED BY <1>3, <2>1, <3>1, <3>2, <3>3 DEF clear, TypeOK, Cells
  <2>3. Positions' /\ Contents'
    BY <1>3, <2>1, LoggerAssumption DEF clear, Positions, Contents, Cells
  <2> QED BY <2>2, <2>3 DEF IInv
<1>4. CASE UNCHANGED vars
  BY <1>4 DEF vars, IInv, TypeOK, Positions, Contents, Cells
<1> QED
  BY <1>1, <1>2, <1>3, <1>4 DEF Next

\* The invariant holds in every reachable state.
THEOREM Invariance == Spec => []IInv
BY InitIInv, NextIInv, PTL DEF Spec

-----------------------------------------------------------------------------

\* The invariant implies that flush() visits exactly the pending bytes.
LEMMA IInvPendingKept == IInv => PendingKept
<1> SUFFICES ASSUME IInv, total - mark <= LOG_BUFFER_SIZE
             PROVE  /\ Len(FlushOrder) = total - mark
                    /\ \A k \in 1 .. total - mark :
                          m_buffer[FlushOrder[k]] = mark + k
  BY DEF PendingKept
<1>1. CASE m_bufferFull
  <2>1. /\ total - mark = LOG_BUFFER_SIZE - m_readPos + m_writePos
        /\ m_writePos <= m_readPos
        /\ total - m_writePos >= LOG_BUFFER_SIZE
    BY <1>1, LoggerAssumption DEF IInv, TypeOK, Positions, Contents, Cells
  <2>2. FlushOrder = [k \in 1 .. total - mark |->
                         IF k <= LOG_BUFFER_SIZE - m_readPos
                         THEN m_readPos + k - 1
                         ELSE k - 1 - (LOG_BUFFER_SIZE - m_readPos)]
    BY <1>1, <2>1 DEF FlushOrder
  <2>3. Len(FlushOrder) = total - mark
    BY <2>2 DEF IInv, TypeOK
  <2>4. ASSUME NEW k \in 1 .. total - mark
        PROVE  m_buffer[FlushOrder[k]] = mark + k
    <3>1. CASE k <= LOG_BUFFER_SIZE - m_readPos
      <4>1. FlushOrder[k] = m_readPos + k - 1
        BY <2>2, <3>1
      <4>2. m_readPos + k - 1 \in Cells /\ m_writePos <= m_readPos + k - 1
        BY <2>1, <3>1, LoggerAssumption DEF IInv, TypeOK, Cells
      <4>3. total >= LOG_BUFFER_SIZE
        BY <2>1, LoggerAssumption DEF IInv, TypeOK, Cells
      <4>4. m_buffer[m_readPos + k - 1]
              = total - m_writePos - LOG_BUFFER_SIZE + (m_readPos + k - 1) + 1
        BY <4>2, <4>3 DEF IInv, Contents
      <4> QED
        BY <2>1, <4>1, <4>4, LoggerAssumption DEF IInv, TypeOK, Cells
    <3>2. CASE k > LOG_BUFFER_SIZE - m_readPos
      <4>1. FlushOrder[k] = k - 1 - (LOG_BUFFER_SIZE - m_readPos)
        BY <2>2, <3>2, LoggerAssumption DEF IInv, TypeOK, Cells
      <4>2. /\ k - 1 - (LOG_BUFFER_SIZE - m_readPos) \in Cells
            /\ k - 1 - (LOG_BUFFER_SIZE - m_readPos) < m_writePos
        BY <2>1, <3>2, LoggerAssumption DEF IInv, TypeOK, Cells
      <4> QED
        BY <2>1, <4>1, <4>2, LoggerAssumption DEF IInv, TypeOK, Contents, Cells
    <3> QED
      BY <3>1, <3>2, LoggerAssumption DEF IInv, TypeOK, Cells
  <2> QED BY <2>3, <2>4
<1>2. CASE ~m_bufferFull /\ total # mark
  <2>1. total - mark = m_writePos - m_readPos /\ m_readPos < m_writePos
    BY <1>2, LoggerAssumption DEF IInv, TypeOK, Positions, Cells
  <2>2. FlushOrder = [k \in 1 .. total - mark |-> m_readPos + k - 1]
    BY <1>2, <2>1 DEF FlushOrder
  <2>3. Len(FlushOrder) = total - mark
    BY <2>2 DEF IInv, TypeOK
  <2>4. ASSUME NEW k \in 1 .. total - mark
        PROVE  m_buffer[FlushOrder[k]] = mark + k
    <3>1. FlushOrder[k] = m_readPos + k - 1
      BY <2>2
    <3>2. m_readPos + k - 1 \in Cells /\ m_readPos + k - 1 < m_writePos
      BY <2>1, LoggerAssumption DEF IInv, TypeOK, Cells
    <3>3. m_buffer[m_readPos + k - 1] = total - m_writePos + (m_readPos + k - 1) + 1
      BY <3>2 DEF IInv, Contents
    <3> QED
      BY <2>1, <3>1, <3>3, LoggerAssumption DEF IInv, TypeOK, Cells
  <2> QED BY <2>3, <2>4
<1>3. CASE ~m_bufferFull /\ total = mark
  <2>1. m_readPos = m_writePos
    BY <1>3, LoggerAssumption DEF IInv, TypeOK, Positions, Cells
  <2>2. FlushOrder = << >>
    BY <1>3, <2>1, LoggerAssumption DEF FlushOrder, IInv, TypeOK, Cells
  <2> QED
    BY <1>3, <2>2 DEF IInv, TypeOK
<1> QED BY <1>1, <1>2, <1>3

\* flush() visits exactly the pending bytes, oldest first, whenever they fit
\* into the buffer.
THEOREM PendingKeptAlways == Spec => []PendingKept
BY Invariance, IInvPendingKept, PTL

\* No wrap of _write() ever overwrites one of the newest LOG_BUFFER_SIZE bytes.
THEOREM NewestKeptAlways == Spec => []NewestKept
<1>1. IInv => NewestKept
  <2> SUFFICES ASSUME IInv, NEW s \in 1 .. total, s + LOG_BUFFER_SIZE > total
               PROVE  \E i \in Cells : m_buffer[i] = s
    BY DEF NewestKept
  <2>1. CASE s > total - m_writePos
    <3>1. s - 1 - (total - m_writePos) \in Cells
      BY <2>1, LoggerAssumption DEF IInv, TypeOK, Cells
    <3>2. m_buffer[s - 1 - (total - m_writePos)] = s
      BY <2>1, <3>1, LoggerAssumption DEF IInv, TypeOK, Contents, Cells
    <3> QED BY <3>1, <3>2
  <2>2. CASE s <= total - m_writePos
    <3>1. /\ LOG_BUFFER_SIZE + s - 1 - (total - m_writePos) \in Cells
          /\ m_writePos <= LOG_BUFFER_SIZE + s - 1 - (total - m_writePos)
          /\ total >= LOG_BUFFER_SIZE
      BY <2>2, LoggerAssumption DEF IInv, TypeOK, Contents, Cells
    <3>2. m_buffer[LOG_BUFFER_SIZE + s - 1 - (total - m_writePos)] = s
      BY <2>2, <3>1, LoggerAssumption DEF IInv, TypeOK, Contents, Cells
    <3> QED BY <3>1, <3>2
  <2> QED
    BY <2>1, <2>2, LoggerAssumption DEF IInv, TypeOK, Cells
<1> QED BY <1>1, Invariance, PTL

\* flush() answers "No logs" exactly when nothing is pending.
THEOREM NoLogsAlways == Spec => []NoLogsIffNothingPending
<1>1. IInv => NoLogsIffNothingPending
  BY LoggerAssumption
     DEF IInv, TypeOK, Positions, NoLogsIffNothingPending, getUnreadCount, Cells
<1> QED BY <1>1, Invariance, PTL

\* The positions never leave the buffer.
THEOREM TypeCorrect == Spec => []TypeOK
BY Invariance, PTL DEF IInv
=============================================================================
