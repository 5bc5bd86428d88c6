------------------------------- MODULE Logger -------------------------------
(***************************************************************************)
(* The circular-buffer logger of src/Logger.cpp.                           *)
(*                                                                         *)
(* Bytes are abstracted to their serial number: the k-th byte stored since *)
(* the last clear() is the number k, so a cell of m_buffer tells which     *)
(* byte it holds and 0 is the memset value.  The text of a message is      *)
(* abstracted to its length.  What uart.print() makes of the bytes that    *)
(* flush() reads is left out.                                              *)
(***************************************************************************)
EXTENDS Integers, Sequences

CONSTANTS
    LOG_BUFFER_SIZE,  \* bytes in m_buffer (4096)
    MAX_LOG_MSG,      \* bytes in the msgBuffer of one message (256)
    MaxText,          \* bound: longest formatted text before "\r\n"
    MaxBytes          \* bound: bytes logged between two clear()s

\* The sizes the code relies on: one message fits into the buffer, and
\* "\r\n" into a message.
\* A text longer than MAX_LOG_MSG makes the size argument of the second
\* snprintf negative, which C leaves undefined: such texts are excluded.
ASSUME LoggerAssumption ==
    /\ LOG_BUFFER_SIZE \in Nat /\ MAX_LOG_MSG \in Nat
    /\ MaxText \in Nat /\ MaxBytes \in Nat
    /\ 3 <= MAX_LOG_MSG /\ MAX_LOG_MSG <= LOG_BUFFER_SIZE
    /\ MaxText <= MAX_LOG_MSG

VARIABLES
    m_buffer, m_writePos, m_readPos, m_bufferFull,  \* the static members
    total,   \* history: bytes stored since init() or clear()
    mark     \* history: value of total at the last init(), clear() or flush()

vars == <<m_buffer, m_writePos, m_readPos, m_bufferFull, total, mark>>

Cells == 0 .. LOG_BUFFER_SIZE - 1

-----------------------------------------------------------------------------
(* Formatting: what log() and _logWithLevel() hand to _write().            *)

\* A text of t characters gets "\r\n" appended; the length is clamped.
MsgLen(t) == IF t + 2 > MAX_LOG_MSG THEN MAX_LOG_MSG ELSE t + 2

-----------------------------------------------------------------------------
(* The buffer.                                                             *)

\* Mutant of Stored: the second memcpy starts again at data.
StoredFromStart(len) ==
    [i \in Cells |->
        IF i < m_writePos + len - LOG_BUFFER_SIZE THEN total + i + 1
        ELSE IF m_writePos <= i /\ i < m_writePos + len
        THEN total + (i - m_writePos) + 1
        ELSE m_buffer[i]]

\* Contents of m_buffer after _write() stored len bytes.
Stored(len) ==
    IF m_writePos + len >= LOG_BUFFER_SIZE
    THEN LET firstPart  == LOG_BUFFER_SIZE - m_writePos
             secondPart == len - firstPart
         IN  [i \in Cells |->
                IF i < secondPart THEN total + firstPart + i + 1
                ELSE IF i >= m_writePos THEN total + (i - m_writePos) + 1
                ELSE m_buffer[i]]
    ELSE [i \in Cells |->
                IF m_writePos <= i /\ i < m_writePos + len
                THEN total + (i - m_writePos) + 1
                ELSE m_buffer[i]]

\* Mutant of _write: > instead of >= decides whether to wrap.
_writeLateWrap(len) ==
    /\ m_buffer' = Stored(len)
    /\ \/ /\ m_writePos + len > LOG_BUFFER_SIZE
          /\ m_writePos' = len - (LOG_BUFFER_SIZE - m_writePos)
          /\ m_bufferFull' = TRUE
       \/ /\ m_writePos + len <= LOG_BUFFER_SIZE
          /\ m_writePos' = m_writePos + len
          /\ UNCHANGED m_bufferFull

\* Mutant of _write: an overflowing message is cut at the end of the buffer.
_writeCut(len) ==
    /\ m_buffer' = [i \in Cells |->
                      IF m_writePos <= i /\ i < m_writePos + len
                      THEN total + (i - m_writePos) + 1
                      ELSE m_buffer[i]]
    /\ \/ /\ m_writePos + len >= LOG_BUFFER_SIZE
          /\ m_writePos' = 0 /\ m_bufferFull' = TRUE
       \/ /\ m_writePos + len < LOG_BUFFER_SIZE
          /\ m_writePos' = m_writePos + len
          /\ UNCHANGED m_bufferFull

_write(len) ==
    /\ m_buffer' = Stored(len)
    /\ \/ /\ m_writePos + len >= LOG_BUFFER_SIZE
          /\ m_writePos' = len - (LOG_BUFFER_SIZE - m_writePos)
          /\ m_bufferFull' = TRUE
       \/ /\ m_writePos + len < LOG_BUFFER_SIZE
          /\ m_writePos' = m_writePos + len
          /\ UNCHANGED m_bufferFull

\* log(), error(), warn(), info() and debug(): format a text of t characters
\* and store it.  Reading is not affected: m_readPos stays where it is.
Log(t) ==
    /\ total + MsgLen(t) <= MaxBytes
    /\ _write(MsgLen(t))
    /\ total' = total + MsgLen(t)
    /\ UNCHANGED <<m_readPos, mark>>

\* Mutant of getUnreadCount: the positions alone decide.
UnreadIgnoresFull ==
    IF m_writePos >= m_readPos THEN m_writePos - m_readPos
    ELSE LOG_BUFFER_SIZE - m_readPos + m_writePos

getUnreadCount ==
    IF m_bufferFull THEN LOG_BUFFER_SIZE
    ELSE IF m_writePos >= m_readPos THEN m_writePos - m_readPos
    ELSE LOG_BUFFER_SIZE - m_readPos + m_writePos

\* The cells flush() visits, in the order it visits them.
FlushOrder ==
    IF m_bufferFull
    THEN [k \in 1 .. (LOG_BUFFER_SIZE - m_readPos) + m_writePos |->
             IF k <= LOG_BUFFER_SIZE - m_readPos
             THEN m_readPos + k - 1
             ELSE k - 1 - (LOG_BUFFER_SIZE - m_readPos)]
    ELSE IF m_readPos < m_writePos
    THEN [k \in 1 .. m_writePos - m_readPos |-> m_readPos + k - 1]
    ELSE << >>

flush ==
    \/ /\ getUnreadCount = 0            \* prints "--- No logs ---"
       /\ UNCHANGED vars
    \/ /\ getUnreadCount # 0
       /\ m_readPos' = m_writePos
       /\ m_bufferFull' = FALSE
       /\ mark' = total
       /\ UNCHANGED <<m_buffer, m_writePos, total>>

clear ==
    /\ m_writePos' = 0 /\ m_readPos' = 0 /\ m_bufferFull' = FALSE
    /\ m_buffer' = [i \in Cells |-> 0]
    /\ total' = 0 /\ mark' = 0

\* Static initialisation; init() establishes the same values again.
Init ==
    /\ m_writePos = 0 /\ m_readPos = 0 /\ m_bufferFull = FALSE
    /\ m_buffer = [i \in Cells |-> 0]
    /\ total = 0 /\ mark = 0

Next ==
    \/ \E t \in 0 .. MaxText : Log(t)
    \/ flush
    \/ clear

Spec == Init /\ [][Next]_vars

-----------------------------------------------------------------------------
(* Properties.                                                             *)

\* The positions stay inside m_buffer, so every memcpy of _write() does too.
TypeOK ==
    /\ m_buffer \in [Cells -> 0 .. MaxBytes]
    /\ m_writePos \in Cells /\ m_readPos \in Cells
    /\ m_bufferFull \in BOOLEAN
    /\ total \in 0 .. MaxBytes /\ mark \in 0 .. total

\* As long as no more than LOG_BUFFER_SIZE bytes are pending, the cells
\* flush() visits hold exactly the pending bytes, oldest first: the wrap of
\* _write() and the two loops of flush() agree on where the data is.
PendingKept ==
    total - mark <= LOG_BUFFER_SIZE =>
        /\ Len(FlushOrder) = total - mark
        /\ \A k \in 1 .. total - mark : m_buffer[FlushOrder[k]] = mark + k

\* Whatever was logged and flushed, the last LOG_BUFFER_SIZE bytes are in
\* m_buffer: the wrap of _write() overwrites nothing but the oldest bytes.
NewestKept ==
    \A s \in 1 .. total :
        s + LOG_BUFFER_SIZE > total => \E i \in Cells : m_buffer[i] = s

\* flush() answers "No logs" exactly when nothing was logged since the last
\* flush() or clear(), also after the write position has caught up with the
\* read position.
NoLogsIffNothingPending == (getUnreadCount = 0) <=> (total = mark)
=============================================================================
