-------------------------- MODULE KernelWakeProofs --------------------------
(***************************************************************************)
(* Proofs about Kernel, continued: no wakeup is lost, the highest ready    *)
(* task runs and no holder of a mutex is outranked by who waits for it.    *)
(* Three layers above KernelInv and ListInv, all without waits for a mutex *)
(* that expire:                                                            *)
(*                                                                         *)
(* WakeInv counts: for each side of each queue, as many callers are awake  *)
(* as the queue has items or free slots for, those included that the lock  *)
(* counter of an interrupt's post still owes; and a task between its last  *)
(* test of the queue and its sleep has been told the truth about the queue.*)
(*                                                                         *)
(* HeldInv: a holder knows of its mutex, a task that sleeps for a mutex    *)
(* has its alarm set to the end of its wait, a task about to sleep has the *)
(* time of now, and who holds no mutex is at its own priority.             *)
(*                                                                         *)
(* PrioInv: a switch is on its way to any task that outranks the current   *)
(* one, the holder of a mutex is raised to the priority of those that wait *)
(* for it, and while some wait for a free mutex, a task awake to take it   *)
(* runs at least at their priority.  It holds until the kernel forgets a   *)
(* switch: xQueueGenericSend() ignores that xTaskPriorityDisinherit() asks *)
(* for one if a task waits for the mutex.                                  *)
(***************************************************************************)
EXTENDS KernelProofs

-----------------------------------------------------------------------------
(* Who waits: the event lists as sets, and what leaves them.               *)

Sides == {"send", "recv"}
Waiting(s, q, side) == Range(EventList(s, q, side))

\* A list without tasks is the empty list.
LEMMA NobodyWaits ==
    ASSUME NEW s \in KRec, NEW q \in Queues, NEW side \in Sides
    PROVE  /\ EventList(s, q, side) \in Seq(Tasks)
           /\ EventList(s, q, side) = << >> <=> Waiting(s, q, side) = {}
           /\ Waiting(s, q, side) \subseteq Tasks
<1>1. PICK l \in Seq(Tasks) : l = EventList(s, q, side)
  BY DEF KRec, EventList, Sides
<1>2. l = << >> <=> Len(l) = 0
  BY EmptySeq
<1>3. Len(l) \in Nat /\ DOMAIN l = 1 .. Len(l) /\ \A i \in 1 .. Len(l) : l[i] \in Tasks
  OBVIOUS
<1>4. Len(l) = 0 <=> 1 .. Len(l) = {}
  BY <1>3
<1>5. (1 .. Len(l) = {} <=> Range(l) = {}) /\ Range(l) \subseteq Tasks
  BY <1>3 DEF Range
<1> QED BY <1>1, <1>2, <1>4, <1>5 DEF Waiting

\* The tasks of W no longer wait.
LEMMA FreedWaiting ==
    ASSUME NEW s, NEW r, NEW W, Freed(s, r, W)
    PROVE  \A q \in Queues : \A side \in Sides : Waiting(r, q, side) = Waiting(s, q, side) \ W
<1>1. SUFFICES ASSUME NEW q \in Queues, NEW side \in Sides
               PROVE  \A u : u \in Waiting(r, q, side) <=> u \in Waiting(s, q, side) /\ u \notin W
  OBVIOUS
<1> QED BY DEF Freed, Waiting, EventList, Sides

\* The tasks freed by two steps.
LEMMA FreedTwice ==
    ASSUME NEW s, NEW a, NEW r, NEW V, NEW W, Freed(s, a, V), Freed(a, r, W),
           \A u : u \in Asleep(r) => u \in Asleep(a)
    PROVE  Freed(s, r, V \cup W)
<1>1. \A q \in Queues : Thins(s.waitRecv[q], r.waitRecv[q])
  BY DEF Freed, Thins
<1> QED BY <1>1 DEF Freed

\* WakeOne() wakes the first task of a list that is not empty, and a switch to
\* it is pending if it outranks the current task.
Roused(s, r, t) ==
    /\ WokenUp(s, r, t)
    /\ r.pendsv = (s.pendsv \/ Outranks(s, t))

\* What WakeOne() does to the lists.
LEMMA WakeOneIs ==
    ASSUME NEW s, Sane(s), NEW q \in Queues, NEW side \in Sides
    PROVE  \/ WakeOne(s, q, side) = s /\ Waiting(s, q, side) = {}
           \/ /\ Woken(s, q, side) \in Tasks /\ Woken(s, q, side) \in Waiting(s, q, side)
              /\ Roused(s, WakeOne(s, q, side), Woken(s, q, side))
<1>1. s \in KRec
  BY DEF Sane
<1>2. CASE EventList(s, q, side) = << >>
  <2>1. WakeOne(s, q, side) = s
    BY <1>2, Zenon DEF WakeOne, EventList
  <2> QED BY <1>1, <1>2, <2>1, NobodyWaits
<1>3. CASE EventList(s, q, side) # << >>
  <2>1. PICK a : a = xTaskRemoveFromEventList(s, q, side)
    OBVIOUS
  <2>2. PICK t : t = Woken(s, q, side)
    OBVIOUS
  <2>3. /\ a \in KRec /\ a.pendsv = s.pendsv /\ WokenUp(s, a, t)
        /\ t \in Tasks /\ t \in Range(EventList(s, q, side))
    BY <1>1, <1>3, <2>1, <2>2, WakeIs DEF Sides
  <2>4. PICK x \in BOOLEAN : x = Outranks(s, t)
    <3>1. Outranks(s, t) \in BOOLEAN
      BY DEF Outranks
    <3> QED BY <3>1
  <2>5. PICK r : r = WakeOne(s, q, side)
    OBVIOUS
  <2>6. r = [a EXCEPT !.pendsv = a.pendsv \/ x]
    BY <1>3, <2>1, <2>2, <2>4, <2>5, Zenon DEF WakeOne, EventList
  <2>7. /\ SameEvents(a, r) /\ SameSleep(a, r) /\ SamePrio(a, r)
        /\ r.xYieldPending = a.xYieldPending /\ r.pendsv = (a.pendsv \/ x)
    BY <2>3, <2>6, PendIs
  <2>8. Freed(s, r, {t})
    BY <2>3, <2>7, FreedSame DEF WokenUp
  <2>9. Asleep(r) = Asleep(a)
    BY <2>7 DEF SameSleep, Asleep
  <2>10. WokenUp(s, r, t)
    BY <2>3, <2>7, <2>8, <2>9 DEF WokenUp
  <2>11. Roused(s, r, t)
    BY <2>3, <2>4, <2>7, <2>10 DEF Roused
  <2> QED BY <2>2, <2>3, <2>5, <2>11 DEF Waiting
<1> QED BY <1>2, <1>3

\* What waking receivers one by one does, with the scheduler suspended: the
\* tasks of T were woken, n of them if some still wait.
Awoken(s, r, q, n) ==
    /\ \E T \in SUBSET Waiting(s, q, "recv") :
          /\ Freed(s, r, T)
          /\ Waiting(r, q, "recv") # {} => IsFiniteSet(T) /\ Cardinality(T) = n
    /\ Asleep(r) = Asleep(s) /\ (s.xYieldPending => r.xYieldPending) /\ r.pendsv = s.pendsv

\* One receiver more is woken.
LEMMA AwokenStep ==
    ASSUME NEW s, NEW a, Sane(a), a.uxSchedulerSuspended, NEW q \in Queues, NEW n \in Nat,
           Awoken(s, a, q, n), NEW r, r = WakeStep(a, q)
    PROVE  Awoken(s, r, q, n + 1)
<1>1. a \in KRec
  BY DEF Sane
<1>2. PICK T \in SUBSET Waiting(s, q, "recv") :
         /\ Freed(s, a, T)
         /\ Waiting(a, q, "recv") # {} => IsFiniteSet(T) /\ Cardinality(T) = n
  BY DEF Awoken
<1>3. CASE a.waitRecv[q] = << >>
  <2>1. r = a
    BY <1>3 DEF WakeStep
  <2>2. Waiting(a, q, "recv") = {}
    BY <1>1, <1>3, NobodyWaits DEF EventList, Sides
  <2> QED BY <1>2, <2>1, <2>2 DEF Awoken
<1>4. CASE a.waitRecv[q] # << >>
  <2>1. r = xTaskRemoveFromEventList(a, q, "recv") /\ EventList(a, q, "recv") # << >>
    BY <1>4 DEF WakeStep, EventList
  <2>2. PICK t : t = Woken(a, q, "recv")
    OBVIOUS
  <2>3. r.pendsv = a.pendsv /\ WokenUp(a, r, t) /\ t \in Waiting(a, q, "recv")
    BY <1>1, <2>1, <2>2, WakeIs DEF Waiting
  <2>4. Freed(a, r, {t}) /\ Asleep(r) = Asleep(a) /\ (a.xYieldPending => r.xYieldPending)
    BY <2>3 DEF WokenUp
  <2>5. Freed(s, r, T \cup {t})
    BY <1>2, <2>4, FreedTwice
  <2>6. Waiting(a, q, "recv") = Waiting(s, q, "recv") \ T
    BY <1>2, FreedWaiting DEF Sides
  <2>7. T \cup {t} \in SUBSET Waiting(s, q, "recv") /\ t \notin T
    BY <2>3, <2>6
  <2>8. IsFiniteSet(T) /\ Cardinality(T) = n
    BY <1>2, <2>3
  <2>9. IsFiniteSet(T \cup {t}) /\ Cardinality(T \cup {t}) = n + 1
    BY <2>7, <2>8, FS_AddElement
  <2> QED BY <2>3, <2>4, <2>5, <2>7, <2>9 DEF Awoken
<1> QED BY <1>3, <1>4

\* prvUnlockQueue() wakes n receivers, or all.
LEMMA WakeReceiversFree ==
    ASSUME NEW s, Sane(s), s.uxSchedulerSuspended, NEW q \in Queues
    PROVE  \A n \in 0 .. MBOX_SIZE : Awoken(s, WakeReceivers(s, q)[n], q, n)
<1>1. MBOX_SIZE \in Nat
  BY Constants
<1>2. PICK W : W = WakeReceivers(s, q)
  OBVIOUS
<1>3. W[0] = s /\ \A i \in 1 .. MBOX_SIZE : W[i] = WakeStep(W[i - 1], q)
  BY <1>2, WakeReceiversAre
<1>4. \A i \in 0 .. MBOX_SIZE : Keeps(s, W[i])
  BY <1>2, WakeReceiversKeeps
<1> DEFINE P == {i \in 0 .. MBOX_SIZE : Awoken(s, W[i], q, i)}
<1>5. 0 \in P
  <2>1. SameEvents(s, s) /\ SameSleep(s, s) /\ SamePrio(s, s)
    BY DEF SameEvents, SameSleep, SamePrio
  <2>2. Freed(s, s, {})
    BY <2>1, FreedNobody
  <2>3. IsFiniteSet({}) /\ Cardinality({}) = 0
    BY FS_EmptySet
  <2>4. Awoken(s, s, q, 0)
    BY <2>2, <2>3 DEF Awoken
  <2> QED BY <1>1, <1>3, <2>4
<1>6. ASSUME NEW i \in 1 .. MBOX_SIZE, i - 1 \in P PROVE i \in P
  <2>1. Awoken(s, W[i - 1], q, i - 1) /\ i \in 0 .. MBOX_SIZE /\ i - 1 \in 0 .. MBOX_SIZE /\ i - 1 \in Nat
    BY <1>1, <1>6
  <2>2. Sane(W[i - 1]) /\ W[i - 1].uxSchedulerSuspended
    BY <1>4, <2>1 DEF Keeps, SameTask
  <2>3. PICK j \in Nat : j = i - 1
    BY <2>1
  <2>4. PICK a : a = W[i - 1]
    OBVIOUS
  <2>5. Awoken(s, W[i], q, j + 1)
    <3>1. Awoken(s, a, q, j) /\ Sane(a) /\ a.uxSchedulerSuspended /\ W[i] = WakeStep(a, q)
      BY <1>3, <2>1, <2>2, <2>3, <2>4
    <3> QED BY <3>1, AwokenStep
  <2>6. j + 1 = i
    BY <2>1, <2>3
  <2> QED BY <2>1, <2>5, <2>6
<1> HIDE DEF P
<1>7. \A i \in 0 .. MBOX_SIZE : i \in P
  BY <1>1, <1>5, <1>6, UpTo
<1> QED BY <1>2, <1>7 DEF P

\* Initial pieces of the numbers up to n.
LEMMA InitialPiece ==
    ASSUME NEW n \in Nat, NEW A \in SUBSET (1 .. n), \A i \in A : \A j \in 1 .. i : j \in A
    PROVE  A = 1 .. Cardinality(A) /\ Cardinality(A) \in 0 .. n
<1>1. IsFiniteSet(A)
  <2>1. IsFiniteSet(1 .. n)
    BY FS_Interval
  <2> QED BY <2>1, FS_Subset
<1>2. CASE A = {}
  <2>1. Cardinality(A) = 0
    BY <1>2, FS_EmptySet
  <2> QED BY <1>2, <2>1
<1>3. CASE A # {}
  <2>1. A \subseteq Nat
    OBVIOUS
  <2>2. PICK m : m = Max(A)
    OBVIOUS
  <2>3. m \in A /\ \A y \in A : y <= m
    BY <1>1, <1>3, <2>1, <2>2, MaxIn
  <2>4. m \in 1 .. n /\ A = 1 .. m
    <3>1. m \in 1 .. n
      BY <2>3
    <3>2. \A j \in 1 .. m : j \in A
      BY <2>3
    <3>3. \A y \in A : y \in 1 .. m
      BY <2>3, <3>1
    <3> QED BY <3>1, <3>2, <3>3
  <2>5. Cardinality(1 .. m) = m
    BY <2>4, FS_Interval
  <2> QED BY <2>4, <2>5
<1> QED BY <1>2, <1>3

\* A task enters a list, and the order is kept.
LEMMA InsertSorted ==
    ASSUME NEW s, NEW p, p = s.uxPriority, \A u \in Tasks : p[u] \in Nat /\ p[u] >= Base[u],
           NEW l \in Seq(Tasks), NEW t \in Tasks, Sorted(p, l)
    PROVE  Sorted(p, InsertByPriority(s, l, t))
<1> DEFINE A == {i \in DOMAIN l : \A j \in 1 .. i : s.uxPriority[l[j]] >= s.uxPriority[t]}
<1>1. PICK n \in Nat : n = Len(l) /\ DOMAIN l = 1 .. n
  OBVIOUS
<1>2. \A i \in 1 .. n : l[i] \in Tasks
  BY <1>1
<1>3. \A u \in Tasks : Base[u] \in Nat
  BY Constants
<1>4. A \in SUBSET (1 .. n) /\ \A i \in A : \A j \in 1 .. i : j \in A
  BY <1>1
<1>5. ASSUME NEW i \in A PROVE p[l[i]] >= Base[t]
  <2>1. i \in 1 .. n /\ i \in 1 .. i
    BY <1>1
  <2>2. p[l[i]] >= p[t]
    BY <1>5, <2>1
  <2>3. p[l[i]] \in Nat /\ p[t] \in Nat /\ Base[t] \in Nat /\ p[t] >= Base[t]
    BY <1>2, <1>3, <2>1
  <2> QED BY <2>2, <2>3
<1>6. ASSUME NEW i \in 1 .. n, i \notin A PROVE p[t] >= Base[l[i]]
  <2>1. PICK j \in 1 .. i : ~(s.uxPriority[l[j]] >= s.uxPriority[t])
    BY <1>1, <1>6
  <2>2. j \in 1 .. n /\ i \in Nat /\ j \in Nat /\ (j < i \/ j = i)
    OBVIOUS
  <2>3. p[l[j]] >= Base[l[i]]
    BY <1>1, <1>2, <2>2 DEF Sorted
  <2>4. ~(p[l[j]] >= p[t]) /\ p[l[j]] \in Nat /\ Base[l[i]] \in Nat /\ p[t] \in Nat
    BY <1>2, <1>3, <2>1, <2>2
  <2> QED BY <2>3, <2>4
<1>7. PICK m \in 0 .. n : m = Cardinality(A) /\ A = 1 .. m
  <2> HIDE DEF A
  <2> QED BY <1>4, InitialPiece
<1>8. InsertByPriority(s, l, t) = SubSeq(l, 1, m) \o <<t>> \o SubSeq(l, m + 1, Len(l))
  BY <1>7, Zenon DEF InsertByPriority
<1>9. (\A i \in 1 .. m : p[l[i]] >= Base[t]) /\ \A i \in m + 1 .. n : p[t] >= Base[l[i]]
  <2> HIDE DEF A
  <2>1. \A i \in 1 .. m : p[l[i]] >= Base[t]
    BY <1>5, <1>7
  <2>2. ASSUME NEW i \in m + 1 .. n PROVE p[t] >= Base[l[i]]
    <3>1. m \in Nat /\ i \in 1 .. n /\ i \notin 1 .. m
      OBVIOUS
    <3> QED BY <1>6, <1>7, <3>1
  <2> QED BY <2>1, <2>2
<1> HIDE DEF A
<1>10. PICK u \in Seq(Tasks) : u = SubSeq(l, 1, m) /\ Len(u) = m /\ \A i \in 1 .. m : u[i] = l[i]
  <2>1. m \in Nat /\ m <= Len(l) /\ \A i \in 1 .. m : l[i] \in Tasks
    BY <1>1, <1>2
  <2>2. SubSeq(l, 1, m) \in Seq(Tasks) /\ Len(SubSeq(l, 1, m)) = m /\ \A i \in 1 .. m : SubSeq(l, 1, m)[i] = l[i]
    BY <2>1
  <2> QED BY <2>2
<1>11. PICK v \in Seq(Tasks) : v = SubSeq(l, m + 1, Len(l)) /\ Len(v) = n - m
                               /\ \A i \in 1 .. n - m : v[i] = l[m + i]
  <2>1. m + 1 \in Int /\ Len(l) \in Int /\ \A i \in m + 1 .. Len(l) : l[i] \in Tasks
    BY <1>1
  <2>2. /\ SubSeq(l, m + 1, Len(l)) \in Seq(Tasks)
        /\ Len(SubSeq(l, m + 1, Len(l))) = IF m + 1 <= Len(l) THEN Len(l) - (m + 1) + 1 ELSE 0
        /\ \A i \in 1 .. Len(l) - (m + 1) + 1 : SubSeq(l, m + 1, Len(l))[i] = l[m + 1 + i - 1]
    BY <2>1, SubSeqProperties
  <2>3. PICK v \in Seq(Tasks) : v = SubSeq(l, m + 1, Len(l))
    BY <2>2
  <2>4. Len(v) = (IF m + 1 <= n THEN n - (m + 1) + 1 ELSE 0)
        /\ \A i \in 1 .. n - (m + 1) + 1 : v[i] = l[m + 1 + i - 1]
    BY <1>1, <2>2, <2>3
  <2>5. m \in Nat /\ m <= n
    OBVIOUS
  <2>6. Len(v) = n - m
    BY <2>4, <2>5
  <2>7. ASSUME NEW i \in 1 .. n - m PROVE v[i] = l[m + i]
    <3>1. i \in 1 .. n - (m + 1) + 1 /\ m + 1 + i - 1 = m + i
      BY <2>5
    <3> QED BY <2>4, <3>1
  <2> QED BY <2>3, <2>6, <2>7
<1>12. PICK w \in Seq(Tasks) : w = u \o <<t>> /\ Len(w) = m + 1 /\ w[m + 1] = t /\ \A i \in 1 .. m : w[i] = u[i]
  <2>1. PICK e \in Seq(Tasks) : e = <<t>> /\ Len(e) = 1 /\ e[1] = t
    <3>1. <<t>> \in Seq(Tasks) /\ Len(<<t>>) = 1 /\ <<t>>[1] = t
      OBVIOUS
    <3> QED BY <3>1
  <2>2. /\ u \o e \in Seq(Tasks) /\ Len(u \o e) = Len(u) + Len(e)
        /\ \A i \in 1 .. Len(u) + Len(e) : (u \o e)[i] = IF i <= Len(u) THEN u[i] ELSE e[i - Len(u)]
    BY ConcatProperties
  <2>3. PICK w \in Seq(Tasks) : w = u \o e
    BY <2>2
  <2>4. Len(w) = m + 1 /\ \A i \in 1 .. m + 1 : w[i] = IF i <= m THEN u[i] ELSE e[i - m]
    BY <1>10, <2>1, <2>2, <2>3
  <2>5. m \in Nat /\ ~(m + 1 <= m) /\ (m + 1) - m = 1 /\ m + 1 \in 1 .. m + 1
    OBVIOUS
  <2>6. w[m + 1] = t
    BY <2>1, <2>4, <2>5
  <2>7. \A i \in 1 .. m : w[i] = u[i]
    BY <2>4, <2>5
  <2> QED BY <2>1, <2>3, <2>4, <2>6, <2>7
<1>13. PICK x \in Seq(Tasks) : /\ x = w \o v /\ Len(x) = n + 1 /\ \A i \in 1 .. m + 1 : x[i] = w[i]
                               /\ \A i \in m + 2 .. n + 1 : x[i] = v[i - (m + 1)]
  <2>1. /\ w \o v \in Seq(Tasks) /\ Len(w \o v) = Len(w) + Len(v)
        /\ \A i \in 1 .. Len(w) + Len(v) : (w \o v)[i] = IF i <= Len(w) THEN w[i] ELSE v[i - Len(w)]
    BY ConcatProperties
  <2>2. PICK x \in Seq(Tasks) : x = w \o v
    BY <2>1
  <2>3. m \in Nat /\ m <= n /\ (m + 1) + (n - m) = n + 1
    OBVIOUS
  <2>4. Len(x) = n + 1 /\ \A i \in 1 .. n + 1 : x[i] = IF i <= m + 1 THEN w[i] ELSE v[i - (m + 1)]
    BY <1>11, <1>12, <2>1, <2>2, <2>3
  <2>5. \A i \in 1 .. m + 1 : x[i] = w[i]
    BY <2>3, <2>4
  <2>6. \A i \in m + 2 .. n + 1 : x[i] = v[i - (m + 1)]
    BY <2>3, <2>4
  <2> QED BY <2>2, <2>4, <2>5, <2>6
<1>14. x = InsertByPriority(s, l, t)
  BY <1>8, <1>10, <1>11, <1>12, <1>13
<1>15. /\ DOMAIN x = 1 .. n + 1 /\ x[m + 1] = t /\ \A i \in 1 .. m : x[i] = l[i]
       /\ \A i \in m + 2 .. n + 1 : i - 1 \in m + 1 .. n /\ x[i] = l[i - 1]
  <2>1. DOMAIN x = 1 .. n + 1 /\ x[m + 1] = t /\ \A i \in 1 .. m : x[i] = l[i]
    BY <1>10, <1>12, <1>13
  <2>2. ASSUME NEW i \in m + 2 .. n + 1 PROVE i - 1 \in m + 1 .. n /\ x[i] = l[i - 1]
    <3>1. i - (m + 1) \in 1 .. n - m /\ m + (i - (m + 1)) = i - 1 /\ i - 1 \in m + 1 .. n
      OBVIOUS
    <3> QED BY <1>11, <1>13, <3>1
  <2> QED BY <2>1, <2>2
<1>16. ASSUME NEW i \in 1 .. n + 1, NEW j \in 1 .. n + 1, i < j PROVE p[x[i]] >= Base[x[j]]
  <2>1. \A a \in 1 .. n : \A b \in 1 .. n : a < b => p[l[a]] >= Base[l[b]]
    BY <1>1 DEF Sorted
  <2>4. m \in Nat /\ m <= n
    OBVIOUS
  <2>5. CASE i <= m /\ j <= m
    <3>1. x[i] = l[i] /\ x[j] = l[j] /\ i \in 1 .. n /\ j \in 1 .. n
      BY <1>15, <2>4, <2>5
    <3> QED BY <1>16, <2>1, <3>1
  <2>6. CASE i <= m /\ j = m + 1
    BY <1>9, <1>15, <2>6, SMTT(60)
  <2>7. CASE i <= m /\ j > m + 1
    <3>1. x[i] = l[i] /\ x[j] = l[j - 1] /\ i \in 1 .. n /\ j - 1 \in 1 .. n /\ i < j - 1
      BY <1>15, <2>4, <2>7
    <3> QED BY <2>1, <3>1
  <2>8. CASE i = m + 1 /\ j > m + 1
    <3>1. x[i] = t /\ x[j] = l[j - 1] /\ j - 1 \in m + 1 .. n
      BY <1>15, <2>4, <2>8
    <3> QED BY <1>9, <3>1
  <2>9. CASE i > m + 1
    <3>1. x[i] = l[i - 1] /\ x[j] = l[j - 1] /\ i - 1 \in 1 .. n /\ j - 1 \in 1 .. n /\ i - 1 < j - 1
      BY <1>15, <1>16, <2>4, <2>9
    <3> QED BY <2>1, <3>1
  <2> QED BY <1>16, <2>4, <2>5, <2>6, <2>7, <2>8, <2>9
<1>17. Sorted(p, x)
  BY <1>15, <1>16 DEF Sorted
<1> QED BY <1>14, <1>17

\* A tick frees tasks whose wait ended, and a switch is due to a task that now
\* outranks the current one.
Chimed(s, r) ==
    /\ \E W \in SUBSET Asleep(s) :
          /\ Freed(s, r, W)
          /\ Sound(s) => \A t \in W : \A l \in Locals : Alarm(s, t, l) => ~Fresh(s, l, 1)
    /\ Leads(s) => r.pendsv \/ Leads(r)

\* What a tick does to who waits and who leads.
LEMMA TickFrees ==
    ASSUME NEW s, Sane(s), ~s.uxSchedulerSuspended, NEW r, r = WholeTick(s)
    PROVE  Chimed(s, r)
<1>1. s \in KRec /\ Raised(s) /\ s.xPendingReadyList = << >>
  BY DEF Sane, Flushed
<1>2. PICK a : a = xTaskIncrementTick(s)
  OBVIOUS
<1>3. a \in KRec /\ Rung(s, a, 1)
  BY <1>1, <1>2, IncrementIs DEF Ticked
<1>4. r = [a EXCEPT !.pendsv = a.pendsv \/ a.switch, !.switch = FALSE]
  BY <1>2 DEF WholeTick
<1>5. /\ SameEvents(a, r) /\ SameSleep(a, r) /\ SamePrio(a, r) /\ SameTask(a, r) /\ (a.switch => r.pendsv)
  BY <1>3, <1>4 DEF KRec, SameEvents, SameSleep, SamePrio, SameTask
<1>6. PICK W \in SUBSET Asleep(s) :
         /\ Freed(s, a, W)
         /\ Sound(s) => \A t \in W : \A l \in Locals : Alarm(s, t, l) => ~Fresh(s, l, 1)
  BY <1>1, <1>3 DEF Rung
<1>7. Freed(s, r, W)
  BY <1>5, <1>6, FreedSame
<1>8. Leads(a) => Leads(r)
  BY <1>5, LeadsSame DEF SameTask
<1>9. Leads(s) => a.switch \/ Leads(a)
  BY <1>3 DEF Rung
<1> QED BY <1>5, <1>6, <1>7, <1>8, <1>9 DEF Chimed

\* A tick while the scheduler is suspended wakes nobody.
LEMMA PendTickFrees ==
    ASSUME NEW s, Sane(s), NEW r, r = PendedTick(s)
    PROVE  /\ SameEvents(s, r) /\ SameSleep(s, r) /\ SamePrio(s, r) /\ SameTask(s, r)
           /\ r.xYieldPending = s.xYieldPending
BY DEF Sane, PendedTick, KRec, SameEvents, SameSleep, SamePrio, SameTask

\* A switch wakes nobody.
LEMMA SwitchFrees ==
    ASSUME NEW s, Sane(s), NEW t, NEW y, NEW r, r = Chosen(s, t, y)
    PROVE  SameEvents(s, r) /\ SameSleep(s, r) /\ SamePrio(s, r) /\ r.xYieldPending = y
BY DEF Sane, Chosen, KRec, SameEvents, SameSleep, SamePrio

-----------------------------------------------------------------------------
(* The third layer: no wakeup is lost                                      *)

\* A task in call c with result r is in a call on one side of queue q, and not
\* yet served.
InCall(c, r, q, side) ==
    /\ c.op \notin {"none", "delay"} /\ r = Pending
    /\ q = IF c.op \in {"lock", "unlock"} THEN c.mutex ELSE mbox
    /\ side = IF c.op \in {"post", "trypost", "unlock"} THEN "send" ELSE "recv"
Calling(cl, rt, q, side) == {t \in Tasks : InCall(cl[t], rt[t], q, side)}

\* The callers that are not in the event list, and what the queue has for them:
\* items or free slots, those that prvUnlockQueue() will announce left out.
Up(s, cl, rt, q, side) == Calling(cl, rt, q, side) \ Waiting(s, q, side)
Owed(n, c, q, side) ==
    IF side = "send" THEN uxLength(q) - n[q]
    ELSE n[q] - (IF c[q] = queueUNLOCKED THEN 0 ELSE c[q])

\* With o items or slots for them, enough callers are up while others wait.
Serves(s, cl, rt, o, q, side) ==
    /\ Waiting(s, q, side) \subseteq Calling(cl, rt, q, side)
    /\ Waiting(s, q, side) # {} => o <= Cardinality(Up(s, cl, rt, q, side))

\* Nobody waits to give a mutex.
NoGivers(s) == \A m \in Mutexes : Waiting(s, m, "send") = {}

ServeInv == \A q \in Queues : \A side \in Sides :
                Serves(k, call, ret, Owed(uxMessagesWaiting, cTxLock, q, side), q, side)

\* A task that is about to sleep found nothing.
Tested == pc[cur] = "place" => Owed(uxMessagesWaiting, cTxLock, Target(cur), Side(cur)) <= 0

WakeInv == ServeInv /\ NoGivers(k) /\ Tested

\* Callers can be counted.
LEMMA UpCount ==
    ASSUME NEW s, NEW cl, NEW rt, NEW q, NEW side
    PROVE  /\ IsFiniteSet(Up(s, cl, rt, q, side))
           /\ Cardinality(Up(s, cl, rt, q, side)) \in Nat
<1>1. Up(s, cl, rt, q, side) \subseteq Tasks
  BY DEF Up, Calling
<1>2. IsFiniteSet(Tasks)
  BY KernelAssumption
<1>3. IsFiniteSet(Up(s, cl, rt, q, side))
  BY <1>1, <1>2, FS_Subset
<1> QED BY <1>3, FS_CardinalityType

\* Fewer tasks wait, no caller left, and there is not more for them.
LEMMA ServesQuiet ==
    ASSUME NEW s, NEW r, NEW cl, NEW rt, NEW c2, NEW r2, NEW o \in Int, NEW o2 \in Int,
           NEW q, NEW side, Serves(s, cl, rt, o, q, side), o2 <= o,
           Waiting(r, q, side) \subseteq Waiting(s, q, side),
           \A u \in Tasks : InCall(cl[u], rt[u], q, side) => InCall(c2[u], r2[u], q, side)
    PROVE  Serves(r, c2, r2, o2, q, side)
<1>1. Calling(cl, rt, q, side) \subseteq Calling(c2, r2, q, side)
  BY DEF Calling
<1>2. Waiting(r, q, side) \subseteq Calling(c2, r2, q, side)
  BY <1>1 DEF Serves
<1>3. ASSUME Waiting(r, q, side) # {}
      PROVE  o2 <= Cardinality(Up(r, c2, r2, q, side))
  <2>1. o <= Cardinality(Up(s, cl, rt, q, side))
    BY <1>3 DEF Serves
  <2>2. Up(s, cl, rt, q, side) \subseteq Up(r, c2, r2, q, side)
    BY <1>1 DEF Up
  <2>3. IsFiniteSet(Up(r, c2, r2, q, side))
    BY UpCount
  <2>4. Cardinality(Up(s, cl, rt, q, side)) <= Cardinality(Up(r, c2, r2, q, side))
    BY <2>2, <2>3, FS_Subset
  <2>5. Cardinality(Up(s, cl, rt, q, side)) \in Nat /\ Cardinality(Up(r, c2, r2, q, side)) \in Nat
    BY UpCount
  <2> QED BY <2>1, <2>4, <2>5
<1> QED BY <1>2, <1>3 DEF Serves

\* Nothing is there for them.
LEMMA ServesNothing ==
    ASSUME NEW r, NEW cl, NEW rt, NEW o \in Int, NEW q, NEW side, o <= 0,
           Waiting(r, q, side) \subseteq Calling(cl, rt, q, side)
    PROVE  Serves(r, cl, rt, o, q, side)
<1>1. Cardinality(Up(r, cl, rt, q, side)) \in Nat
  BY UpCount
<1> QED BY <1>1 DEF Serves

\* A caller t is served and takes what was for it.
LEMMA ServesLeave ==
    ASSUME NEW s, NEW r, NEW cl, NEW rt, NEW c2, NEW r2, NEW o \in Int, NEW o2 \in Int,
           NEW q, NEW side, Serves(s, cl, rt, o, q, side), o2 = o - 1, NEW t,
           t \in Up(s, cl, rt, q, side), Waiting(r, q, side) \subseteq Waiting(s, q, side),
           \A u \in Tasks \ {t} : InCall(cl[u], rt[u], q, side) => InCall(c2[u], r2[u], q, side)
    PROVE  Serves(r, c2, r2, o2, q, side)
<1>1. Calling(cl, rt, q, side) \ {t} \subseteq Calling(c2, r2, q, side)
  BY DEF Calling
<1>2. t \notin Waiting(s, q, side)
  BY DEF Up
<1>3. Waiting(r, q, side) \subseteq Calling(c2, r2, q, side)
  BY <1>1, <1>2 DEF Serves
<1>4. ASSUME Waiting(r, q, side) # {}
      PROVE  o2 <= Cardinality(Up(r, c2, r2, q, side))
  <2>1. o <= Cardinality(Up(s, cl, rt, q, side))
    BY <1>4 DEF Serves
  <2>2. PICK A : A = Up(s, cl, rt, q, side)
    OBVIOUS
  <2>3. PICK B : B = Up(r, c2, r2, q, side)
    OBVIOUS
  <2>4. A \ {t} \subseteq B
    BY <1>1, <2>2, <2>3 DEF Up
  <2>5. IsFiniteSet(A) /\ IsFiniteSet(B) /\ t \in A /\ Cardinality(A) \in Nat /\ Cardinality(B) \in Nat
    BY <2>2, <2>3, UpCount
  <2>6. Cardinality(A \ {t}) = Cardinality(A) - 1
    BY <2>5, FS_RemoveElement
  <2>7. Cardinality(A \ {t}) <= Cardinality(B)
    BY <2>4, <2>5, FS_Subset
  <2> QED BY <2>1, <2>2, <2>3, <2>5, <2>6, <2>7
<1> QED BY <1>3, <1>4 DEF Serves

\* m more items come, and m of those that waited are woken, or all.
LEMMA ServesWake ==
    ASSUME NEW s, NEW r, NEW cl, NEW rt, NEW c2, NEW r2, NEW o \in Int, NEW o2 \in Int, NEW m \in Nat,
           NEW q, NEW side, Serves(s, cl, rt, o, q, side), o2 <= o + m,
           NEW T, T \subseteq Waiting(s, q, side), Waiting(r, q, side) = Waiting(s, q, side) \ T,
           Waiting(r, q, side) # {} => IsFiniteSet(T) /\ Cardinality(T) = m,
           \A u \in Tasks : InCall(cl[u], rt[u], q, side) => InCall(c2[u], r2[u], q, side)
    PROVE  Serves(r, c2, r2, o2, q, side)
<1>1. Calling(cl, rt, q, side) \subseteq Calling(c2, r2, q, side)
  BY DEF Calling
<1>2. Waiting(r, q, side) \subseteq Calling(c2, r2, q, side)
  BY <1>1 DEF Serves
<1>3. ASSUME Waiting(r, q, side) # {}
      PROVE  o2 <= Cardinality(Up(r, c2, r2, q, side))
  <2>1. o <= Cardinality(Up(s, cl, rt, q, side)) /\ IsFiniteSet(T) /\ Cardinality(T) = m
    BY <1>3 DEF Serves
  <2>2. PICK A : A = Up(s, cl, rt, q, side)
    OBVIOUS
  <2>3. PICK B : B = Up(r, c2, r2, q, side)
    OBVIOUS
  <2>4. A \cup T \subseteq B /\ A \cap T = {}
    BY <1>1, <2>2, <2>3 DEF Up, Serves
  <2>5. IsFiniteSet(A) /\ IsFiniteSet(B) /\ Cardinality(A) \in Nat /\ Cardinality(B) \in Nat
    BY <2>2, <2>3, UpCount
  <2>6. Cardinality(A \cup T) = Cardinality(A) + Cardinality(T) - Cardinality(A \cap T)
    BY <2>1, <2>5, FS_Union
  <2>7. Cardinality(A \cap T) = 0
    BY <2>4, FS_EmptySet
  <2>8. Cardinality(A \cup T) <= Cardinality(B)
    BY <2>4, <2>5, FS_Subset
  <2> QED BY <2>1, <2>2, <2>3, <2>5, <2>6, <2>7, <2>8
<1> QED BY <1>2, <1>3 DEF Serves

\* What a queue owes is a number.
LEMMA OwedIs ==
    ASSUME NEW n \in [Queues -> Int], NEW c \in [Queues -> Int], NEW q \in Queues, NEW side
    PROVE  /\ Owed(n, c, q, side) \in Int
           /\ side = "send" => Owed(n, c, q, side) = uxLength(q) - n[q]
           /\ side # "send" /\ c[q] = queueUNLOCKED => Owed(n, c, q, side) = n[q]
           /\ side # "send" /\ c[q] # queueUNLOCKED => Owed(n, c, q, side) = n[q] - c[q]
<1>1. uxLength(q) \in Nat /\ n[q] \in Int /\ c[q] \in Int
  BY Constants DEF uxLength
<1> QED BY <1>1 DEF Owed

\* The call of a task, in terms of the queue it is about.
LEMMA InCallOf ==
    ASSUME NEW t \in Tasks, NEW q, NEW side
    PROVE  InCall(call[t], ret[t], q, side) <=>
               /\ call[t].op \notin {"none", "delay"} /\ ret[t] = Pending
               /\ q = Target(t) /\ side = Side(t)
BY DEF InCall, Target, Side, Posting

\* The call of the task that moves, and of the others.
LEMMA CallsMove ==
    ASSUME CallTypes, NEW t \in Tasks, NEW p, NEW c, NEW r, NEW l, Moves(t, p, c, r, l)
    PROVE  /\ pc'[t] = p /\ call'[t] = c /\ ret'[t] = r /\ loc'[t] = l
           /\ \A u \in Tasks \ {t} : pc'[u] = pc[u] /\ call'[u] = call[u] /\ ret'[u] = ret[u] /\ loc'[u] = loc[u]
BY Constants DEF CallTypes, Moves

\* Nobody begins to wait.
NoMoreWait(s, r) == \A q \in Queues : \A side \in Sides : Waiting(r, q, side) \subseteq Waiting(s, q, side)

\* Nobody leaves a call.
SameCalls(cl, rt, c2, r2) ==
    \A u \in Tasks : \A q \in Queues : \A side \in Sides :
        InCall(cl[u], rt[u], q, side) => InCall(c2[u], r2[u], q, side)

\* Of those who wait on one side of q, m are woken, or all.
Frees(s, r, q, side, m) ==
    \E T \in SUBSET Waiting(s, q, side) :
        /\ \A x \in Queues : \A y \in Sides : Waiting(r, x, y) = Waiting(s, x, y) \ T
        /\ Waiting(r, q, side) # {} => IsFiniteSet(T) /\ Cardinality(T) = m

\* The events lists are the same.
LEMMA SameWaiting ==
    ASSUME NEW s, NEW r, SameEvents(s, r)
    PROVE  NoMoreWait(s, r) /\ \A q \in Queues : \A side \in Sides : Waiting(r, q, side) = Waiting(s, q, side)
BY DEF SameEvents, NoMoreWait, Waiting, EventList

\* Freed tasks no longer wait.
LEMMA FreedNoMore ==
    ASSUME NEW s, NEW r, NEW W, Freed(s, r, W)
    PROVE  NoMoreWait(s, r)
BY FreedWaiting DEF NoMoreWait

\* WakeOne() wakes one task, if any waits.
LEMMA WakeOneFrees ==
    ASSUME NEW s, Sane(s), NEW q \in Queues, NEW side \in Sides
    PROVE  Frees(s, WakeOne(s, q, side), q, side, 1)
<1>1. PICK r : r = WakeOne(s, q, side)
  OBVIOUS
<1>2. PICK t : t = Woken(s, q, side)
  OBVIOUS
<1>3. \/ r = s /\ Waiting(s, q, side) = {}
      \/ t \in Waiting(s, q, side) /\ Freed(s, r, {t})
  BY <1>1, <1>2, WakeOneIs DEF Roused, WokenUp
<1>4. CASE r = s /\ Waiting(s, q, side) = {}
  BY <1>1, <1>4 DEF Frees
<1>5. CASE t \in Waiting(s, q, side) /\ Freed(s, r, {t})
  <2>1. \A x \in Queues : \A y \in Sides : Waiting(r, x, y) = Waiting(s, x, y) \ {t}
    BY <1>5, FreedWaiting
  <2>2. IsFiniteSet({t}) /\ Cardinality({t}) = 1
    BY FS_Singleton
  <2> QED BY <1>1, <1>5, <2>1, <2>2 DEF Frees
<1> QED BY <1>3, <1>4, <1>5

\* The numbers of the queues, before and after a step.
LEMMA Numbers ==
    ASSUME QueueTypes, NEW q \in Queues, NEW side \in Sides
    PROVE  Owed(uxMessagesWaiting, cTxLock, q, side) \in Int
<1>1. uxMessagesWaiting \in [Queues -> Int] /\ cTxLock \in [Queues -> Int]
  BY DEF QueueTypes
<1> QED BY <1>1, OwedIs

\* A step that serves nobody.
LEMMA QuietServe ==
    ASSUME QueueTypes, QueueTypes', WakeInv, NoMoreWait(k, k'), SameCalls(call, ret, call', ret'),
           \A q \in Queues : \A side \in Sides :
               Owed(uxMessagesWaiting', cTxLock', q, side) <= Owed(uxMessagesWaiting, cTxLock, q, side)
    PROVE  ServeInv' /\ NoGivers(k')
<1>1. ASSUME NEW q \in Queues, NEW side \in Sides
      PROVE  Serves(k', call', ret', Owed(uxMessagesWaiting', cTxLock', q, side), q, side)
  <2>1. PICK o \in Int : o = Owed(uxMessagesWaiting, cTxLock, q, side)
    BY Numbers
  <2>2. PICK o2 \in Int : o2 = Owed(uxMessagesWaiting', cTxLock', q, side)
    <3>1. uxMessagesWaiting' \in [Queues -> Int] /\ cTxLock' \in [Queues -> Int]
      BY DEF QueueTypes
    <3> QED BY <3>1, OwedIs
  <2>3. Serves(k, call, ret, o, q, side) /\ o2 <= o
    BY <2>1, <2>2 DEF WakeInv, ServeInv
  <2>4. Waiting(k', q, side) \subseteq Waiting(k, q, side)
    BY DEF NoMoreWait
  <2>5. \A u \in Tasks : InCall(call[u], ret[u], q, side) => InCall(call'[u], ret'[u], q, side)
    BY DEF SameCalls
  <2>6. Serves(k', call', ret', o2, q, side)
    BY <2>3, <2>4, <2>5, ServesQuiet
  <2> QED BY <2>2, <2>6
<1>2. ServeInv'
  BY <1>1 DEF ServeInv
<1>3. NoGivers(k')
  <2>1. \A m \in Mutexes : m \in Queues /\ "send" \in Sides
    BY DEF Queues, Sides
  <2> QED BY <2>1 DEF WakeInv, NoGivers, NoMoreWait
<1> QED BY <1>2, <1>3

\* A step that brings m items or slots to one side of q and wakes as many.
LEMMA WakeServe ==
    ASSUME QueueTypes, QueueTypes', WakeInv, NEW q \in Queues, NEW side \in Sides, NEW m \in Nat,
           Frees(k, k', q, side, m), SameCalls(call, ret, call', ret'),
           Owed(uxMessagesWaiting', cTxLock', q, side) <= Owed(uxMessagesWaiting, cTxLock, q, side) + m,
           \A x \in Queues : \A y \in Sides : x # q \/ y # side =>
               Owed(uxMessagesWaiting', cTxLock', x, y) <= Owed(uxMessagesWaiting, cTxLock, x, y)
    PROVE  ServeInv' /\ NoGivers(k')
<1>1. PICK T \in SUBSET Waiting(k, q, side) :
         /\ \A x \in Queues : \A y \in Sides : Waiting(k', x, y) = Waiting(k, x, y) \ T
         /\ Waiting(k', q, side) # {} => IsFiniteSet(T) /\ Cardinality(T) = m
  BY DEF Frees
<1>2. ASSUME NEW x \in Queues, NEW y \in Sides
      PROVE  Serves(k', call', ret', Owed(uxMessagesWaiting', cTxLock', x, y), x, y)
  <2>1. PICK o \in Int : o = Owed(uxMessagesWaiting, cTxLock, x, y)
    BY Numbers
  <2>2. PICK o2 \in Int : o2 = Owed(uxMessagesWaiting', cTxLock', x, y)
    <3>1. uxMessagesWaiting' \in [Queues -> Int] /\ cTxLock' \in [Queues -> Int]
      BY DEF QueueTypes
    <3> QED BY <3>1, OwedIs
  <2>3. Serves(k, call, ret, o, x, y)
    BY <2>1 DEF WakeInv, ServeInv
  <2>4. Waiting(k', x, y) = Waiting(k, x, y) \ T
    BY <1>1
  <2>5. \A u \in Tasks : InCall(call[u], ret[u], x, y) => InCall(call'[u], ret'[u], x, y)
    BY DEF SameCalls
  <2>6. Serves(k', call', ret', o2, x, y)
    <3>1. CASE x = q /\ y = side
      <4>1. o2 <= o + m
        BY <2>1, <2>2, <3>1
      <4>2. T \subseteq Waiting(k, x, y) /\ (Waiting(k', x, y) # {} => IsFiniteSet(T) /\ Cardinality(T) = m)
        BY <1>1, <3>1
      <4> QED BY <2>3, <2>4, <2>5, <4>1, <4>2, ServesWake
    <3>2. CASE x # q \/ y # side
      <4>1. o2 <= o
        BY <2>1, <2>2, <3>2
      <4>2. Waiting(k', x, y) \subseteq Waiting(k, x, y)
        BY <2>4
      <4> QED BY <2>3, <2>5, <4>1, <4>2, ServesQuiet
    <3> QED BY <3>1, <3>2
  <2> QED BY <2>2, <2>6
<1>3. ServeInv'
  BY <1>2 DEF ServeInv
<1>4. NoGivers(k')
  <2>1. \A x \in Mutexes : x \in Queues /\ "send" \in Sides
    BY DEF Queues, Sides
  <2> QED BY <1>1, <2>1 DEF WakeInv, NoGivers
<1> QED BY <1>3, <1>4

\* A step that serves task t on one side of q, and wakes one of the other.
LEMMA ServeServe ==
    ASSUME QueueTypes, QueueTypes', WakeInv, NEW q \in Queues, NEW side \in Sides, NEW other \in Sides,
           side # other, NEW t \in Up(k, call, ret, q, side), Frees(k, k', q, other, 1),
           \A u \in Tasks \ {t} : call'[u] = call[u] /\ ret'[u] = ret[u],
           Owed(uxMessagesWaiting', cTxLock', q, side) = Owed(uxMessagesWaiting, cTxLock, q, side) - 1,
           Owed(uxMessagesWaiting', cTxLock', q, other) <= Owed(uxMessagesWaiting, cTxLock, q, other) + 1,
           \A x \in Queues : \A y \in Sides : x # q =>
               Owed(uxMessagesWaiting', cTxLock', x, y) <= Owed(uxMessagesWaiting, cTxLock, x, y)
    PROVE  ServeInv' /\ NoGivers(k')
<1>1. PICK T \in SUBSET Waiting(k, q, other) :
         /\ \A x \in Queues : \A y \in Sides : Waiting(k', x, y) = Waiting(k, x, y) \ T
         /\ Waiting(k', q, other) # {} => IsFiniteSet(T) /\ Cardinality(T) = 1
  BY DEF Frees
<1>2. ASSUME NEW x \in Queues, NEW y \in Sides
      PROVE  Serves(k', call', ret', Owed(uxMessagesWaiting', cTxLock', x, y), x, y)
  <2>1. PICK o \in Int : o = Owed(uxMessagesWaiting, cTxLock, x, y)
    BY Numbers
  <2>2. PICK o2 \in Int : o2 = Owed(uxMessagesWaiting', cTxLock', x, y)
    <3>1. uxMessagesWaiting' \in [Queues -> Int] /\ cTxLock' \in [Queues -> Int]
      BY DEF QueueTypes
    <3> QED BY <3>1, OwedIs
  <2>3. Serves(k, call, ret, o, x, y)
    BY <2>1 DEF WakeInv, ServeInv
  <2>4. Waiting(k', x, y) = Waiting(k, x, y) \ T /\ Waiting(k', x, y) \subseteq Waiting(k, x, y)
    BY <1>1
  <2>5. \A u \in Tasks \ {t} : InCall(call[u], ret[u], x, y) => InCall(call'[u], ret'[u], x, y)
    OBVIOUS
  <2>6. x # q \/ y # side => \A u \in Tasks : InCall(call[u], ret[u], x, y) => InCall(call'[u], ret'[u], x, y)
    <3>1. InCall(call[t], ret[t], q, side)
      BY DEF Up, Calling
    <3>2. x # q \/ y # side => ~InCall(call[t], ret[t], x, y)
      BY <3>1 DEF InCall
    <3> QED BY <2>5, <3>2
  <2>7. Serves(k', call', ret', o2, x, y)
    <3>1. CASE x = q /\ y = side
      <4>1. o2 = o - 1 /\ t \in Up(k, call, ret, x, y)
        BY <2>1, <2>2, <3>1
      <4> QED BY <2>3, <2>4, <2>5, <4>1, ServesLeave
    <3>2. CASE x = q /\ y = other
      <4>1. o2 <= o + 1 /\ 1 \in Nat
        BY <2>1, <2>2, <3>2
      <4>2. T \subseteq Waiting(k, x, y) /\ (Waiting(k', x, y) # {} => IsFiniteSet(T) /\ Cardinality(T) = 1)
        BY <1>1, <3>2
      <4>3. \A u \in Tasks : InCall(call[u], ret[u], x, y) => InCall(call'[u], ret'[u], x, y)
        BY <2>6, <3>2
      <4> QED BY <2>3, <2>4, <4>1, <4>2, <4>3, ServesWake
    <3>3. CASE x # q
      <4>1. o2 <= o
        BY <2>1, <2>2, <3>3
      <4>2. \A u \in Tasks : InCall(call[u], ret[u], x, y) => InCall(call'[u], ret'[u], x, y)
        BY <2>6, <3>3
      <4> QED BY <2>3, <2>4, <4>1, <4>2, ServesQuiet
    <3>4. y = side \/ y = other
      BY DEF Sides
    <3> QED BY <3>1, <3>2, <3>3, <3>4
  <2> QED BY <2>2, <2>7
<1>3. ServeInv'
  BY <1>2 DEF ServeInv
<1>4. NoGivers(k')
  <2>1. \A x \in Mutexes : x \in Queues /\ "send" \in Sides
    BY DEF Queues, Sides
  <2> QED BY <1>1, <2>1 DEF WakeInv, NoGivers
<1> QED BY <1>3, <1>4

\* What is owed when d items come or, if negative, go.
OwedMore(n, n2, c, q, d) ==
    /\ n2 \in [Queues -> Int]
    /\ Owed(n2, c, q, "send") = Owed(n, c, q, "send") - d
    /\ Owed(n2, c, q, "recv") = Owed(n, c, q, "recv") + d
    /\ \A x \in Queues : \A y \in Sides : x # q => Owed(n2, c, x, y) = Owed(n, c, x, y)

\* What is owed when the number of items of a queue changes.
LEMMA OwedItems ==
    ASSUME NEW n \in [Queues -> Int], NEW c \in [Queues -> Int], NEW q \in Queues, NEW d \in Int,
           NEW n2, n2 = [n EXCEPT ![q] = n[q] + d]
    PROVE  OwedMore(n, n2, c, q, d)
<1>1. n2 \in [Queues -> Int] /\ n2[q] = n[q] + d /\ \A x \in Queues : x # q => n2[x] = n[x]
  OBVIOUS
<1>2. uxLength(q) \in Nat /\ n[q] \in Int /\ c[q] \in Int
  BY Constants DEF uxLength
<1>3. Owed(n2, c, q, "send") = Owed(n, c, q, "send") - d
  BY <1>1, <1>2 DEF Owed
<1>4. Owed(n2, c, q, "recv") = Owed(n, c, q, "recv") + d
  BY <1>1, <1>2 DEF Owed
<1>5. \A x \in Queues : \A y \in Sides : x # q => Owed(n2, c, x, y) = Owed(n, c, x, y)
  BY <1>1 DEF Owed
<1> QED BY <1>1, <1>3, <1>4, <1>5 DEF OwedMore

\* What is owed when a queue is locked, or unlocked, or posted to while locked.
OwedAs(n, c, c2, q, v) ==
    /\ c2 \in [Queues -> Int]
    /\ \A x \in Queues : \A y \in Sides : x # q \/ y # "recv" => Owed(n, c2, x, y) = Owed(n, c, x, y)
    /\ c[q] = queueUNLOCKED /\ v = 0 => Owed(n, c2, q, "recv") = Owed(n, c, q, "recv")
    /\ c[q] >= 0 /\ v = queueUNLOCKED => Owed(n, c2, q, "recv") = Owed(n, c, q, "recv") + c[q]
    /\ c[q] >= 0 /\ v = c[q] + 1 => Owed(n, c2, q, "recv") = Owed(n, c, q, "recv") - 1

\* What is owed when the lock of a queue changes.
LEMMA OwedLocks ==
    ASSUME NEW n \in [Queues -> Int], NEW c \in [Queues -> Int], NEW q \in Queues, NEW v \in Int,
           NEW c2, c2 = [c EXCEPT ![q] = v]
    PROVE  OwedAs(n, c, c2, q, v)
<1>1. c2 \in [Queues -> Int] /\ c2[q] = v /\ \A x \in Queues : x # q => c2[x] = c[x]
  OBVIOUS
<1>2. uxLength(q) \in Nat /\ n[q] \in Int /\ c[q] \in Int /\ queueUNLOCKED = -1
  BY Constants DEF uxLength, queueUNLOCKED
<1>3. \A x \in Queues : \A y \in Sides : x # q \/ y # "recv" => Owed(n, c2, x, y) = Owed(n, c, x, y)
  BY <1>1 DEF Owed, Sides
<1>4. c[q] = queueUNLOCKED /\ v = 0 => Owed(n, c2, q, "recv") = Owed(n, c, q, "recv")
  BY <1>1, <1>2 DEF Owed
<1>5. c[q] >= 0 /\ v = queueUNLOCKED => Owed(n, c2, q, "recv") = Owed(n, c, q, "recv") + c[q]
  BY <1>1, <1>2 DEF Owed
<1>6. c[q] >= 0 /\ v = c[q] + 1 => Owed(n, c2, q, "recv") = Owed(n, c, q, "recv") - 1
  BY <1>1, <1>2 DEF Owed
<1> QED BY <1>1, <1>3, <1>4, <1>5, <1>6 DEF OwedAs

\* A move of t keeps the others in their calls.
LEMMA MoveCalls ==
    ASSUME CallTypes, NEW t \in Tasks, NEW p, NEW c, NEW r, NEW l, Moves(t, p, c, r, l),
           (c = call[t] /\ r = ret[t]) \/ ret[t] # Pending \/ call[t].op \in {"none", "delay"}
    PROVE  SameCalls(call, ret, call', ret')
<1>1. SUFFICES ASSUME NEW u \in Tasks, NEW q \in Queues, NEW side \in Sides, InCall(call[u], ret[u], q, side)
               PROVE  InCall(call'[u], ret'[u], q, side)
  BY DEF SameCalls
<1>2. call'[t] = c /\ ret'[t] = r /\ \A x \in Tasks \ {t} : call'[x] = call[x] /\ ret'[x] = ret[x]
  BY CallsMove
<1>3. u = t => c = call[t] /\ r = ret[t]
  BY <1>1 DEF InCall
<1>4. call'[u] = call[u] /\ ret'[u] = ret[u]
  BY <1>2, <1>3
<1> QED BY <1>1, <1>4

\* A task that moves elsewhere than to its sleep.
LEMMA TestedMove ==
    ASSUME CallTypes, NEW t \in Tasks, t = cur, cur' = cur, NEW p, NEW c, NEW r, NEW l, Moves(t, p, c, r, l),
           p # "place"
    PROVE  Tested'
<1>1. pc'[t] = p
  BY CallsMove
<1> QED BY <1>1 DEF Tested

\* A move of t that wakes nobody, or only those whose time is over.
LEMMA QuietWake ==
    ASSUME KernelInv, KernelInv', WakeInv, NEW t \in Tasks, t = cur, cur' = cur, NoMoreWait(k, k'),
           UNCHANGED <<uxMessagesWaiting, cTxLock>>,
           NEW p, NEW c, NEW r, NEW l, Moves(t, p, c, r, l), p # "place",
           (c = call[t] /\ r = ret[t]) \/ ret[t] # Pending \/ call[t].op \in {"none", "delay"}
    PROVE  WakeInv'
<1>1. CallTypes /\ QueueTypes /\ QueueTypes'
  BY DEF KernelInv, QueueInv
<1>2. SameCalls(call, ret, call', ret')
  BY <1>1, MoveCalls
<1>3. ASSUME NEW q \in Queues, NEW side \in Sides
      PROVE  Owed(uxMessagesWaiting', cTxLock', q, side) <= Owed(uxMessagesWaiting, cTxLock, q, side)
  <2>1. Owed(uxMessagesWaiting, cTxLock, q, side) \in Int
    BY <1>1, Numbers
  <2>2. Owed(uxMessagesWaiting', cTxLock', q, side) = Owed(uxMessagesWaiting, cTxLock, q, side)
    OBVIOUS
  <2> QED BY <2>1, <2>2
<1>4. ServeInv' /\ NoGivers(k')
  BY <1>1, <1>2, <1>3, QuietServe
<1>5. Tested'
  BY <1>1, TestedMove
<1> QED BY <1>4, <1>5 DEF WakeInv

\* Nobody moves in the lists when k stays the same.
LEMMA NothingMoves == ASSUME k' = k PROVE NoMoreWait(k, k') /\ cur' = cur
BY DEF NoMoreWait, cur

\* A task that steps is in no event list, unless it blocks just now.
LEMMA UpNow ==
    ASSUME KernelInv, ListInv, NEW t \in Tasks, t = cur, ~k.pendsv, pc[t] \notin {"unlock", "resume"}
    PROVE  \A q \in Queues : \A side \in Sides : t \notin Waiting(k, q, side)
<1>1. t \notin Asleep(k)
  BY AwakeNow DEF ListInv
<1> QED BY <1>1 DEF ListInv, Sound, Listed, Waiting, EventList

\* A task gives up a call that cannot be served.
LEMMA FailWake ==
    ASSUME KernelInv, KernelInv', ListInv, WakeInv, NEW t \in Tasks, t = cur, ~k.pendsv,
           pc[t] \notin {"unlock", "resume"}, call[t].op \notin {"none", "delay"}, ret[t] = Pending,
           k' = k, UNCHANGED <<uxMessagesWaiting, cTxLock>>,
           NEW p, NEW r, NEW l, Moves(t, p, call[t], r, l), p # "place",
           Owed(uxMessagesWaiting, cTxLock, Target(t), Side(t)) <= 0
    PROVE  WakeInv'
<1>1. CallTypes /\ Walk /\ QueueTypes
  BY DEF KernelInv, QueueInv
<1>2. \A u \in Tasks \ {t} : call'[u] = call[u] /\ ret'[u] = ret[u]
  BY <1>1, CallsMove
<1>3. ASSUME NEW q \in Queues, NEW side \in Sides
      PROVE  Serves(k', call', ret', Owed(uxMessagesWaiting', cTxLock', q, side), q, side)
  <2>1. PICK o \in Int : o = Owed(uxMessagesWaiting, cTxLock, q, side)
    BY <1>1, Numbers
  <2>2. Serves(k, call, ret, o, q, side)
    BY <2>1 DEF WakeInv, ServeInv
  <2>3. t \notin Waiting(k, q, side)
    BY UpNow
  <2>4. CASE q = Target(t) /\ side = Side(t)
    <3>1. Waiting(k, q, side) \subseteq Calling(call, ret, q, side)
      BY <2>2 DEF Serves
    <3>2. Waiting(k, q, side) \subseteq Calling(call', ret', q, side)
      BY <1>2, <2>3, <3>1 DEF Calling
    <3>3. o <= 0
      BY <2>1, <2>4
    <3>4. Serves(k, call', ret', o, q, side)
      BY <3>2, <3>3, ServesNothing
    <3> QED BY <2>1, <3>4
  <2>5. CASE ~(q = Target(t) /\ side = Side(t))
    <3>1. ~InCall(call[t], ret[t], q, side)
      BY <2>5, InCallOf
    <3>2. \A u \in Tasks : InCall(call[u], ret[u], q, side) => InCall(call'[u], ret'[u], q, side)
      BY <1>2, <3>1
    <3>3. Serves(k, call', ret', o, q, side)
      <4>1. o <= o
        OBVIOUS
      <4> QED BY <2>2, <3>2, <4>1, ServesQuiet
    <3> QED BY <2>1, <3>3
  <2> QED BY <2>4, <2>5
<1>4. ServeInv'
  BY <1>3 DEF ServeInv
<1>5. NoGivers(k')
  BY DEF WakeInv
<1>6. Tested'
  BY <1>1, NothingMoves, TestedMove
<1> QED BY <1>4, <1>5, <1>6 DEF WakeInv

\* A task at an inner step of its call waits for an answer from a queue.
LEMMA Asking ==
    ASSUME KernelInv, NEW t \in Tasks, pc[t] \notin {"idle", "return", "resume"}
    PROVE  /\ call[t].op \notin {"none", "delay"} /\ ret[t] = Pending
           /\ Target(t) \in Queues /\ Side(t) \in Sides /\ (Side(t) = "send" <=> Posting(t))
           /\ InCall(call[t], ret[t], Target(t), Side(t))
<1>1. WalkAt(pc[t], call[t], ret[t], loc[t]) /\ call[t] \in CallRecs
  BY Here DEF KernelInv
<1>2. call[t].op \notin {"none", "delay"} /\ ret[t] = Pending
  BY <1>1, CallRec DEF WalkAt
<1>3. Target(t) \in Queues /\ Side(t) \in Sides
  BY TargetIs DEF KernelInv, Sides
<1> QED BY <1>2, <1>3, InCallOf DEF Side

\* A queue that is full (empty) owes nothing to those who post (fetch).
LEMMA OwesNothing ==
    ASSUME KernelInv, NEW t \in Tasks,
           \/ Posting(t) /\ uxMessagesWaiting[Target(t)] >= uxLength(Target(t))
           \/ ~Posting(t) /\ uxMessagesWaiting[Target(t)] = 0
    PROVE  Owed(uxMessagesWaiting, cTxLock, Target(t), Side(t)) <= 0
<1>1. PICK q \in Queues : q = Target(t)
  BY TargetIs DEF KernelInv
<1>2. uxMessagesWaiting[q] \in Int /\ cTxLock[q] \in Int /\ uxLength(q) \in Nat
  BY Constants DEF KernelInv, QueueInv, QueueTypes, uxLength
<1>3. cTxLock[q] = queueUNLOCKED \/ 0 <= cTxLock[q]
  BY DEF KernelInv, Locks
<1>4. CASE Posting(t)
  BY <1>1, <1>2, <1>4 DEF Owed, Side
<1>5. CASE ~Posting(t)
  BY <1>1, <1>2, <1>3, <1>5 DEF Owed, Side
<1> QED BY <1>4, <1>5

\* Begin loses no wakeup.
LEMMA BeginWake ==
    ASSUME KernelInv, KernelInv', ListInv, WakeInv, NEW t \in Tasks, Begin(t)
    PROVE  WakeInv'
<1>1. t = cur /\ pc[t] = "idle" /\ k' = k /\ UNCHANGED <<uxMessagesWaiting, cTxLock>>
  BY DEF Begin, At, queueVars
<1>2. PICK c, l : Moves(t, "try", c, Pending, l)
  BY BeginMoves DEF KernelInv
<1>3. call[t].op = "none"
  BY <1>1, Here, CallRec DEF KernelInv, WalkAt
<1> QED BY <1>1, <1>2, <1>3, NothingMoves, QuietWake

\* vTaskDelay() changes the running task only.
LEMMA DelayEffect ==
    ASSUME KernelInv, NEW t \in Tasks, Delay(t)
    PROVE  /\ SameEvents(k, k') /\ SamePrio(k, k') /\ SameYield(k, k') /\ SameHeld(k, k') /\ SameClock(k, k')
           /\ k'.pxCurrentTCB = k.pxCurrentTCB /\ k'.uxSchedulerSuspended
           /\ Asleep(k') = Asleep(k) \cup {t} /\ SetsAlarm(k, k', 1)
<1>1. t = k.pxCurrentTCB /\ k \in KRec
  BY DEF Delay, At, cur, KernelInv, TaskInv, Sane
<1>2. PICK a : a = prvAddCurrentTaskToDelayedList(k, 1)
  OBVIOUS
<1>3. PICK r : r = k'
  OBVIOUS
<1>4. r = [a EXCEPT !.uxSchedulerSuspended = TRUE]
  BY <1>2, <1>3 DEF Delay
<1>5. /\ a \in KRec /\ SameEvents(k, a) /\ SamePrio(k, a) /\ SameYield(k, a) /\ SameHeld(k, a)
      /\ SameClock(k, a) /\ SameTask(k, a)
      /\ Asleep(a) = Asleep(k) \cup {t} /\ SetsAlarm(k, a, 1)
  <2>1. 1 \in 1 .. portMAX_DELAY
    BY Constants
  <2> QED BY <1>1, <1>2, <2>1, GoToSleep
<1>6. /\ SameEvents(a, r) /\ SameSleep(a, r) /\ SamePrio(a, r) /\ SameYield(a, r) /\ SameHeld(a, r)
      /\ SameClock(a, r) /\ r.pxCurrentTCB = a.pxCurrentTCB /\ r.uxSchedulerSuspended
  BY <1>4, <1>5 DEF KRec, SameEvents, SameSleep, SamePrio, SameYield, SameHeld, SameClock
<1>7. /\ SameEvents(k, r) /\ SamePrio(k, r) /\ SameYield(k, r) /\ SameHeld(k, r) /\ SameClock(k, r)
      /\ r.pxCurrentTCB = k.pxCurrentTCB
  BY <1>5, <1>6 DEF SameEvents, SamePrio, SameYield, SameHeld, SameClock, SameTask
<1>8. Asleep(r) = Asleep(k) \cup {t} /\ SetsAlarm(k, r, 1)
  BY <1>5, <1>6 DEF SameSleep, Asleep, SetsAlarm
<1> QED BY <1>3, <1>6, <1>7, <1>8

\* Delay loses no wakeup.
LEMMA DelayWake ==
    ASSUME KernelInv, KernelInv', ListInv, WakeInv, NEW t \in Tasks, Delay(t)
    PROVE  WakeInv'
<1>1. t = cur /\ pc[t] = "idle" /\ UNCHANGED <<uxMessagesWaiting, cTxLock>>
  BY DEF Delay, At, queueVars
<1>2. PICK c, l : Moves(t, "resume", c, Pending, l)
  BY DelayMoves DEF KernelInv
<1>3. call[t].op = "none"
  BY <1>1, Here, CallRec DEF KernelInv, WalkAt
<1>4. NoMoreWait(k, k') /\ cur' = cur
  BY DelayEffect, SameWaiting DEF cur
<1> QED BY <1>1, <1>2, <1>3, <1>4, QuietWake

\* A refusal loses no wakeup.
LEMMA RefuseWake ==
    ASSUME KernelInv, KernelInv', ListInv, WakeInv, NEW t \in Tasks, t = cur, ~k.pendsv, pc[t] = "try",
           call' = call, Refuse(t),
           \/ Posting(t) /\ uxMessagesWaiting[Target(t)] >= uxLength(Target(t))
           \/ ~Posting(t) /\ uxMessagesWaiting[Target(t)] = 0
    PROVE  WakeInv'
<1>1. k' = k /\ UNCHANGED <<uxMessagesWaiting, cTxLock>>
  BY DEF Refuse, queueVars
<1>2. call[t].op \notin {"none", "delay"} /\ ret[t] = Pending
  BY Asking
<1>3. CASE Moves(t, "return", call[t], Failed, loc[t])
  <2>1. Owed(uxMessagesWaiting, cTxLock, Target(t), Side(t)) <= 0
    BY OwesNothing
  <2> QED BY <1>1, <1>2, <1>3, <2>1, FailWake
<1>4. ASSUME NEW l, Moves(t, "suspend", call[t], Pending, l) PROVE WakeInv'
  BY <1>1, <1>2, <1>4, NothingMoves, QuietWake
<1> QED BY <1>3, <1>4, RefuseMoves DEF KernelInv, TaskInv

\* vTaskSuspendAll() changes nothing else.
LEMMA SuspendEffect ==
    ASSUME KernelInv, NEW t \in Tasks, Suspend(t)
    PROVE  /\ SameEvents(k, k') /\ SameSleep(k, k') /\ SamePrio(k, k') /\ SameYield(k, k') /\ SameHeld(k, k')
           /\ SameClock(k, k') /\ k'.pxCurrentTCB = k.pxCurrentTCB /\ k'.uxSchedulerSuspended
BY DEF Suspend, KernelInv, TaskInv, Sane, KRec, SameEvents, SameSleep, SamePrio, SameYield, SameHeld, SameClock

\* Suspend loses no wakeup.
LEMMA SuspendWake ==
    ASSUME KernelInv, KernelInv', ListInv, WakeInv, NEW t \in Tasks, Suspend(t)
    PROVE  WakeInv'
<1>1. t = cur /\ UNCHANGED <<uxMessagesWaiting, cTxLock>>
  BY DEF Suspend, At, queueVars
<1>2. Moves(t, "lock", call[t], ret[t], loc[t])
  BY SuspendMoves DEF KernelInv
<1>3. NoMoreWait(k, k') /\ cur' = cur
  BY SuspendEffect, SameWaiting DEF cur
<1> QED BY <1>1, <1>2, <1>3, QuietWake

\* prvLockQueue() loses no wakeup.
LEMMA LockWake ==
    ASSUME KernelInv, KernelInv', ListInv, WakeInv, NEW t \in Tasks, prvLockQueue(t)
    PROVE  WakeInv'
<1>1. t = cur /\ pc[t] = "lock" /\ k' = k /\ uxMessagesWaiting' = uxMessagesWaiting
  BY DEF prvLockQueue, At
<1>2. Moves(t, "check", call[t], ret[t], loc[t])
  BY LockMoves DEF KernelInv
<1>3. PICK q \in Queues : q = Target(t)
  BY TargetIs DEF KernelInv
<1>4. CallTypes /\ QueueTypes /\ QueueTypes'
  BY DEF KernelInv, QueueInv
<1>5. cTxLock[q] = queueUNLOCKED
  BY <1>1 DEF KernelInv, Locks, LocksQueue, Locking
<1>6. cTxLock' = [cTxLock EXCEPT ![q] = 0]
  BY <1>3, <1>5 DEF prvLockQueue, queueLOCKED_UNMODIFIED
<1>7. PICK n \in [Queues -> Int], c \in [Queues -> Int] : n = uxMessagesWaiting /\ c = cTxLock
  BY <1>4 DEF QueueTypes
<1>8. PICK c2 : c2 = cTxLock'
  OBVIOUS
<1>9. ASSUME NEW x \in Queues, NEW side \in Sides
      PROVE  Owed(uxMessagesWaiting', cTxLock', x, side) <= Owed(uxMessagesWaiting, cTxLock, x, side)
  <2>0. PICK v \in Int : v = 0
    OBVIOUS
  <2>1. c2 = [c EXCEPT ![q] = v] /\ c[q] = queueUNLOCKED
    BY <1>5, <1>6, <1>7, <1>8, <2>0
  <2>2. OwedAs(n, c, c2, q, v)
    BY <2>1, OwedLocks
  <2>3. Owed(n, c2, x, side) = Owed(n, c, x, side)
    BY <2>0, <2>1, <2>2 DEF OwedAs
  <2>4. Owed(n, c, x, side) \in Int
    BY <1>4, <1>7, Numbers
  <2> QED BY <1>1, <1>7, <1>8, <2>3, <2>4
<1>10. SameCalls(call, ret, call', ret')
  BY <1>2, <1>4, MoveCalls
<1>11. ServeInv' /\ NoGivers(k')
  BY <1>1, <1>4, <1>9, <1>10, NothingMoves, QuietServe
<1>12. Tested'
  BY <1>1, <1>2, <1>4, NothingMoves, TestedMove
<1> QED BY <1>11, <1>12 DEF WakeInv

\* xTaskCheckForTimeOut() loses no wakeup.
LEMMA CheckWake ==
    ASSUME KernelInv, KernelInv', ListInv, WakeInv, NEW t \in Tasks, xTaskCheckForTimeOut(t)
    PROVE  WakeInv'
<1>1. t = cur /\ k' = k /\ UNCHANGED <<uxMessagesWaiting, cTxLock>>
  BY DEF xTaskCheckForTimeOut, At, queueVars
<1>2. PICK p, l : Moves(t, p, call[t], ret[t], l) /\ p # "place"
  BY CheckMoves DEF KernelInv, TaskInv
<1> QED BY <1>1, <1>2, NothingMoves, QuietWake

\* The test of the queue: a task about to sleep found nothing.
LEMMA TestWake ==
    ASSUME KernelInv, KernelInv', ListInv, WakeInv, NEW t \in Tasks, TestQueue(t)
    PROVE  WakeInv'
<1>1. t = cur /\ k' = k /\ UNCHANGED <<uxMessagesWaiting, cTxLock>> /\ cur' = cur
  BY DEF TestQueue, At, queueVars, cur
<1>2. CallTypes /\ QueueTypes /\ QueueTypes'
  BY DEF KernelInv, QueueInv
<1>3. CASE Moves(t, "place", call[t], ret[t], loc[t])
  <2>1. SameCalls(call, ret, call', ret')
    BY <1>2, <1>3, MoveCalls
  <2>2. ASSUME NEW q \in Queues, NEW side \in Sides
        PROVE  Owed(uxMessagesWaiting', cTxLock', q, side) <= Owed(uxMessagesWaiting, cTxLock, q, side)
    <3>1. Owed(uxMessagesWaiting, cTxLock, q, side) \in Int
      BY <1>2, Numbers
    <3>2. Owed(uxMessagesWaiting', cTxLock', q, side) = Owed(uxMessagesWaiting, cTxLock, q, side)
      BY <1>1
    <3> QED BY <3>1, <3>2
  <2>3. ServeInv' /\ NoGivers(k')
    BY <1>1, <1>2, <2>1, <2>2, NothingMoves, QuietServe
  <2>4. pc'[t] = "place" /\ call'[t] = call[t]
    BY <1>2, <1>3, CallsMove
  <2>5. uxMessagesWaiting[Target(t)] = IF Posting(t) THEN uxLength(Target(t)) ELSE 0
    <3>1. uxMessagesWaiting[Target(t)] # (IF Posting(t) THEN uxLength(Target(t)) ELSE 0) => pc' = [pc EXCEPT ![t] = "unlock"]
      BY DEF TestQueue, Leave, Goto
    <3>2. pc' = [pc EXCEPT ![t] = "unlock"] => pc'[t] = "unlock"
      BY <1>2, Constants DEF CallTypes
    <3> QED BY <2>4, <3>1, <3>2
  <2>6. Owed(uxMessagesWaiting, cTxLock, Target(t), Side(t)) <= 0
    <3>1. Target(t) \in Queues
      BY TargetIs DEF KernelInv
    <3>2. uxLength(Target(t)) \in Int
      BY <3>1, Constants DEF uxLength
    <3>3. Posting(t) => uxMessagesWaiting[Target(t)] >= uxLength(Target(t))
      BY <2>5, <3>2
    <3>4. ~Posting(t) => uxMessagesWaiting[Target(t)] = 0
      BY <2>5
    <3> QED BY <3>3, <3>4, OwesNothing
  <2>7. Tested'
    <3>1. Target(t)' = Target(t) /\ Side(t)' = Side(t)
      BY <2>4 DEF Target, Side, Posting
    <3> QED BY <1>1, <2>6, <3>1 DEF Tested
  <2> QED BY <2>3, <2>7 DEF WakeInv
<1>4. ASSUME NEW l, Moves(t, "unlock", call[t], ret[t], l) PROVE WakeInv'
  BY <1>1, <1>4, NothingMoves, QuietWake
<1> QED BY <1>3, <1>4, TestMoves DEF KernelInv

\* xTaskPriorityInherit(): the holder h, if it has a lower priority, gets that
\* of the current task.
Raises(s, e, h) ==
    \/ e = s /\ (h = NULL \/ s.uxPriority[h] >= s.uxPriority[s.pxCurrentTCB])
    \/ /\ h \in Tasks /\ ~(s.uxPriority[h] >= s.uxPriority[s.pxCurrentTCB])
       /\ Prioritised(s, e, h, s.uxPriority[s.pxCurrentTCB])

\* The running task goes to sleep: the holder's priority is raised, then the
\* task is put into the lists.
GoesToSleep(s, e, r, h, q, side, n) ==
    /\ Sane(e) /\ Raises(s, e, h) /\ Queued(e, r, q, side, n)
    /\ SameTask(s, e) /\ SameEvents(s, e) /\ SameSleep(s, e) /\ SameYield(s, e)
    /\ SameClock(s, e) /\ SamePrio(e, r) /\ SameYield(e, r) /\ SameHeld(s, r)

\* What Place does to tasks.c.
LEMMA PlaceEffect ==
    ASSUME KernelInv, NEW t \in Tasks, Place(t)
    PROVE  \E e : GoesToSleep(k, e, k', HolderOf(t), Target(t), Side(t), loc[t].xTicksToWait)
<1>1. t = cur /\ pc[t] = "place"
  BY DEF Place, At
<1>2. Target(t) \in Queues /\ Side(t) \in {"send", "recv"}
  BY TargetIs DEF KernelInv
<1>3. PICK h \in Tasks \cup {NULL} : h = HolderOf(t)
  BY <1>2 DEF HolderOf, KernelInv, QueueInv, QueueTypes, Queues
<1>4. k.pxCurrentTCB \in Tasks /\ loc[t].xTicksToWait \in 1 .. portMAX_DELAY /\ k.pxCurrentTCB = t
  <2>1. loc[t].xTicksToWait \in 0 .. portMAX_DELAY
    BY Here DEF KernelInv, Locals
  <2>2. loc[t].xTicksToWait > 0
    BY <1>1, Here DEF KernelInv, WalkAt
  <2> QED BY <1>1, <2>1, <2>2, Constants DEF cur
<1>5. Sane(k)
  BY DEF KernelInv, TaskInv
<1>6. k' = vTaskPlaceOnEventList(xTaskPriorityInherit(k, HolderOf(t)), Target(t), Side(t))
  BY Zenon DEF Place, HolderOf
<1>7. PICK e : e = xTaskPriorityInherit(k, h)
  OBVIOUS
<1>8. Sane(e) /\ Raises(k, e, h)
  BY <1>3, <1>5, <1>7, InheritIs DEF Raises
<1>9. SameTask(k, e) /\ SameEvents(k, e) /\ SameSleep(k, e) /\ SameYield(k, e) /\ SameClock(k, e) /\ SameHeld(k, e)
  BY <1>8 DEF Raises, Prioritised, SameTask, SameEvents, SameSleep, SameYield, SameClock, SameHeld
<1>10. PICK r : r = k'
  OBVIOUS
<1>11. r = vTaskPlaceOnEventList(e, Target(t), Side(t))
  BY <1>3, <1>6, <1>7, <1>10
<1>12. e \in KRec /\ e.pxCurrentTCB = t
  BY <1>4, <1>8, <1>9 DEF Sane, SameTask
<1>13. /\ SamePrio(e, r) /\ SameYield(e, r) /\ SameHeld(e, r)
       /\ Queued(e, r, Target(t), Side(t), loc[t].xTicksToWait)
  <2>1. /\ SamePrio(e, r) /\ SameYield(e, r) /\ SameHeld(e, r)
        /\ Queued(e, r, Target(t), Side(t), loc[e.pxCurrentTCB].xTicksToWait)
    BY <1>2, <1>4, <1>11, <1>12, PlaceIs
  <2> QED BY <1>12, <2>1
<1>14. SameHeld(k, r)
  BY <1>9, <1>13 DEF SameHeld
<1> QED BY <1>3, <1>8, <1>9, <1>10, <1>13, <1>14 DEF GoesToSleep

\* One task more waits.
LEMMA QueuedWaiting ==
    ASSUME NEW s, s \in KRec, s.pxCurrentTCB \in Tasks, NEW r, NEW q \in Queues, NEW side \in Sides, NEW n,
           Queued(s, r, q, side, n)
    PROVE  \A x \in Queues : \A y \in Sides : \A u :
               u \in Waiting(r, x, y) <=> u \in Waiting(s, x, y) \/ (x = q /\ y = side /\ u = s.pxCurrentTCB)
<1>1. ASSUME NEW x \in Queues, NEW y \in Sides, NEW u
      PROVE  u \in Waiting(r, x, y) <=> u \in Waiting(s, x, y) \/ (x = q /\ y = side /\ u = s.pxCurrentTCB)
  <2>1. CASE x = q /\ y = side
    <3>1. PICK l \in Seq(Tasks) : l = EventList(s, q, side)
      BY NobodyWaits
    <3>2. EventList(r, q, side) = InsertByPriority(s, l, s.pxCurrentTCB)
      BY <3>1 DEF Queued, Sides
    <3>3. u \in Range(InsertByPriority(s, l, s.pxCurrentTCB)) <=> u \in Range(l) \/ u = s.pxCurrentTCB
      BY InsertRange
    <3> QED BY <2>1, <3>1, <3>2, <3>3 DEF Waiting
  <2>2. CASE ~(x = q /\ y = side)
    <3>1. EventList(r, x, y) = EventList(s, x, y)
      BY <2>2 DEF Queued, Sides
    <3> QED BY <2>2, <3>1 DEF Waiting
  <2> QED BY <2>1, <2>2
<1> QED BY <1>1

\* A task about to block waits for a mutex, or on either side of the mailbox.
LEMMA BlocksOn ==
    ASSUME KernelInv, NEW t \in Tasks, pc[t] = "place"
    PROVE  Side(t) = "send" => Target(t) \notin Mutexes
<1>1. call[t].op # "unlock"
  BY Here DEF KernelInv, WalkAt
<1>2. Side(t) = "send" => call[t].op \notin {"lock", "unlock"}
  BY <1>1 DEF Side, Posting
<1>3. mbox \notin Mutexes
  BY Constants
<1> QED BY <1>2, <1>3, TargetIs DEF KernelInv

\* Place loses no wakeup: nothing came between the test and the sleep.
LEMMA PlaceWake ==
    ASSUME KernelInv, KernelInv', ListInv, WakeInv, NEW t \in Tasks, Place(t)
    PROVE  WakeInv'
<1>1. t = cur /\ pc[t] = "place" /\ ~k.pendsv /\ UNCHANGED <<uxMessagesWaiting, cTxLock, call, ret>>
  BY DEF Place, At, queueVars
<1>2. PICK l : Moves(t, "unlock", call[t], ret[t], l)
  BY PlaceMoves DEF KernelInv
<1>3. PICK q \in Queues, side \in Sides : q = Target(t) /\ side = Side(t) /\ InCall(call[t], ret[t], q, side)
  BY <1>1, Asking
<1>4. PICK e : GoesToSleep(k, e, k', HolderOf(t), Target(t), Side(t), loc[t].xTicksToWait)
  BY PlaceEffect
<1>5. PICK r : r = k'
  OBVIOUS
<1>6. PICK n : n = loc[t].xTicksToWait
  OBVIOUS
<1>7. e \in KRec /\ e.pxCurrentTCB = t /\ SameEvents(k, e) /\ Queued(e, r, q, side, n)
  BY <1>1, <1>3, <1>4, <1>5, <1>6 DEF GoesToSleep, Sane, SameTask, cur
<1>8. \A x \in Queues : \A y \in Sides : \A u :
          u \in Waiting(r, x, y) <=> u \in Waiting(k, x, y) \/ (x = q /\ y = side /\ u = t)
  <2>1. \A x \in Queues : \A y \in Sides : \A u :
          u \in Waiting(r, x, y) <=> u \in Waiting(e, x, y) \/ (x = q /\ y = side /\ u = t)
    BY <1>7, QueuedWaiting
  <2>2. \A x \in Queues : \A y \in Sides : Waiting(e, x, y) = Waiting(k, x, y)
    BY <1>7, SameWaiting
  <2> QED BY <2>1, <2>2
<1>9. CallTypes /\ QueueTypes
  BY DEF KernelInv, QueueInv
<1>10. ASSUME NEW x \in Queues, NEW y \in Sides
       PROVE  Serves(k', call', ret', Owed(uxMessagesWaiting', cTxLock', x, y), x, y)
  <2>1. PICK o \in Int : o = Owed(uxMessagesWaiting, cTxLock, x, y)
    BY <1>9, Numbers
  <2>2. Serves(k, call, ret, o, x, y)
    BY <2>1 DEF WakeInv, ServeInv
  <2>3. CASE x = q /\ y = side
    <3>1. o <= 0
      BY <1>1, <1>3, <2>1, <2>3 DEF WakeInv, Tested
    <3>2. Waiting(k, x, y) \subseteq Calling(call, ret, x, y) /\ t \in Calling(call, ret, x, y)
      BY <1>3, <2>2, <2>3 DEF Serves, Calling
    <3>3. Waiting(r, x, y) \subseteq Calling(call, ret, x, y)
      BY <1>8, <3>2
    <3>4. Serves(r, call, ret, o, x, y)
      BY <3>1, <3>3, ServesNothing
    <3> QED BY <1>1, <1>5, <2>1, <3>4
  <2>4. CASE ~(x = q /\ y = side)
    <3>1. Waiting(r, x, y) \subseteq Waiting(k, x, y)
      BY <1>8, <2>4
    <3>2. o <= o /\ \A u \in Tasks : InCall(call[u], ret[u], x, y) => InCall(call[u], ret[u], x, y)
      OBVIOUS
    <3>3. Serves(r, call, ret, o, x, y)
      BY <2>2, <3>1, <3>2, ServesQuiet
    <3> QED BY <1>1, <1>5, <2>1, <3>3
  <2> QED BY <2>3, <2>4
<1>11. ServeInv'
  BY <1>10 DEF ServeInv
<1>12. NoGivers(r)
  <2>1. ASSUME NEW m \in Mutexes PROVE Waiting(r, m, "send") = {}
    <3>1. m \in Queues /\ "send" \in Sides
      BY DEF Queues, Sides
    <3>2. ~(m = q /\ "send" = side)
      BY <1>1, <1>3, BlocksOn
    <3>3. Waiting(k, m, "send") = {}
      BY DEF WakeInv, NoGivers
    <3> QED BY <1>8, <3>1, <3>2, <3>3
  <2> QED BY <2>1 DEF NoGivers
<1>14. Tested'
  <2>1. cur' = cur
    BY PlaceKeeps DEF SameTask, cur
  <2> QED BY <1>1, <1>2, <1>9, <2>1, TestedMove
<1> QED BY <1>5, <1>11, <1>12, <1>14 DEF WakeInv

\* What prvUnlockQueue() does: receivers are woken for the posts it missed.
LEMMA UnlockFrees ==
    ASSUME KernelInv, NEW t \in Tasks, prvUnlockQueue(t)
    PROVE  cTxLock[Target(t)] \in Nat /\ Awoken(k, k', Target(t), cTxLock[Target(t)])
<1>1. t = cur /\ pc[t] = "unlock"
  BY DEF prvUnlockQueue, At
<1>2. PICK q \in Queues : q = Target(t)
  BY TargetIs DEF KernelInv
<1>3. cTxLock[q] \in 0 .. MBOX_SIZE /\ cTxLock[q] \in Nat
  <2>1. /\ 0 <= cTxLock[q] /\ cTxLock[q] <= uxMessagesWaiting[q]
        /\ q # mbox => cTxLock[q] = 0
    BY <1>1, <1>2 DEF KernelInv, Locks, LocksQueue, Locking
  <2>2. /\ cTxLock[q] \in Int /\ uxMessagesWaiting[q] \in Int
        /\ uxMessagesWaiting[q] <= uxLength(q)
    BY <1>2 DEF KernelInv, QueueInv, QueueTypes
  <2>3. q = mbox => uxLength(q) = MBOX_SIZE
    BY DEF uxLength
  <2> QED BY <2>1, <2>2, <2>3, Constants
<1>4. k' = WakeReceivers(k, q)[cTxLock[q]]
  BY <1>2 DEF prvUnlockQueue
<1>5. Sane(k) /\ k.uxSchedulerSuspended
  BY <1>1 DEF KernelInv, TaskInv, Scheduler, Suspending
<1>6. Awoken(k, WakeReceivers(k, q)[cTxLock[q]], q, cTxLock[q])
  BY <1>3, <1>5, WakeReceiversFree
<1> QED BY <1>2, <1>3, <1>4, <1>6

\* prvUnlockQueue() loses no wakeup.
LEMMA UnlockWake ==
    ASSUME KernelInv, KernelInv', ListInv, WakeInv, NEW t \in Tasks, prvUnlockQueue(t)
    PROVE  WakeInv'
<1>1. t = cur /\ pc[t] = "unlock" /\ uxMessagesWaiting' = uxMessagesWaiting
  BY DEF prvUnlockQueue, At
<1>2. Moves(t, "resume", call[t], ret[t], loc[t])
  BY UnlockMoves DEF KernelInv
<1>3. PICK q \in Queues : q = Target(t)
  BY TargetIs DEF KernelInv
<1>4. CallTypes /\ QueueTypes /\ QueueTypes'
  BY DEF KernelInv, QueueInv
<1>5. PICK m \in Nat : m = cTxLock[q] /\ Awoken(k, k', q, m)
  BY <1>3, UnlockFrees
<1>6. Frees(k, k', q, "recv", m)
  <2>1. PICK T \in SUBSET Waiting(k, q, "recv") :
           /\ Freed(k, k', T)
           /\ Waiting(k', q, "recv") # {} => IsFiniteSet(T) /\ Cardinality(T) = m
    BY <1>5 DEF Awoken
  <2>2. \A x \in Queues : \A y \in Sides : Waiting(k', x, y) = Waiting(k, x, y) \ T
    BY <2>1, FreedWaiting
  <2> QED BY <2>1, <2>2 DEF Frees
<1>7. PICK n \in [Queues -> Int] : n = uxMessagesWaiting
  BY <1>4 DEF QueueTypes
<1>8. PICK c \in [Queues -> Int] : c = cTxLock
  BY <1>4 DEF QueueTypes
<1>9. PICK v \in Int : v = queueUNLOCKED
  BY DEF queueUNLOCKED
<1>10. PICK c2 : c2 = cTxLock'
  OBVIOUS
<1>11. c2 = [c EXCEPT ![q] = v]
  BY <1>3, <1>8, <1>9, <1>10 DEF prvUnlockQueue
<1>12. OwedAs(n, c, c2, q, v)
  BY <1>11, OwedLocks
<1>13. /\ Owed(n, c2, q, "recv") = Owed(n, c, q, "recv") + m
       /\ \A x \in Queues : \A y \in Sides : x # q \/ y # "recv" => Owed(n, c2, x, y) = Owed(n, c, x, y)
  BY <1>5, <1>8, <1>9, <1>12 DEF OwedAs
<1>14. \A x \in Queues : \A y \in Sides : Owed(n, c, x, y) \in Int
  BY OwedIs
<1>15. Owed(uxMessagesWaiting', cTxLock', q, "recv") <= Owed(uxMessagesWaiting, cTxLock, q, "recv") + m
  <2>1. Owed(n, c, q, "recv") \in Int
    BY <1>14 DEF Sides
  <2> QED BY <1>1, <1>7, <1>8, <1>10, <1>13, <2>1
<1>16. ASSUME NEW x \in Queues, NEW y \in Sides, x # q \/ y # "recv"
       PROVE  Owed(uxMessagesWaiting', cTxLock', x, y) <= Owed(uxMessagesWaiting, cTxLock, x, y)
  BY <1>1, <1>7, <1>8, <1>10, <1>13, <1>14, <1>16
<1>17. SameCalls(call, ret, call', ret') /\ "recv" \in Sides
  BY <1>2, <1>4, MoveCalls DEF Sides
<1>18. ServeInv' /\ NoGivers(k')
  BY <1>4, <1>6, <1>15, <1>16, <1>17, WakeServe
<1>19. Tested'
  <2>1. cur' = cur
    BY UnlockEffect DEF Keeps, SameTask, cur
  <2> QED BY <1>1, <1>2, <1>4, <2>1, TestedMove
<1> QED BY <1>18, <1>19 DEF WakeInv

\* Resume loses no wakeup: only tasks whose time is over leave the lists.
LEMMA ResumeWake ==
    ASSUME KernelInv, KernelInv', ListInv, WakeInv, NEW t \in Tasks, Resume(t)
    PROVE  WakeInv'
<1>1. t = cur /\ pc[t] = "resume" /\ UNCHANGED <<uxMessagesWaiting, cTxLock>>
  BY DEF Resume, At, queueVars
<1>2. Resumed(k, k')
  BY ResumeEffect
<1>3. cur' = cur /\ NoMoreWait(k, k')
  BY <1>2, FreedNoMore DEF Resumed, Rested, cur
<1>4. ret[t] = Pending
  BY <1>1, Here DEF KernelInv, WalkAt
<1>5. PICK p, c, r, l : Moves(t, p, c, r, l) /\ p # "place"
                        /\ ((c = call[t] /\ r = ret[t]) \/ call[t].op \in {"none", "delay"})
  BY ResumeMoves DEF KernelInv
<1> QED BY <1>1, <1>3, <1>5, QuietWake

\* Recheck loses no wakeup: a call that gives up found nothing.
LEMMA RecheckWake ==
    ASSUME KernelInv, KernelInv', ListInv, WakeInv, NEW t \in Tasks, Recheck(t)
    PROVE  WakeInv'
<1>1. t = cur /\ ~k.pendsv /\ pc[t] = "recheck" /\ UNCHANGED <<uxMessagesWaiting, cTxLock>>
  BY DEF Recheck, At, queueVars
<1>2. /\ PatientAt(k, pc[t], call[t], ret[t], loc[t]) /\ WalkAt(pc[t], call[t], ret[t], loc[t])
  BY Here DEF ListInv, Patient, KernelInv
<1>3. call[t].op # "lock" /\ ~loc[t].xInheritanceOccurred
  BY <1>1, <1>2 DEF PatientAt, WalkAt
<1>4. k' = k
  BY <1>3, Zenon DEF Recheck
<1>5. call[t].op \notin {"none", "delay"} /\ ret[t] = Pending
  BY <1>1, Asking
<1>6. CASE Moves(t, "try", call[t], ret[t], loc[t])
  BY <1>1, <1>4, <1>6, NothingMoves, QuietWake
<1>7. CASE Moves(t, "return", call[t], Failed, loc[t]) /\ ~(uxMessagesWaiting[Target(t)] > 0)
  <2>1. ~Posting(t)
    BY <1>1, <1>2 DEF WalkAt, Posting
  <2>2. uxMessagesWaiting[Target(t)] = 0
    <3>1. Target(t) \in Queues
      BY TargetIs DEF KernelInv
    <3>2. uxMessagesWaiting[Target(t)] \in Nat
      BY <3>1 DEF KernelInv, QueueInv, QueueTypes
    <3> QED BY <1>7, <3>2
  <2>3. Owed(uxMessagesWaiting, cTxLock, Target(t), Side(t)) <= 0
    BY <2>1, <2>2, OwesNothing
  <2> QED BY <1>1, <1>4, <1>5, <1>7, <2>3, FailWake
<1> QED BY <1>6, <1>7, RecheckMoves DEF KernelInv

\* Return loses no wakeup.
LEMMA ReturnWake ==
    ASSUME KernelInv, KernelInv', ListInv, WakeInv, NEW t \in Tasks, Return(t)
    PROVE  WakeInv'
<1>1. t = cur /\ pc[t] = "return" /\ k' = k /\ UNCHANGED <<uxMessagesWaiting, cTxLock>>
  BY DEF Return, At, queueVars
<1>2. Moves(t, "idle", NoCall, Pending, NoLoc)
  BY ReturnMoves DEF KernelInv
<1>3. ret[t] # Pending
  BY <1>1, Here DEF KernelInv, WalkAt
<1> QED BY <1>1, <1>2, <1>3, NothingMoves, QuietWake

\* A call is served: d items come (go), and one task of the other side is woken.
LEMMA ServedWake ==
    ASSUME KernelInv, KernelInv', ListInv, WakeInv, NEW t \in Tasks, t = cur, ~k.pendsv, pc[t] = "try",
           cur' = cur, NEW r, Moves(t, "return", call[t], r, loc[t]), UNCHANGED cTxLock,
           NEW q \in Queues, q = Target(t), NEW side \in Sides, side = Side(t), NEW other \in Sides,
           NEW d \in {1, -1}, d = IF side = "send" THEN 1 ELSE -1, other # side,
           uxMessagesWaiting' = [uxMessagesWaiting EXCEPT ![q] = uxMessagesWaiting[q] + d],
           Frees(k, k', q, other, 1)
    PROVE  WakeInv'
<1>1. CallTypes /\ QueueTypes /\ QueueTypes'
  BY DEF KernelInv, QueueInv
<1>2. t \in Up(k, call, ret, q, side)
  BY Asking, UpNow DEF Up, Calling
<1>3. \A u \in Tasks \ {t} : call'[u] = call[u] /\ ret'[u] = ret[u]
  BY <1>1, CallsMove
<1>4. PICK n \in [Queues -> Int] : n = uxMessagesWaiting
  BY <1>1 DEF QueueTypes
<1>5. PICK c \in [Queues -> Int] : c = cTxLock
  BY <1>1 DEF QueueTypes
<1>6. PICK n2 : n2 = uxMessagesWaiting'
  OBVIOUS
<1>7. n2 = [n EXCEPT ![q] = n[q] + d] /\ d \in Int
  BY <1>4, <1>6
<1>8. OwedMore(n, n2, c, q, d)
  BY <1>7, OwedItems
<1>9. \A x \in Queues : \A y \in Sides : Owed(n, c, x, y) \in Int
  BY OwedIs
<1>10. Owed(n2, c, q, side) = Owed(n, c, q, side) - 1 /\ Owed(n2, c, q, other) <= Owed(n, c, q, other) + 1
  <2>1. Owed(n, c, q, "send") \in Int /\ Owed(n, c, q, "recv") \in Int
    BY <1>9 DEF Sides
  <2>2. /\ Owed(n2, c, q, "send") = Owed(n, c, q, "send") - d
        /\ Owed(n2, c, q, "recv") = Owed(n, c, q, "recv") + d
    BY <1>8 DEF OwedMore
  <2>3. CASE side = "send"
    BY <2>1, <2>2, <2>3 DEF Sides
  <2>4. CASE side = "recv"
    BY <2>1, <2>2, <2>4 DEF Sides
  <2> QED BY <2>3, <2>4 DEF Sides
<1>11. \A x \in Queues : \A y \in Sides : x # q => Owed(n2, c, x, y) <= Owed(n, c, x, y)
  BY <1>8, <1>9 DEF OwedMore
<1>12. ServeInv' /\ NoGivers(k')
  BY <1>1, <1>2, <1>3, <1>4, <1>5, <1>6, <1>10, <1>11, ServeServe
<1>13. Tested'
  BY <1>1, TestedMove
<1> QED BY <1>12, <1>13 DEF WakeInv

\* Nobody waits, and nobody is woken.
LEMMA FreesNobody ==
    ASSUME NEW s, NEW r, SameEvents(s, r), NEW q \in Queues, NEW side \in Sides, NEW m, Waiting(s, q, side) = {}
    PROVE  Frees(s, r, q, side, m)
<1>1. \A x \in Queues : \A y \in Sides : Waiting(r, x, y) = Waiting(s, x, y) \ {}
  BY SameWaiting
<1>2. Waiting(r, q, side) = {}
  BY <1>1
<1>3. {} \in SUBSET Waiting(s, q, side)
  OBVIOUS
<1> QED BY <1>1, <1>2, <1>3 DEF Frees

\* TryReceive loses no wakeup.
LEMMA ReceiveWake ==
    ASSUME KernelInv, KernelInv', ListInv, WakeInv, NEW t \in Tasks, TryReceive(t)
    PROVE  WakeInv'
<1>1. t = cur /\ ~k.pendsv /\ pc[t] = "try" /\ call' = call /\ Fetching(t)
  BY DEF TryReceive, At
<1>2. Target(t) = mbox /\ ~Posting(t) /\ Side(t) = "recv"
  BY <1>1 DEF Fetching, Posting, Target, Side
<1>3. CASE uxMessagesWaiting[mbox] = 0
  <2>1. Refuse(t)
    BY <1>3, Zenon DEF TryReceive
  <2> QED BY <1>1, <1>2, <1>3, <2>1, RefuseWake
<1>4. CASE uxMessagesWaiting[mbox] # 0
  <2>1. k' = WakeOne(k, mbox, "send") /\ cTxLock' = cTxLock
        /\ uxMessagesWaiting' = [uxMessagesWaiting EXCEPT ![mbox] = @ - 1]
    BY <1>4, Zenon DEF TryReceive
  <2>2. PICK r : Moves(t, "return", call[t], r, loc[t])
    BY <1>4, ReceiveMoves DEF KernelInv, QueueInv
  <2>3. mbox \in Queues /\ Sane(k) /\ "send" \in Sides /\ "recv" \in Sides /\ -1 \in {1, -1}
    BY Constants DEF KernelInv, TaskInv, Sides
  <2>4. Keeps(k, k') /\ Frees(k, k', mbox, "send", 1)
    BY <2>1, <2>3, WakeOneKeeps, WakeOneFrees
  <2>5. cur' = cur
    BY <2>4 DEF Keeps, SameTask, cur
  <2>6. uxMessagesWaiting' = [uxMessagesWaiting EXCEPT ![mbox] = uxMessagesWaiting[mbox] + (-1)]
    <3>1. uxMessagesWaiting[mbox] \in Nat
      BY <2>3 DEF KernelInv, QueueInv, QueueTypes
    <3>2. uxMessagesWaiting[mbox] - 1 = uxMessagesWaiting[mbox] + (-1)
      BY <3>1
    <3> QED BY <2>1, <3>2
  <2>7. -1 = IF "recv" = "send" THEN 1 ELSE -1
    OBVIOUS
  <2> QED BY <1>1, <1>2, <2>1, <2>2, <2>3, <2>4, <2>5, <2>6, <2>7, ServedWake
<1> QED BY <1>3, <1>4

\* TryTake loses no wakeup.
LEMMA TakeWake ==
    ASSUME KernelInv, KernelInv', ListInv, WakeInv, NEW t \in Tasks, TryTake(t)
    PROVE  WakeInv'
<1>1. t = cur /\ ~k.pendsv /\ pc[t] = "try" /\ call' = call /\ call[t].op = "lock"
  BY DEF TryTake, At
<1>2. PICK q \in Mutexes : q = Target(t)
  BY <1>1, TargetIs DEF KernelInv
<1>3. ~Posting(t) /\ Side(t) = "recv"
  BY <1>1 DEF Posting, Side
<1>4. CASE uxMessagesWaiting[q] = 0
  <2>1. Refuse(t)
    BY <1>2, <1>4, Zenon DEF TryTake
  <2> QED BY <1>1, <1>2, <1>3, <1>4, <2>1, RefuseWake
<1>5. CASE uxMessagesWaiting[q] # 0
  <2>1. /\ k' = [k EXCEPT !.uxMutexesHeld[t] = k.uxMutexesHeld[t] + 1]
        /\ uxMessagesWaiting' = [uxMessagesWaiting EXCEPT ![q] = uxMessagesWaiting[q] - 1]
        /\ Finish(t, Ok) /\ UNCHANGED <<loc, cTxLock>>
    BY <1>2, <1>5, Zenon DEF TryTake
  <2>2. Moves(t, "return", call[t], Ok, loc[t])
    BY <1>1, <2>1, Results, FinishMoves DEF KernelInv
  <2>3. q \in Queues /\ k \in KRec /\ "send" \in Sides /\ "recv" \in Sides /\ -1 \in {1, -1}
    BY Constants DEF KernelInv, TaskInv, Sane, Sides
  <2>4. SameEvents(k, k') /\ cur' = cur
    BY <2>1, <2>3 DEF KRec, SameEvents, cur
  <2>5. Frees(k, k', q, "send", 1)
    <3>1. Waiting(k, q, "send") = {}
      BY DEF WakeInv, NoGivers
    <3> QED BY <2>3, <2>4, <3>1, FreesNobody
  <2>6. uxMessagesWaiting' = [uxMessagesWaiting EXCEPT ![q] = uxMessagesWaiting[q] + (-1)]
    <3>1. uxMessagesWaiting[q] \in Nat
      BY <2>3 DEF KernelInv, QueueInv, QueueTypes
    <3>2. uxMessagesWaiting[q] - 1 = uxMessagesWaiting[q] + (-1)
      BY <3>1
    <3> QED BY <2>1, <3>2
  <2>7. -1 = IF "recv" = "send" THEN 1 ELSE -1
    OBVIOUS
  <2> QED BY <1>1, <1>2, <1>3, <2>1, <2>2, <2>3, <2>4, <2>5, <2>6, <2>7, ServedWake
<1> QED BY <1>4, <1>5

\* Giving a mutex back: the priority returns, then a task that waits is woken.
Given(s, d, r, h, q) ==
    /\ Sane(d) /\ Disinherited(s, d, h) /\ Lowered(s, d, h)
    /\ Waiting(s, q, "recv") # {} => r = WakeOne(d, q, "recv")
    /\ Waiting(s, q, "recv") = {} => /\ SameEvents(d, r) /\ SameSleep(d, r) /\ SamePrio(d, r) /\ SameTask(d, r)
                                     /\ SameHeld(d, r) /\ r.xYieldPending = d.xYieldPending
                                     /\ (d.pendsv \/ d.uxPriority # s.uxPriority => r.pendsv)

\* What TrySend does to tasks.c when it gives a mutex.
LEMMA GiveFrees ==
    ASSUME KernelInv, NEW t \in Tasks, TrySend(t), call[t].op = "unlock",
           ~(uxMessagesWaiting[Target(t)] >= uxLength(Target(t)))
    PROVE  \E h \in Tasks : \E d : xMutexHolder[Target(t)] = h /\ Given(k, d, k', h, Target(t))
<1>1. Sane(k)
  BY DEF KernelInv, TaskInv
<1>2. PICK q \in Mutexes : q = Target(t) /\ q \in Queues /\ q # mbox
  BY TargetIs, Constants DEF KernelInv
<1>3. PICK h \in Tasks : h = xMutexHolder[q]
  <2>1. uxMessagesWaiting[q] # 1
    BY <1>2 DEF uxLength
  <2>2. xMutexHolder[q] # NULL
    BY <2>1 DEF KernelInv, QueueInv, Holders
  <2> QED BY <2>2 DEF KernelInv, QueueInv, QueueTypes
<1>4. PICK d : d = xTaskPriorityDisinherit(k, h)
  OBVIOUS
<1>5. Disinherited(k, d, h) /\ Lowered(k, d, h)
  BY <1>1, <1>4, DisinheritIs
<1>6. Sane(d) /\ d \in KRec
  BY <1>5 DEF Disinherited, Sane
<1>7. PICK r : r = k'
  OBVIOUS
<1>8. r = IF k.waitRecv[q] # << >> THEN WakeOne(d, q, "recv")
          ELSE [d EXCEPT !.pendsv = d.pendsv \/ d.uxPriority # k.uxPriority]
  BY <1>2, <1>3, <1>4, <1>7, Zenon DEF TrySend
<1>9. k.waitRecv[q] = << >> <=> Waiting(k, q, "recv") = {}
  <2>1. k \in KRec /\ "recv" \in Sides /\ EventList(k, q, "recv") = k.waitRecv[q]
    BY <1>1 DEF Sane, Sides, EventList
  <2> QED BY <1>2, <2>1, NobodyWaits
<1>10. ASSUME Waiting(k, q, "recv") = {}
       PROVE  /\ SameEvents(d, r) /\ SameSleep(d, r) /\ SamePrio(d, r) /\ SameTask(d, r)
              /\ SameHeld(d, r) /\ r.xYieldPending = d.xYieldPending
              /\ (d.pendsv \/ d.uxPriority # k.uxPriority => r.pendsv)
  <2>1. PICK x \in BOOLEAN : x = (d.uxPriority # k.uxPriority)
    OBVIOUS
  <2>2. r = [d EXCEPT !.pendsv = d.pendsv \/ x]
    BY <1>8, <1>9, <1>10, <2>1
  <2> QED BY <1>6, <2>1, <2>2 DEF KRec, SameEvents, SameSleep, SamePrio, SameTask, SameHeld
<1>11. Given(k, d, r, h, q)
  BY <1>5, <1>6, <1>8, <1>9, <1>10 DEF Given
<1> QED BY <1>2, <1>3, <1>7, <1>11

\* TrySend loses no wakeup.
LEMMA SendWake ==
    ASSUME KernelInv, KernelInv', ListInv, WakeInv, NEW t \in Tasks, TrySend(t)
    PROVE  WakeInv'
<1>1. t = cur /\ ~k.pendsv /\ pc[t] = "try" /\ call' = call /\ Posting(t)
  BY DEF TrySend, At
<1>2. PICK q \in Queues : q = Target(t)
  BY TargetIs DEF KernelInv
<1>3. CASE uxMessagesWaiting[q] >= uxLength(q)
  <2>1. Refuse(t)
    BY <1>2, <1>3, Zenon DEF TrySend
  <2> QED BY <1>1, <1>2, <1>3, <2>1, RefuseWake
<1>4. CASE ~(uxMessagesWaiting[q] >= uxLength(q))
  <2>1. uxMessagesWaiting' = [uxMessagesWaiting EXCEPT ![q] = uxMessagesWaiting[q] + 1] /\ cTxLock' = cTxLock
    BY <1>2, <1>4, Zenon DEF TrySend
  <2>2. Moves(t, "return", call[t], Ok, loc[t])
    BY <1>2, <1>4, SendMoves DEF KernelInv
  <2>3. Side(t) = "send" /\ Sane(k) /\ "send" \in Sides /\ "recv" \in Sides /\ 1 \in {1, -1}
    BY <1>1 DEF KernelInv, TaskInv, Sides, Side
  <2>4. cur' = cur /\ Frees(k, k', q, "recv", 1)
    <3>1. CASE call[t].op # "unlock"
      <4>1. Keeps(k, k') /\ Target(t) = mbox
        BY <1>2, <1>4, <3>1, PostEffect
      <4>2. k' = WakeOne(k, q, "recv")
        BY <1>2, <1>4, <4>1, Zenon DEF TrySend
      <4>3. Frees(k, k', q, "recv", 1)
        BY <2>3, <4>2, WakeOneFrees
      <4> QED BY <4>1, <4>3 DEF Keeps, SameTask, cur
    <3>2. CASE call[t].op = "unlock"
      <4>1. PICK h, d : h \in Tasks /\ Given(k, d, k', h, q)
        BY <1>2, <1>4, <3>2, GiveFrees
      <4>2. cur' = cur
        <5>1. PICK g \in Tasks : Disinherited(k, k', g)
          BY <1>2, <1>4, <3>2, GiveEffect
        <5> QED BY <5>1 DEF Disinherited, SameTask, cur
      <4>3. Sane(d) /\ SameEvents(k, d)
        BY <4>1 DEF Given, Lowered
      <4>4. PICK r : r = k'
        OBVIOUS
      <4>5. \A x \in Queues : \A y \in Sides : Waiting(d, x, y) = Waiting(k, x, y)
        BY <4>3, SameWaiting
      <4>6. CASE Waiting(k, q, "recv") # {}
        <5>1. r = WakeOne(d, q, "recv")
          BY <4>1, <4>4, <4>6 DEF Given
        <5>2. Frees(d, r, q, "recv", 1)
          BY <2>3, <4>3, <5>1, WakeOneFrees
        <5>3. Frees(k, r, q, "recv", 1)
          BY <2>3, <4>5, <5>2 DEF Frees
        <5> QED BY <4>2, <4>4, <5>3
      <4>7. CASE Waiting(k, q, "recv") = {}
        <5>1. SameEvents(d, r)
          BY <4>1, <4>4, <4>7 DEF Given
        <5>2. SameEvents(k, r)
          BY <4>3, <5>1 DEF SameEvents
        <5>3. Frees(k, r, q, "recv", 1)
          BY <2>3, <4>7, <5>2, FreesNobody
        <5> QED BY <4>2, <4>4, <5>3
      <4> QED BY <4>6, <4>7
    <3> QED BY <3>1, <3>2
  <2>5. 1 = IF "send" = "send" THEN 1 ELSE -1
    OBVIOUS
  <2> QED BY <1>1, <1>2, <2>1, <2>2, <2>3, <2>4, <2>5, ServedWake
<1> QED BY <1>3, <1>4

\* The callers and what the queues owe do not change.
LEMMA IdleWake ==
    ASSUME KernelInv, KernelInv', WakeInv, NoMoreWait(k, k'), UNCHANGED <<uxMessagesWaiting, cTxLock, call, ret>>
    PROVE  ServeInv' /\ NoGivers(k')
<1>1. QueueTypes /\ QueueTypes'
  BY DEF KernelInv, QueueInv
<1>2. SameCalls(call, ret, call', ret')
  BY DEF SameCalls
<1>3. ASSUME NEW q \in Queues, NEW side \in Sides
      PROVE  Owed(uxMessagesWaiting', cTxLock', q, side) <= Owed(uxMessagesWaiting, cTxLock, q, side)
  <2>1. Owed(uxMessagesWaiting, cTxLock, q, side) \in Int
    BY <1>1, Numbers
  <2>2. Owed(uxMessagesWaiting', cTxLock', q, side) = Owed(uxMessagesWaiting, cTxLock, q, side)
    OBVIOUS
  <2> QED BY <2>1, <2>2
<1> QED BY <1>1, <1>2, <1>3, QuietServe

\* The running task stays where it is, and what it found stays true.
LEMMA TestedStays ==
    ASSUME Tested, cur' = cur, UNCHANGED <<pc, call>>,
           pc[cur] = "place" =>
               \/ UNCHANGED <<uxMessagesWaiting, cTxLock>>
               \/ Owed(uxMessagesWaiting', cTxLock', Target(cur), Side(cur)) <= 0
    PROVE  Tested'
<1>1. PICK t : t = cur /\ cur' = t
  OBVIOUS
<1>2. Target(t)' = Target(t) /\ Side(t)' = Side(t)
  BY DEF Target, Side, Posting
<1> QED BY <1>1, <1>2 DEF Tested

\* What a tick does to the lists: with the scheduler suspended nothing.
LEMMA TickEffect ==
    ASSUME KernelInv, Tick
    PROVE  \/ ~k.uxSchedulerSuspended /\ Chimed(k, k')
           \/ /\ k.uxSchedulerSuspended /\ k'.xYieldPending = k.xYieldPending
              /\ SameEvents(k, k') /\ SameSleep(k, k') /\ SamePrio(k, k')
<1>1. Sane(k)
  BY DEF KernelInv, TaskInv
<1>2. PICK r : r = k'
  OBVIOUS
<1>3. CASE k.uxSchedulerSuspended
  <2>1. r = PendedTick(k)
    BY <1>2, <1>3, Zenon DEF Tick, PendedTick
  <2> QED BY <1>1, <1>2, <1>3, <2>1, PendTickFrees
<1>4. CASE ~k.uxSchedulerSuspended
  <2>1. r = WholeTick(k)
    BY <1>2, <1>4, Zenon DEF Tick, WholeTick
  <2> QED BY <1>1, <1>2, <1>4, <2>1, TickFrees
<1> QED BY <1>3, <1>4

\* A tick loses no wakeup.
LEMMA TickWake ==
    ASSUME KernelInv, KernelInv', ListInv, WakeInv, Tick
    PROVE  WakeInv'
<1>1. UNCHANGED <<uxMessagesWaiting, cTxLock, call, ret, pc>>
  BY DEF Tick, queueVars, callVars
<1>2. NoMoreWait(k, k')
  <2>1. CASE Chimed(k, k')
    BY <2>1, FreedNoMore DEF Chimed
  <2>2. CASE SameEvents(k, k')
    BY <2>2, SameWaiting
  <2> QED BY <2>1, <2>2, TickEffect
<1>3. cur' = cur
  BY TickKeeps DEF SameTask, cur
<1>4. ServeInv' /\ NoGivers(k')
  BY <1>1, <1>2, IdleWake
<1>5. Tested'
  BY <1>1, <1>3, TestedStays DEF WakeInv
<1> QED BY <1>4, <1>5 DEF WakeInv

\* What a switch of tasks does: with the scheduler suspended it is put off.
LEMMA SwitchEffect ==
    ASSUME KernelInv, vTaskSwitchContext
    PROVE  /\ SameEvents(k, k') /\ SameSleep(k, k') /\ SamePrio(k, k') /\ SameHeld(k, k')
           /\ k.uxSchedulerSuspended => cur' = cur /\ k'.xYieldPending
           /\ ~k.uxSchedulerSuspended => cur' \in k.ready[Max(k.uxTopReadyPriority)]
<1>1. Sane(k) /\ k \in KRec
  BY DEF KernelInv, TaskInv, Sane
<1>2. PICK r : r = k'
  OBVIOUS
<1>3. CASE k.uxSchedulerSuspended
  <2>1. k' = [k EXCEPT !.pendsv = FALSE, !.xYieldPending = TRUE]
    BY <1>3, Zenon DEF vTaskSwitchContext
  <2> QED BY <1>1, <1>3, <2>1 DEF KRec, SameEvents, SameSleep, SamePrio, SameHeld, cur
<1>4. CASE ~k.uxSchedulerSuspended
  <2>1. PICK t \in k.ready[Max(k.uxTopReadyPriority)] : k' = Chosen(k, t, FALSE)
    BY <1>4, Zenon DEF vTaskSwitchContext, Chosen
  <2>2. r = Chosen(k, t, FALSE)
    BY <1>2, <2>1
  <2>3. SameEvents(k, r) /\ SameSleep(k, r) /\ SamePrio(k, r) /\ SameHeld(k, r) /\ r.pxCurrentTCB = t
    BY <1>1, <2>2 DEF Chosen, KRec, SameEvents, SameSleep, SamePrio, SameHeld
  <2> QED BY <1>2, <1>4, <2>1, <2>3 DEF cur
<1> QED BY <1>3, <1>4

\* A switch of tasks loses no wakeup.
LEMMA SwitchWake ==
    ASSUME KernelInv, KernelInv', ListInv, WakeInv, vTaskSwitchContext
    PROVE  WakeInv'
<1>1. UNCHANGED <<uxMessagesWaiting, cTxLock, call, ret, pc>>
  BY DEF vTaskSwitchContext, queueVars, callVars
<1>2. NoMoreWait(k, k')
  BY SwitchEffect, SameWaiting
<1>3. ServeInv' /\ NoGivers(k')
  BY <1>1, <1>2, IdleWake
<1>4. Tested'
  <2>1. CASE k.uxSchedulerSuspended
    <3>1. cur' = cur
      BY <2>1, SwitchEffect
    <3> QED BY <1>1, <3>1, TestedStays DEF WakeInv
  <2>2. CASE ~k.uxSchedulerSuspended
    <3>1. \A t \in AllTasks : pc[t] \notin Suspending
      BY <2>2 DEF KernelInv, Scheduler
    <3>2. cur' \in AllTasks
      BY DEF KernelInv, TaskInv, Sane, KRec, cur
    <3>3. pc'[cur'] # "place"
      BY <1>1, <3>1, <3>2 DEF Suspending
    <3> QED BY <3>3 DEF Tested
  <2> QED BY <2>1, <2>2
<1> QED BY <1>3, <1>4 DEF WakeInv

\* A post by an interrupt loses no wakeup: it wakes a task, or tells
\* prvUnlockQueue() to.
LEMMA IsrPostWake ==
    ASSUME KernelInv, KernelInv', ListInv, WakeInv, IsrPost
    PROVE  WakeInv'
<1>1. UNCHANGED <<call, ret, pc>> /\ uxMessagesWaiting' = [uxMessagesWaiting EXCEPT ![mbox] = uxMessagesWaiting[mbox] + 1]
  BY DEF IsrPost, callVars
<1>2. QueueTypes /\ QueueTypes' /\ Sane(k) /\ mbox \in Queues /\ "recv" \in Sides /\ 1 \in Nat
  BY Constants DEF KernelInv, QueueInv, TaskInv, Sides
<1>3. PICK n \in [Queues -> Int] : n = uxMessagesWaiting
  BY <1>2 DEF QueueTypes
<1>4. PICK c \in [Queues -> Int] : c = cTxLock
  BY <1>2 DEF QueueTypes
<1>5. PICK n2 : n2 = uxMessagesWaiting'
  OBVIOUS
<1>6. PICK c2 : c2 = cTxLock'
  OBVIOUS
<1>7. PICK q \in Queues : q = mbox
  BY <1>2
<1>8. PICK d \in Int : d = 1
  OBVIOUS
<1>9. n2 = [n EXCEPT ![q] = n[q] + d]
  BY <1>1, <1>3, <1>5, <1>7, <1>8
<1>10. OwedMore(n, n2, c, q, d)
  BY <1>9, OwedItems
<1>11. \A x \in Queues : \A y \in Sides : Owed(n, c, x, y) \in Int
  BY OwedIs
<1>12. SameCalls(call, ret, call', ret')
  BY <1>1 DEF SameCalls
<1>13. cur' = cur
  BY IsrPostKeeps DEF Keeps, SameTask, cur
<1>14. Owed(n, c, q, "send") \in Int /\ Owed(n, c, q, "recv") \in Int
  BY <1>11 DEF Sides
<1>15. /\ Owed(n2, c, q, "send") = Owed(n, c, q, "send") - 1
       /\ Owed(n2, c, q, "recv") = Owed(n, c, q, "recv") + 1
       /\ \A x \in Queues : \A y \in Sides : x # q => Owed(n2, c, x, y) = Owed(n, c, x, y)
  BY <1>8, <1>10 DEF OwedMore
<1>16. CASE cTxLock[mbox] = queueUNLOCKED
  <2>1. k' = WakeOne(k, mbox, "recv") /\ c2 = c
    BY <1>4, <1>6, <1>16, Zenon DEF IsrPost
  <2>2. Frees(k, k', q, "recv", 1)
    BY <1>2, <1>7, <2>1, WakeOneFrees
  <2>3. Owed(n2, c2, q, "recv") <= Owed(n, c, q, "recv") + 1
    BY <1>14, <1>15, <2>1
  <2>4. ASSUME NEW x \in Queues, NEW y \in Sides, x # q \/ y # "recv" PROVE Owed(n2, c2, x, y) <= Owed(n, c, x, y)
    <3>1. x # q \/ y = "send"
      BY <2>4 DEF Sides
    <3>2. Owed(n2, c2, x, y) \in Int /\ Owed(n, c, x, y) \in Int
      BY <1>11, <1>14, <1>15, <2>1, <3>1
    <3> QED BY <1>11, <1>14, <1>15, <2>1, <3>1, <3>2
  <2>5. ServeInv' /\ NoGivers(k')
    BY <1>2, <1>3, <1>4, <1>5, <1>6, <1>12, <2>2, <2>3, <2>4, WakeServe
  <2>6. pc[cur] # "place" \/ Target(cur) # mbox
    <3>1. ~LocksQueue(mbox)
      <4>1. LocksQueue(mbox) => 0 <= cTxLock[mbox]
        BY <1>2 DEF KernelInv, Locks
      <4>2. ~(0 <= queueUNLOCKED)
        BY DEF queueUNLOCKED
      <4> QED BY <1>16, <4>1, <4>2
    <3> QED BY <3>1 DEF LocksQueue, Locking
  <2>7. ASSUME pc[cur] = "place" PROVE Owed(n2, c2, Target(cur), Side(cur)) <= 0
    <3>1. cur \in Tasks
      BY <2>7, Constants DEF KernelInv, Scheduler, TaskInv, Sane, KRec, cur, AllTasks
    <3>2. Target(cur) \in Queues /\ Side(cur) \in Sides /\ Target(cur) # q
      BY <1>7, <2>6, <2>7, <3>1, Asking
    <3>3. Owed(n, c, Target(cur), Side(cur)) <= 0
      BY <1>3, <1>4, <2>7 DEF WakeInv, Tested
    <3> QED BY <1>15, <2>1, <3>2, <3>3
  <2>8. Tested'
    BY <1>1, <1>5, <1>6, <1>13, <2>7, TestedStays DEF WakeInv
  <2> QED BY <2>5, <2>8 DEF WakeInv
<1>17. CASE cTxLock[mbox] # queueUNLOCKED
  <2>1. k' = k /\ cTxLock' = [cTxLock EXCEPT ![mbox] = cTxLock[mbox] + 1]
    BY <1>17, Zenon DEF IsrPost
  <2>2. c[q] >= 0 /\ c[q] \in Int
    <3>1. 0 <= cTxLock[mbox]
      BY <1>2, <1>17 DEF KernelInv, Locks
    <3> QED BY <1>4, <1>7, <3>1
  <2>3. PICK v \in Int : v = c[q] + 1
    BY <2>2
  <2>4. c2 = [c EXCEPT ![q] = v] /\ n2 \in [Queues -> Int]
    BY <1>4, <1>6, <1>7, <1>9, <2>1, <2>3
  <2>5. OwedAs(n2, c, c2, q, v)
    BY <2>4, OwedLocks
  <2>6. /\ \A x \in Queues : \A y \in Sides : x # q \/ y # "recv" => Owed(n2, c2, x, y) = Owed(n2, c, x, y)
        /\ Owed(n2, c2, q, "recv") = Owed(n2, c, q, "recv") - 1
    BY <2>2, <2>3, <2>5 DEF OwedAs
  <2>7. ASSUME NEW x \in Queues, NEW y \in Sides PROVE Owed(n2, c2, x, y) <= Owed(n, c, x, y) /\ Owed(n2, c2, x, y) \in Int
    <3>1. CASE x # q
      BY <1>11, <1>15, <2>6, <3>1
    <3>2. CASE x = q /\ y = "send"
      BY <1>14, <1>15, <2>6, <3>2
    <3>3. CASE x = q /\ y = "recv"
      BY <1>14, <1>15, <2>6, <3>3
    <3> QED BY <3>1, <3>2, <3>3 DEF Sides
  <2>8. ServeInv' /\ NoGivers(k')
    BY <1>2, <1>3, <1>4, <1>5, <1>6, <1>12, <2>1, <2>7, NothingMoves, QuietServe
  <2>9. ASSUME pc[cur] = "place" PROVE Owed(n2, c2, Target(cur), Side(cur)) <= 0
    <3>1. cur \in Tasks
      BY <2>9, Constants DEF KernelInv, Scheduler, TaskInv, Sane, KRec, cur, AllTasks
    <3>2. Target(cur) \in Queues /\ Side(cur) \in Sides
      BY <2>9, <3>1, Asking
    <3>3. Owed(n, c, Target(cur), Side(cur)) <= 0
      BY <1>3, <1>4, <2>9 DEF WakeInv, Tested
    <3>4. Owed(n2, c2, Target(cur), Side(cur)) <= Owed(n, c, Target(cur), Side(cur))
      BY <2>7, <3>2
    <3> QED BY <1>11, <2>7, <3>2, <3>3, <3>4
  <2>10. Tested'
    BY <1>1, <1>5, <1>6, <1>13, <2>9, TestedStays DEF WakeInv
  <2> QED BY <2>8, <2>10 DEF WakeInv
<1> QED BY <1>16, <1>17

\* Nobody waits when the scheduler starts.
LEMMA WakeInit == Init => WakeInv
<1> SUFFICES ASSUME Init PROVE WakeInv
  OBVIOUS
<1>1. \A q \in Queues : k.waitSend[q] = << >> /\ k.waitRecv[q] = << >>
  BY DEF Init
<1>2. \A q \in Queues : \A side \in Sides : Waiting(k, q, side) = {}
  <2>1. Range(<< >>) = {}
    BY DEF Range
  <2> QED BY <1>1, <2>1 DEF Waiting, EventList, Sides
<1>3. ServeInv
  BY <1>2 DEF ServeInv, Serves
<1>4. NoGivers(k)
  BY <1>2 DEF NoGivers, Queues, Sides
<1>5. Tested
  <2>1. KernelInv
    BY KernelInit
  <2>2. pc[cur] = "idle"
    BY <2>1 DEF Init, KernelInv, TaskInv, Sane, KRec, cur
  <2> QED BY <2>2 DEF Tested
<1> QED BY <1>3, <1>4, <1>5 DEF WakeInv

\* No step loses a wakeup.
LEMMA WakeNext == KernelInv /\ ListInv /\ WakeInv /\ [Next]_vars => WakeInv'
<1> SUFFICES ASSUME KernelInv, ListInv, WakeInv, [Next]_vars PROVE WakeInv'
  OBVIOUS
<1>1. KernelInv'
  BY KernelNext
<1>2. ASSUME NEW t \in Tasks, Step(t) PROVE WakeInv'
  BY <1>1, <1>2, BeginWake, DelayWake, SendWake, ReceiveWake, TakeWake, SuspendWake, LockWake, CheckWake,
     TestWake, PlaceWake, UnlockWake, ResumeWake, RecheckWake, ReturnWake DEF Step
<1>3. CASE Tick
  BY <1>1, <1>3, TickWake
<1>4. CASE IsrPost
  BY <1>1, <1>4, IsrPostWake
<1>5. CASE vTaskSwitchContext
  BY <1>1, <1>5, SwitchWake
<1>6. CASE UNCHANGED vars
  <2>1. k' = k /\ UNCHANGED <<uxMessagesWaiting, cTxLock, call, ret, pc>>
    BY <1>6 DEF vars, queueVars, callVars
  <2>2. ServeInv' /\ NoGivers(k')
    BY <1>1, <2>1, NothingMoves, IdleWake
  <2>3. Tested'
    BY <2>1, NothingMoves, TestedStays DEF WakeInv
  <2> QED BY <2>2, <2>3 DEF WakeInv
<1> QED BY <1>2, <1>3, <1>4, <1>5, <1>6 DEF Next

\* What the third layer says.
LEMMA WakeInvShows == KernelInv /\ WakeInv => NoLostWakeup
<1> SUFFICES ASSUME KernelInv, WakeInv, NEW q \in Queues, cTxLock[q] = queueUNLOCKED
             PROVE  /\ k.waitRecv[q] # << >> => uxMessagesWaiting[q] <= Cardinality(Awake(q, "recv"))
                    /\ k.waitSend[q] # << >> =>
                           uxLength(q) - uxMessagesWaiting[q] <= Cardinality(Awake(q, "send"))
  BY DEF NoLostWakeup
<1>1. k \in KRec /\ uxMessagesWaiting \in [Queues -> Int] /\ cTxLock \in [Queues -> Int]
      /\ "send" \in Sides /\ "recv" \in Sides
  BY DEF KernelInv, TaskInv, Sane, QueueInv, QueueTypes, Sides
<1>2. \A t \in Tasks : \A y \in Sides : t \in Waiting(k, q, y) => InCall(call[t], ret[t], q, y)
  BY DEF WakeInv, ServeInv, Serves, Calling
<1>3. ASSUME NEW side \in Sides PROVE Awake(q, side) = Up(k, call, ret, q, side)
  <2>1. ASSUME NEW t \in Tasks, InCall(call[t], ret[t], q, side)
        PROVE  t \in Waiting(k, q, side) <=> t \in Range(k.waitSend[q]) \cup Range(k.waitRecv[q])
    <3>1. \A y \in Sides : t \in Waiting(k, q, y) => y = side
      BY <1>2, <2>1 DEF InCall
    <3>2. Range(k.waitSend[q]) = Waiting(k, q, "send") /\ Range(k.waitRecv[q]) = Waiting(k, q, "recv")
      BY DEF Waiting, EventList
    <3> QED BY <1>1, <3>1, <3>2 DEF Sides
  <2>2. ASSUME NEW t \in Tasks
        PROVE  InCall(call[t], ret[t], q, side) <=>
                   /\ call[t].op \notin {"none", "delay"} /\ ret[t] = Pending
                   /\ Target(t) = q /\ Side(t) = side
    BY InCallOf
  <2> QED BY <2>1, <2>2 DEF Awake, Up, Calling
<1>4. ASSUME NEW side \in Sides, EventList(k, q, side) # << >>
      PROVE  Owed(uxMessagesWaiting, cTxLock, q, side) <= Cardinality(Awake(q, side))
  <2>1. Waiting(k, q, side) # {}
    BY <1>1, <1>4, NobodyWaits
  <2> QED BY <1>3, <2>1 DEF WakeInv, ServeInv, Serves
<1>5. /\ Owed(uxMessagesWaiting, cTxLock, q, "recv") = uxMessagesWaiting[q]
      /\ Owed(uxMessagesWaiting, cTxLock, q, "send") = uxLength(q) - uxMessagesWaiting[q]
  BY <1>1, OwedIs
<1>6. EventList(k, q, "recv") = k.waitRecv[q] /\ EventList(k, q, "send") = k.waitSend[q]
  BY DEF EventList
<1> QED BY <1>1, <1>4, <1>5, <1>6

\* Three layers of the invariant, in every state of the kernel.
LEMMA ThreeLayers ==
    ASSUME MUTEX_EXPIRES = FALSE
    PROVE  Spec => [](KernelInv /\ ListInv /\ WakeInv)
<1>1. KernelInv /\ ListInv /\ [Next]_vars => ListInv'
  BY ListNext
<1> QED BY <1>1, KernelInit, KernelNext, ListInit, WakeInit, WakeNext, PTL DEF Spec

\* However posts, fetches, locks, timeouts and interrupts interleave with the
\* window between the test of a queue and the sleep, no wakeup is lost: while
\* tasks sleep on an unlocked queue, as many callers are awake as it has items
\* or free slots for them.
THEOREM NoLostWakeupAlways ==
    ASSUME MUTEX_EXPIRES = FALSE
    PROVE  Spec => []NoLostWakeup
<1>1. Spec => [](KernelInv /\ ListInv /\ WakeInv)
  BY ThreeLayers
<1> QED BY <1>1, WakeInvShows, PTL

-----------------------------------------------------------------------------
(* The fourth layer: whose mutex, which alarm, which priority              *)

\* A holder knows of its mutex, or is about to: of a task t in call c with
\* result r that thinks it owns the mutexes o, when the holders are H.
KnowsAt(t, H, c, r, o) ==
    /\ \A m \in Mutexes : H[m] = t =>
          \/ m \in o /\ ~(c.op = "unlock" /\ c.mutex = m /\ r # Pending)
          \/ c.op = "lock" /\ c.mutex = m /\ r # Pending
    /\ c.op = "lock" /\ r = Pending => c.mutex \notin o
Known == \A t \in Tasks : KnowsAt(t, xMutexHolder, call[t], ret[t], owns[t])

\* A task that sleeps for a mutex, in call c with locals l, wakes when its
\* wait ends.
AlarmAt(s, t, c, l) == c.op = "lock" /\ t \in Asleep(s) => l.set /\ Alarm(s, t, l)
Alarms == \A t \in Tasks : AlarmAt(k, t, call[t], loc[t])

\* A task about to sleep has the time of now.
Timed == pc[cur] \in {"test", "place"} => loc[cur].xTimeOnEntering = k.xTickCount

\* A task without a mutex has its own priority.
OwnPriority(s) == \A t \in Tasks : s.uxMutexesHeld[t] = 0 => s.uxPriority[t] = Base[t]

HeldInv == Known /\ Alarms /\ Timed /\ OwnPriority(k)

\* A step of t that gives no mutex to another task.
LEMMA KnownStep ==
    ASSUME Known, CallTypes, NEW t \in Tasks, NEW p, NEW c, NEW r, NEW l, Moves(t, p, c, r, l),
           KnowsAt(t, xMutexHolder', c, r, owns'[t]),
           \A u \in Tasks \ {t} : owns'[u] = owns[u],
           \A u \in Tasks \ {t} : \A m \in Mutexes : xMutexHolder'[m] = u => xMutexHolder[m] = u
    PROVE  Known'
<1>1. Tasks \subseteq AllTasks
  BY Constants
<1>2. ASSUME NEW u \in Tasks PROVE KnowsAt(u, xMutexHolder', call'[u], ret'[u], owns'[u])
  <2>1. CASE u = t
    <3>1. call'[u] = c /\ ret'[u] = r
      BY <2>1, CallsMove
    <3> QED BY <2>1, <3>1
  <2>2. CASE u # t
    <3>1. call'[u] = call[u] /\ ret'[u] = ret[u] /\ owns'[u] = owns[u]
      BY <2>2, CallsMove
    <3>2. KnowsAt(u, xMutexHolder, call[u], ret[u], owns[u])
      BY DEF Known
    <3>3. KnowsAt(u, xMutexHolder', call[u], ret[u], owns[u])
      BY <2>2, <3>2 DEF KnowsAt
    <3> QED BY <3>1, <3>3
  <2> QED BY <2>1, <2>2
<1> QED BY <1>2 DEF Known

\* A step that changes neither the holders nor, of a call on a mutex, the result.
LEMMA KnownStay ==
    ASSUME Known, CallTypes, NEW t \in Tasks, NEW p, NEW r, NEW l, Moves(t, p, call[t], r, l),
           r = ret[t] \/ call[t].op \notin {"lock", "unlock"}, UNCHANGED <<xMutexHolder, owns>>
    PROVE  Known'
<1>1. KnowsAt(t, xMutexHolder, call[t], ret[t], owns[t])
  BY DEF Known
<1>2. KnowsAt(t, xMutexHolder', call[t], r, owns'[t])
  BY <1>1 DEF KnowsAt
<1> QED BY <1>2, KnownStep

\* Others sleep on as they did.
SleepOn(s, r, t) == \A u \in Tasks \ {t} : u \in Asleep(r) => u \in Asleep(s) /\ r.wake[u] = s.wake[u]

\* A step of t, and its own alarm.
LEMMA AlarmStep ==
    ASSUME Alarms, CallTypes, NEW t \in Tasks, NEW p, NEW c, NEW r, NEW l, Moves(t, p, c, r, l),
           SleepOn(k, k', t), AlarmAt(k', t, c, l)
    PROVE  Alarms'
<1>1. ASSUME NEW u \in Tasks PROVE AlarmAt(k', u, call'[u], loc'[u])
  <2>1. CASE u = t
    <3>1. call'[u] = c /\ loc'[u] = l
      BY <2>1, CallsMove
    <3> QED BY <2>1, <3>1
  <2>2. CASE u # t
    <3>1. call'[u] = call[u] /\ loc'[u] = loc[u]
      BY <2>2, CallsMove
    <3>2. AlarmAt(k, u, call[u], loc[u])
      BY DEF Alarms
    <3>3. AlarmAt(k', u, call[u], loc[u])
      BY <2>2, <3>2 DEF AlarmAt, SleepOn, Alarm
    <3> QED BY <3>1, <3>3
  <2> QED BY <2>1, <2>2
<1> QED BY <1>1 DEF Alarms

\* Who is awake has no alarm.
LEMMA NoAlarm ==
    ASSUME NEW s, NEW t, t \notin Asleep(s), NEW c, NEW l
    PROVE  AlarmAt(s, t, c, l)
BY DEF AlarmAt

\* The alarm of a task that stays asleep or wakes.
LEMMA AlarmStays ==
    ASSUME NEW s, NEW r, NEW t, NEW c, NEW l, NEW l2, AlarmAt(s, t, c, l),
           t \in Asleep(r) => t \in Asleep(s) /\ r.wake[t] = s.wake[t],
           l2.set = l.set, l2.xTicksToWait = l.xTicksToWait, l2.xTimeOnEntering = l.xTimeOnEntering
    PROVE  AlarmAt(r, t, c, l2)
BY DEF AlarmAt, Alarm

\* Freeing tasks changes no alarm of those that sleep on.
LEMMA FreedSleepOn ==
    ASSUME NEW s, NEW r, NEW W, Freed(s, r, W), \A u : u \in Asleep(r) => u \in Asleep(s)
    PROVE  /\ \A u : u \in Asleep(r) => u \in Asleep(s) /\ r.wake[u] = s.wake[u]
           /\ SamePrio(s, r)
           /\ \A t : SleepOn(s, r, t)
BY DEF Freed, SleepOn, SamePrio

\* Priorities and counts that do not change.
LEMMA OwnSame ==
    ASSUME NEW s, NEW r, OwnPriority(s), SamePrio(s, r), SameHeld(s, r)
    PROVE  OwnPriority(r)
BY DEF OwnPriority, SamePrio, SameHeld

\* A step of t to a place where it is not about to sleep.
LEMMA TimedMove ==
    ASSUME CallTypes, NEW t \in Tasks, t = cur, cur' = cur, NEW p, NEW c, NEW r, NEW l, Moves(t, p, c, r, l),
           p \notin {"test", "place"} \/ l.xTimeOnEntering = k'.xTickCount
    PROVE  Timed'
<1>1. pc'[t] = p /\ loc'[t] = l
  BY CallsMove
<1> QED BY <1>1 DEF Timed

\* A task asks for a mutex only if it does not think that it owns it.
LEMMA BeginLocks ==
    ASSUME CallTypes, NEW t \in Tasks, Begin(t), call'[t].op = "lock"
    PROVE  call'[t].mutex \notin owns[t]
<1>1. t \in AllTasks /\ owns[t] \in SUBSET Mutexes /\ Mutexes \subseteq Nat
  BY Constants, KernelAssumption DEF CallTypes
<1>2. PICK op \in Ops[t] :
         \/ /\ op \in {"post", "trypost"}
            /\ \E m \in Msgs : call' = [call EXCEPT ![t] = [op |-> op, msg |-> m]]
         \/ /\ op \in {"fetch", "fetchT", "tryfetch"}
            /\ call' = [call EXCEPT ![t] = [op |-> op]]
         \/ /\ op = "lock"
            /\ \E m \in Mutexes : /\ \A n \in owns[t] : n < m
                                  /\ call' = [call EXCEPT ![t] = [op |-> op, mutex |-> m]]
         \/ /\ op = "unlock"
            /\ \E m \in owns[t] : call' = [call EXCEPT ![t] = [op |-> op, mutex |-> m]]
  BY Zenon DEF Begin
<1>3. ASSUME NEW v, call' = [call EXCEPT ![t] = v] PROVE call'[t] = v
  BY <1>1, <1>3 DEF CallTypes
<1>4. op = "lock"
  <2>1. CASE op \in {"post", "trypost"} /\ \E m \in Msgs : call' = [call EXCEPT ![t] = [op |-> op, msg |-> m]]
    <3>1. PICK m \in Msgs : call' = [call EXCEPT ![t] = [op |-> op, msg |-> m]]
      BY <2>1
    <3>2. call'[t] = [op |-> op, msg |-> m]
      BY <1>3, <3>1
    <3> QED BY <2>1, <3>2
  <2>2. CASE op \in {"fetch", "fetchT", "tryfetch"} /\ call' = [call EXCEPT ![t] = [op |-> op]]
    <3>1. call'[t] = [op |-> op]
      BY <1>3, <2>2
    <3> QED BY <2>2, <3>1
  <2>3. CASE op = "unlock" /\ \E m \in owns[t] : call' = [call EXCEPT ![t] = [op |-> op, mutex |-> m]]
    <3>1. PICK m \in owns[t] : call' = [call EXCEPT ![t] = [op |-> op, mutex |-> m]]
      BY <2>3
    <3>2. call'[t] = [op |-> op, mutex |-> m]
      BY <1>3, <3>1
    <3> QED BY <2>3, <3>2
  <2> QED BY <1>2, <2>1, <2>2, <2>3
<1>5. PICK m \in Mutexes : /\ \A n \in owns[t] : n < m
                           /\ call' = [call EXCEPT ![t] = [op |-> op, mutex |-> m]]
  BY <1>2, <1>4
<1>6. call'[t] = [op |-> op, mutex |-> m]
  BY <1>3, <1>5
<1>7. call'[t].mutex = m /\ m \in Nat
  BY <1>1, <1>6
<1>8. m \notin owns[t]
  BY <1>5, <1>7
<1> QED BY <1>7, <1>8

\* A step that leaves tasks.c alone, of a task that is awake.
LEMMA QuietHeld ==
    ASSUME KernelInv, ListInv, HeldInv, NEW t \in Tasks, t = cur, ~k.pendsv, pc[t] \notin {"unlock", "resume"},
           k' = k, NEW p, NEW c, NEW r, NEW l, Moves(t, p, c, r, l), Known',
           p \notin {"test", "place"} \/ l.xTimeOnEntering = k.xTickCount
    PROVE  HeldInv'
<1>1. t \notin Asleep(k) /\ cur' = cur /\ CallTypes
  BY AwakeNow DEF ListInv, cur, KernelInv
<1>2. AlarmAt(k', t, c, l) /\ SleepOn(k, k', t)
  BY <1>1 DEF AlarmAt, SleepOn
<1>3. Alarms'
  BY <1>1, <1>2, AlarmStep DEF HeldInv
<1>4. Timed'
  BY <1>1, TimedMove
<1> QED BY <1>3, <1>4 DEF HeldInv

\* Begin.
LEMMA BeginHeld ==
    ASSUME KernelInv, ListInv, HeldInv, NEW t \in Tasks, Begin(t)
    PROVE  HeldInv'
<1>1. t = cur /\ ~k.pendsv /\ pc[t] = "idle" /\ k' = k /\ UNCHANGED <<xMutexHolder, owns>>
  BY DEF Begin, At, queueVars
<1>2. PICK c, l : Moves(t, "try", c, Pending, l) /\ c.op \notin {"none", "delay"}
  BY BeginMoves DEF KernelInv
<1>3. CallTypes /\ call'[t] = c
  BY <1>2, CallsMove DEF KernelInv
<1>4. call[t] = NoCall /\ ret[t] = Pending
  BY <1>1, Here DEF KernelInv, WalkAt
<1>5. KnowsAt(t, xMutexHolder, call[t], ret[t], owns[t]) /\ call[t].op = "none"
  BY <1>4 DEF HeldInv, Known, NoCall
<1>6. KnowsAt(t, xMutexHolder', c, Pending, owns'[t])
  <2>1. c.op = "lock" => c.mutex \notin owns[t]
    BY <1>3, BeginLocks
  <2> QED BY <1>1, <1>5, <2>1 DEF KnowsAt
<1>7. Known'
  BY <1>1, <1>2, <1>3, <1>6, KnownStep DEF HeldInv
<1> QED BY <1>1, <1>2, <1>7, QuietHeld

\* A call other than that to give a mutex is refused.
LEMMA RefuseHeld ==
    ASSUME KernelInv, ListInv, HeldInv, NEW t \in Tasks, t = cur, ~k.pendsv, pc[t] = "try", Refuse(t),
           call' = call, owns' = owns, call[t].op # "unlock"
    PROVE  HeldInv'
<1>1. k' = k /\ UNCHANGED <<xMutexHolder, owns>> /\ CallTypes /\ Known
  BY DEF Refuse, queueVars, KernelInv, HeldInv
<1>2. ret[t] = Pending
  BY Here DEF KernelInv, WalkAt
<1>3. CASE Moves(t, "return", call[t], Failed, loc[t]) /\ loc[t].xTicksToWait = 0
  <2>1. call[t].op # "lock"
    <3>1. PatientAt(k, pc[t], call[t], ret[t], loc[t])
      BY DEF ListInv, Patient
    <3> QED BY <1>3, <3>1 DEF PatientAt
  <2>2. Known'
    BY <1>1, <1>3, <2>1, KnownStay
  <2> QED BY <1>1, <1>3, <2>2, QuietHeld
<1>4. CASE \E l : Moves(t, "suspend", call[t], Pending, l)
  <2>1. PICK l : Moves(t, "suspend", call[t], Pending, l)
    BY <1>4
  <2>2. Known'
    BY <1>1, <1>2, <2>1, KnownStay
  <2> QED BY <1>1, <2>1, <2>2, QuietHeld
<1> QED BY <1>3, <1>4, RefuseMoves DEF KernelInv, TaskInv

\* A mutex is given by its holder, so it is not refused.
LEMMA GiveServed ==
    ASSUME KernelInv, ListInv, NEW t \in Tasks, pc[t] = "try", call[t].op = "unlock"
    PROVE  ~(uxMessagesWaiting[Target(t)] >= uxLength(Target(t)))
<1>1. ret[t] = Pending
  BY Here DEF KernelInv, WalkAt
<1>2. PICK q \in Mutexes : q = Target(t) /\ q = call[t].mutex /\ q # mbox
  BY TargetIs, Constants DEF KernelInv
<1>3. OwnersAt(t, xMutexHolder, call[t], ret[t], owns[t])
  BY DEF ListInv, Owners
<1>4. xMutexHolder[q] = t /\ t # NULL
  BY <1>1, <1>2, <1>3, KernelAssumption DEF OwnersAt, NULL
<1>5. uxMessagesWaiting[q] # 1
  BY <1>4 DEF KernelInv, QueueInv, Holders
<1>6. uxMessagesWaiting[q] \in Nat /\ uxLength(q) = 1 /\ uxMessagesWaiting[q] <= uxLength(q)
  BY <1>2, Constants DEF KernelInv, QueueInv, QueueTypes, uxLength
<1> QED BY <1>2, <1>5, <1>6

\* prvLockQueue.
LEMMA LockHeld ==
    ASSUME KernelInv, ListInv, HeldInv, NEW t \in Tasks, prvLockQueue(t)
    PROVE  HeldInv'
<1>1. t = cur /\ ~k.pendsv /\ pc[t] = "lock" /\ k' = k /\ UNCHANGED <<xMutexHolder, owns>> /\ CallTypes /\ Known
  BY DEF prvLockQueue, At, KernelInv, HeldInv
<1>2. Moves(t, "check", call[t], ret[t], loc[t])
  BY LockMoves DEF KernelInv
<1>3. Known'
  BY <1>1, <1>2, KnownStay
<1> QED BY <1>1, <1>2, <1>3, QuietHeld

\* xTaskCheckForTimeOut: it takes the time.
LEMMA CheckHeld ==
    ASSUME KernelInv, ListInv, HeldInv, NEW t \in Tasks, xTaskCheckForTimeOut(t)
    PROVE  HeldInv'
<1>1. t = cur /\ ~k.pendsv /\ pc[t] = "check" /\ k' = k /\ UNCHANGED <<xMutexHolder, owns>> /\ CallTypes /\ Known
      /\ Sane(k) /\ loc[t] \in Locals
  BY Here DEF xTaskCheckForTimeOut, At, KernelInv, HeldInv, TaskInv, queueVars
<1>2. PICK p, l : /\ Moves(t, p, call[t], ret[t], l)
                  /\ p = "unlock" \/ (p = "test" /\ l.xTimeOnEntering = k.xTickCount)
  <2>1. CASE \E l : Moves(t, "unlock", call[t], ret[t], l)
    BY <2>1
  <2>2. CASE \E l : /\ Moves(t, "test", call[t], ret[t], l)
                    /\ l = SetTimeOut(loc[t], loc[t].xTicksToWait - Elapsed(t))
                    /\ loc[t].xTicksToWait - Elapsed(t) \in 1 .. portMAX_DELAY
    <3>1. PICK l : /\ Moves(t, "test", call[t], ret[t], l)
                   /\ l = SetTimeOut(loc[t], loc[t].xTicksToWait - Elapsed(t))
                   /\ loc[t].xTicksToWait - Elapsed(t) \in 1 .. portMAX_DELAY
      BY <2>2
    <3>2. PICK n \in 0 .. portMAX_DELAY : n = loc[t].xTicksToWait - Elapsed(t)
      BY <3>1
    <3>3. l = SetTimeOut(loc[t], n)
      BY <3>1, <3>2
    <3>4. l.xTimeOnEntering = k.xTickCount
      BY <1>1, <3>3, SetTimeOutIs
    <3> QED BY <3>1, <3>4
  <2> QED BY <2>1, <2>2, CheckMoves DEF KernelInv, TaskInv
<1>3. Known'
  BY <1>1, <1>2, KnownStay
<1> QED BY <1>1, <1>2, <1>3, QuietHeld

\* TestQueue.
LEMMA TestHeld ==
    ASSUME KernelInv, ListInv, HeldInv, NEW t \in Tasks, TestQueue(t)
    PROVE  HeldInv'
<1>1. t = cur /\ ~k.pendsv /\ pc[t] = "test" /\ k' = k /\ UNCHANGED <<xMutexHolder, owns>> /\ CallTypes /\ Known
  BY DEF TestQueue, At, KernelInv, HeldInv, queueVars
<1>2. loc[t].xTimeOnEntering = k.xTickCount
  BY <1>1 DEF HeldInv, Timed
<1>3. PICK p, l : /\ Moves(t, p, call[t], ret[t], l)
                  /\ p = "unlock" \/ (p = "place" /\ l.xTimeOnEntering = k.xTickCount)
  BY <1>2, TestMoves DEF KernelInv
<1>4. Known'
  BY <1>1, <1>3, KnownStay
<1> QED BY <1>1, <1>3, <1>4, QuietHeld

\* Recheck: only a fetch of a message gets here.
LEMMA RecheckHeld ==
    ASSUME KernelInv, ListInv, HeldInv, NEW t \in Tasks, Recheck(t)
    PROVE  HeldInv'
<1>1. t = cur /\ ~k.pendsv /\ pc[t] = "recheck" /\ UNCHANGED <<xMutexHolder, owns>> /\ CallTypes /\ Known
  BY DEF Recheck, At, KernelInv, HeldInv, queueVars
<1>2. WalkAt(pc[t], call[t], ret[t], loc[t]) /\ PatientAt(k, pc[t], call[t], ret[t], loc[t])
  BY Here DEF KernelInv, ListInv, Patient
<1>3. call[t].op \notin {"lock", "unlock"} /\ ~loc[t].xInheritanceOccurred
  BY <1>1, <1>2 DEF WalkAt, PatientAt
<1>4. k' = k
  BY <1>3, Zenon DEF Recheck
<1>5. PICK p, r : Moves(t, p, call[t], r, loc[t]) /\ p \in {"try", "return"}
  BY RecheckMoves DEF KernelInv
<1>6. Known'
  BY <1>1, <1>3, <1>5, KnownStay
<1> QED BY <1>1, <1>4, <1>5, <1>6, QuietHeld

\* Return: the task learns of its mutex, or forgets it.
LEMMA ReturnHeld ==
    ASSUME KernelInv, ListInv, HeldInv, NEW t \in Tasks, Return(t)
    PROVE  HeldInv'
<1>1. t = cur /\ ~k.pendsv /\ pc[t] = "return" /\ k' = k /\ xMutexHolder' = xMutexHolder /\ CallTypes /\ Known
  BY DEF Return, At, KernelInv, HeldInv, queueVars
<1>2. /\ Moves(t, "idle", NoCall, Pending, NoLoc)
      /\ \A u \in AllTasks \ {t} : owns'[u] = owns[u]
      /\ call[t].op = "lock" => owns'[t] = owns[t] \cup {call[t].mutex}
      /\ call[t].op = "unlock" => owns'[t] = owns[t] \ {call[t].mutex}
      /\ call[t].op \notin {"lock", "unlock"} => owns'[t] = owns[t]
  BY ReturnMoves DEF KernelInv
<1>3. ret[t] # Pending /\ NoCall.op = "none"
  BY <1>1, Here, NewCall DEF KernelInv, WalkAt
<1>4. KnowsAt(t, xMutexHolder, call[t], ret[t], owns[t])
  BY DEF HeldInv, Known
<1>5. ASSUME NEW m \in Mutexes, xMutexHolder[m] = t PROVE m \in owns'[t]
  <2>1. \/ m \in owns[t] /\ ~(call[t].op = "unlock" /\ call[t].mutex = m /\ ret[t] # Pending)
        \/ call[t].op = "lock" /\ call[t].mutex = m /\ ret[t] # Pending
    BY <1>4, <1>5 DEF KnowsAt
  <2> QED BY <1>2, <1>3, <2>1
<1>6. KnowsAt(t, xMutexHolder', NoCall, Pending, owns'[t])
  BY <1>1, <1>3, <1>5 DEF KnowsAt
<1>7. Tasks \subseteq AllTasks
  BY Constants
<1>8. Known'
  BY <1>1, <1>2, <1>6, <1>7, KnownStep
<1> QED BY <1>1, <1>2, <1>8, QuietHeld

\* A step of the running task, in parts.
LEMMA MoveHeld ==
    ASSUME KernelInv, HeldInv, NEW t \in Tasks, t = cur, cur' = cur,
           NEW p, NEW c, NEW r, NEW l, Moves(t, p, c, r, l), p \notin {"test", "place"},
           Known', SleepOn(k, k', t), AlarmAt(k', t, c, l), OwnPriority(k')
    PROVE  HeldInv'
<1>1. Alarms' /\ Timed'
  BY AlarmStep, TimedMove DEF KernelInv, HeldInv
<1> QED BY <1>1 DEF HeldInv

\* Suspend.
LEMMA SuspendHeld ==
    ASSUME KernelInv, ListInv, HeldInv, NEW t \in Tasks, Suspend(t)
    PROVE  HeldInv'
<1>1. t = cur /\ ~k.pendsv /\ pc[t] = "suspend" /\ UNCHANGED <<xMutexHolder, owns>> /\ CallTypes /\ Known
  BY DEF Suspend, At, KernelInv, HeldInv, queueVars
<1>2. Moves(t, "lock", call[t], ret[t], loc[t])
  BY SuspendMoves DEF KernelInv
<1>3. SameSleep(k, k') /\ SamePrio(k, k') /\ SameHeld(k, k') /\ k'.pxCurrentTCB = k.pxCurrentTCB
  BY SuspendEffect
<1>4. t \notin Asleep(k)
  BY <1>1, AwakeNow DEF ListInv
<1>5. cur' = cur /\ SleepOn(k, k', t) /\ t \notin Asleep(k')
  BY <1>3, <1>4 DEF cur, SleepOn, SameSleep, Asleep
<1>6. AlarmAt(k', t, call[t], loc[t]) /\ OwnPriority(k')
  BY <1>3, <1>5, NoAlarm, OwnSame DEF HeldInv
<1>7. Known'
  BY <1>1, <1>2, KnownStay
<1> QED BY <1>1, <1>2, <1>5, <1>6, <1>7, MoveHeld

\* Delay.
LEMMA DelayHeld ==
    ASSUME KernelInv, ListInv, HeldInv, NEW t \in Tasks, Delay(t)
    PROVE  HeldInv'
<1>1. t = cur /\ pc[t] = "idle" /\ UNCHANGED <<xMutexHolder, owns>> /\ CallTypes /\ Known
  BY DEF Delay, At, KernelInv, HeldInv, queueVars
<1>2. PICK c, l : c.op = "delay" /\ Moves(t, "resume", c, Pending, l)
  <2>1. Moves(t, "resume", [op |-> "delay"], Pending, [NoLoc EXCEPT !.path = "blocked"])
    BY DelayMoves DEF KernelInv
  <2>2. PICK c : c = [op |-> "delay"]
    OBVIOUS
  <2>3. PICK l : l = [NoLoc EXCEPT !.path = "blocked"]
    OBVIOUS
  <2>4. c.op = "delay"
    BY <2>2
  <2>5. Moves(t, "resume", c, Pending, l)
    BY <2>1, <2>2, <2>3
  <2> QED BY <2>4, <2>5
<1>3. /\ SamePrio(k, k') /\ SameHeld(k, k') /\ k'.pxCurrentTCB = k.pxCurrentTCB
      /\ Asleep(k') = Asleep(k) \cup {t} /\ SetsAlarm(k, k', 1)
  BY DelayEffect
<1>4. k.wake \in [AllTasks -> 0 .. portMAX_DELAY] /\ Tasks \subseteq AllTasks /\ k.pxCurrentTCB = t
  BY <1>1, Constants DEF KernelInv, TaskInv, Sane, KRec, cur
<1>5. SleepOn(k, k', t) /\ cur' = cur
  BY <1>3, <1>4 DEF SleepOn, SetsAlarm, cur
<1>6. AlarmAt(k', t, c, l)
  BY <1>2 DEF AlarmAt
<1>7. OwnPriority(k')
  BY <1>3, OwnSame DEF HeldInv
<1>8. call[t] = NoCall
  BY <1>1, Here DEF KernelInv, WalkAt
<1>9. KnowsAt(t, xMutexHolder, call[t], ret[t], owns[t]) /\ call[t].op = "none"
  BY <1>8, NewCall DEF HeldInv, Known
<1>10. KnowsAt(t, xMutexHolder', c, Pending, owns'[t])
  BY <1>1, <1>2, <1>9 DEF KnowsAt
<1>11. Known'
  BY <1>1, <1>2, <1>10, KnownStep
<1> QED BY <1>1, <1>2, <1>5, <1>6, <1>7, <1>11, MoveHeld

\* Place: the alarm is set, and the holder that gets another priority has a mutex.
LEMMA PlaceHeld ==
    ASSUME KernelInv, ListInv, HeldInv, NEW t \in Tasks, Place(t)
    PROVE  HeldInv'
<1>1. t = cur /\ ~k.pendsv /\ pc[t] = "place" /\ UNCHANGED <<xMutexHolder, owns>> /\ CallTypes /\ Known
  BY DEF Place, At, KernelInv, HeldInv, queueVars
<1>2. PICK l : /\ Moves(t, "unlock", call[t], ret[t], l)
               /\ l.xTicksToWait = loc[t].xTicksToWait /\ l.set = loc[t].set
               /\ l.xTimeOnEntering = loc[t].xTimeOnEntering
  BY PlaceMoves DEF KernelInv
<1>3. PICK r : r = k'
  OBVIOUS
<1>4. PICK e : GoesToSleep(k, e, r, HolderOf(t), Target(t), Side(t), loc[t].xTicksToWait)
  BY <1>3, PlaceEffect
<1>5. /\ Raises(k, e, HolderOf(t)) /\ SetsAlarm(e, r, loc[t].xTicksToWait) /\ Asleep(r) = Asleep(e) \cup {e.pxCurrentTCB}
      /\ SameTask(k, e) /\ SameSleep(k, e) /\ SameClock(k, e) /\ SamePrio(e, r) /\ SameHeld(k, r)
  BY <1>4 DEF GoesToSleep, Queued
<1>6. k.wake \in [AllTasks -> 0 .. portMAX_DELAY] /\ t \in AllTasks /\ Tasks \subseteq AllTasks /\ e.pxCurrentTCB = t
  BY <1>1, <1>5, Constants DEF KernelInv, TaskInv, Sane, KRec, cur, SameTask
<1>7. r.wake = [k.wake EXCEPT ![t] = (k.xTickCount + loc[t].xTicksToWait) % TICKS] /\ Asleep(r) = Asleep(k) \cup {t}
  BY <1>5, <1>6 DEF SetsAlarm, SameSleep, SameClock, Asleep
<1>8. SleepOn(k, r, t)
  BY <1>6, <1>7 DEF SleepOn
<1>9. AlarmAt(r, t, call[t], l)
  <2>1. loc[t].xTimeOnEntering = k.xTickCount
    BY <1>1 DEF HeldInv, Timed
  <2>2. loc[t].set
    BY <1>1, Here DEF KernelInv, WalkAt
  <2>3. r.wake[t] = (k.xTickCount + loc[t].xTicksToWait) % TICKS
    BY <1>6, <1>7
  <2> QED BY <1>2, <2>1, <2>2, <2>3 DEF AlarmAt, Alarm
<1>10. OwnPriority(r)
  <2>1. ASSUME NEW u \in Tasks, r.uxMutexesHeld[u] = 0 PROVE r.uxPriority[u] = Base[u]
    <3>1. k.uxMutexesHeld[u] = 0 /\ k.uxPriority[u] = Base[u]
      BY <1>5, <2>1 DEF SameHeld, HeldInv, OwnPriority
    <3>2. CASE e = k
      BY <1>5, <3>1, <3>2 DEF SamePrio
    <3>3. CASE /\ HolderOf(t) \in Tasks
               /\ Prioritised(k, e, HolderOf(t), k.uxPriority[k.pxCurrentTCB])
      <4>1. PICK h \in Tasks : h = HolderOf(t) /\ Target(t) # mbox /\ xMutexHolder[Target(t)] = h
        <5>1. NULL \notin Tasks
          BY KernelAssumption DEF NULL
        <5> QED BY <3>3, <5>1 DEF HolderOf
      <4>2. Target(t) \in Mutexes
        BY <4>1, TargetIs DEF KernelInv
      <4>3. Target(t) \in Held(h)
        BY <4>1, <4>2 DEF Held
      <4>4. u # h
        <5>1. SUFFICES ASSUME u = h PROVE FALSE
          OBVIOUS
        <5>2. IsFiniteSet(Held(h)) /\ k.uxMutexesHeld[h] = Cardinality(Held(h))
          BY DEF KernelInv, TaskInv, Counts
        <5>3. Held(h) = {}
          BY <3>1, <5>1, <5>2, FS_EmptySet
        <5> QED BY <4>3, <5>3
      <4>5. e.uxPriority = [k.uxPriority EXCEPT ![h] = k.uxPriority[k.pxCurrentTCB]]
        BY <3>3, <4>1 DEF Prioritised
      <4>6. k.uxPriority \in [AllTasks -> Prios]
        BY DEF KernelInv, TaskInv, Sane, KRec
      <4> QED BY <1>5, <1>6, <3>1, <4>4, <4>5, <4>6 DEF SamePrio
    <3> QED BY <1>5, <3>2, <3>3 DEF Raises
  <2> QED BY <2>1 DEF OwnPriority
<1>11. Known'
  BY <1>1, <1>2, KnownStay
<1>12. cur' = cur
  BY PlaceKeeps DEF SameTask, cur
<1> QED BY <1>1, <1>2, <1>3, <1>8, <1>9, <1>10, <1>11, <1>12, MoveHeld

\* prvUnlockQueue.
LEMMA UnlockHeld ==
    ASSUME KernelInv, ListInv, HeldInv, NEW t \in Tasks, prvUnlockQueue(t)
    PROVE  HeldInv'
<1>1. t = cur /\ ~k.pendsv /\ pc[t] = "unlock" /\ UNCHANGED <<xMutexHolder, owns>> /\ CallTypes /\ Known
  BY DEF prvUnlockQueue, At, KernelInv, HeldInv
<1>2. Moves(t, "resume", call[t], ret[t], loc[t])
  BY UnlockMoves DEF KernelInv
<1>3. PICK T : Freed(k, k', T)
  BY UnlockFrees DEF Awoken
<1>4. cur' = cur /\ SameHeld(k, k') /\ \A u : u \in Asleep(k') => u \in Asleep(k)
  BY UnlockEffect DEF Keeps, SameTask, cur
<1>5. SleepOn(k, k', t) /\ SamePrio(k, k') /\ \A u : u \in Asleep(k') => u \in Asleep(k) /\ k'.wake[u] = k.wake[u]
  BY <1>3, <1>4, FreedSleepOn
<1>6. OwnPriority(k')
  BY <1>4, <1>5, OwnSame DEF HeldInv
<1>7. AlarmAt(k, t, call[t], loc[t])
  BY DEF HeldInv, Alarms
<1>8. AlarmAt(k', t, call[t], loc[t])
  BY <1>5, <1>7, AlarmStays
<1>9. Known'
  BY <1>1, <1>2, KnownStay
<1> QED BY <1>1, <1>2, <1>4, <1>5, <1>6, <1>8, <1>9, MoveHeld

\* Resume.
LEMMA ResumeHeld ==
    ASSUME KernelInv, ListInv, HeldInv, NEW t \in Tasks, Resume(t)
    PROVE  HeldInv'
<1>1. t = cur /\ ~k.pendsv /\ pc[t] = "resume" /\ UNCHANGED <<xMutexHolder, owns>> /\ CallTypes /\ Known
  BY DEF Resume, At, KernelInv, HeldInv, queueVars
<1>2. Resumed(k, k')
  BY ResumeEffect
<1>3. PICK W : Freed(k, k', W)
  BY <1>2 DEF Resumed, Rested
<1>4. cur' = cur /\ SameHeld(k, k') /\ \A u : u \in Asleep(k') => u \in Asleep(k)
  BY <1>2 DEF Resumed, cur
<1>5. SleepOn(k, k', t) /\ SamePrio(k, k') /\ \A u : u \in Asleep(k') => u \in Asleep(k) /\ k'.wake[u] = k.wake[u]
  BY <1>3, <1>4, FreedSleepOn
<1>6. OwnPriority(k')
  BY <1>4, <1>5, OwnSame DEF HeldInv
<1>7. AlarmAt(k, t, call[t], loc[t]) /\ PatientAt(k, pc[t], call[t], ret[t], loc[t])
  BY DEF HeldInv, Alarms, ListInv, Patient
<1>8. WalkAt(pc[t], call[t], ret[t], loc[t])
  BY Here DEF KernelInv
<1>9. PICK p, r, l : /\ Moves(t, p, call[t], r, l) /\ p \in {"return", "try", "recheck"}
                     /\ r = ret[t] \/ call[t].op = "delay"
                     /\ \/ call[t].op # "lock"
                        \/ l.set = loc[t].set /\ l.xTicksToWait = loc[t].xTicksToWait
                           /\ l.xTimeOnEntering = loc[t].xTimeOnEntering
  <2>1. call[t].op = "lock" => loc[t].path # "expired"
    BY <1>7 DEF PatientAt
  <2>2. CASE call[t].op = "delay" /\ \E l : Moves(t, "return", call[t], Ok, l)
    BY <2>2
  <2>3. CASE call[t].op = "post" /\ \E l : Moves(t, "try", call[t], ret[t], l)
    BY <2>3
  <2>4. CASE loc[t].path = "expired" /\ \E l : Moves(t, "recheck", call[t], ret[t], l)
    BY <2>1, <2>4
  <2>5. CASE \E l : /\ Moves(t, "try", call[t], ret[t], l)
                    /\ l.xTicksToWait = loc[t].xTicksToWait /\ l.set = loc[t].set
                    /\ l.xTimeOnEntering = loc[t].xTimeOnEntering
    BY <2>5
  <2> QED BY <2>2, <2>3, <2>4, <2>5, ResumeMoves DEF KernelInv
<1>10. AlarmAt(k', t, call[t], l)
  <2>1. CASE call[t].op # "lock"
    BY <2>1 DEF AlarmAt
  <2>2. CASE call[t].op = "lock"
    BY <1>5, <1>7, <1>9, <2>2, AlarmStays
  <2> QED BY <2>1, <2>2
<1>11. Known'
  BY <1>1, <1>9, KnownStay
<1> QED BY <1>1, <1>4, <1>5, <1>6, <1>9, <1>10, <1>11, MoveHeld

\* Waking the first task of a list frees at most that task.
LEMMA WakeOneFreed ==
    ASSUME NEW s, Sane(s), NEW q \in Queues, NEW side \in Sides
    PROVE  /\ Keeps(s, WakeOne(s, q, side))
           /\ \E W \in SUBSET Waiting(s, q, side) : Freed(s, WakeOne(s, q, side), W)
<1>1. Keeps(s, WakeOne(s, q, side))
  BY WakeOneKeeps DEF Sides
<1>2. CASE WakeOne(s, q, side) = s
  <2>1. SameEvents(s, s) /\ SameSleep(s, s) /\ SamePrio(s, s)
    BY DEF SameEvents, SameSleep, SamePrio
  <2>2. Freed(s, s, {})
    BY <2>1, FreedNobody
  <2> QED BY <1>1, <1>2, <2>2
<1>3. CASE /\ Woken(s, q, side) \in Waiting(s, q, side)
           /\ Roused(s, WakeOne(s, q, side), Woken(s, q, side))
  <2>1. Freed(s, WakeOne(s, q, side), {Woken(s, q, side)})
    BY <1>3 DEF Roused, WokenUp
  <2> QED BY <1>1, <1>3, <2>1
<1> QED BY <1>2, <1>3, WakeOneIs

\* A call on the mailbox is served.
LEMMA ServedHeld ==
    ASSUME KernelInv, ListInv, HeldInv, NEW t \in Tasks, t = cur, ~k.pendsv, pc[t] = "try",
           call[t].op \notin {"lock", "unlock"}, UNCHANGED <<xMutexHolder, owns>>,
           NEW r, Moves(t, "return", call[t], r, loc[t]),
           Keeps(k, k'), NEW W, Freed(k, k', W)
    PROVE  HeldInv'
<1>1. CallTypes /\ Known
  BY DEF KernelInv, HeldInv
<1>2. t \notin Asleep(k)
  BY AwakeNow DEF ListInv
<1>3. cur' = cur /\ SameHeld(k, k') /\ \A u : u \in Asleep(k') => u \in Asleep(k)
  BY DEF Keeps, SameTask, cur
<1>4. SleepOn(k, k', t) /\ SamePrio(k, k')
  BY <1>3, FreedSleepOn
<1>5. OwnPriority(k')
  BY <1>3, <1>4, OwnSame DEF HeldInv
<1>6. AlarmAt(k', t, call[t], loc[t])
  BY <1>2, <1>3, NoAlarm
<1>7. Known'
  BY <1>1, KnownStay
<1> QED BY <1>3, <1>4, <1>5, <1>6, <1>7, MoveHeld

\* TryReceive.
LEMMA ReceiveHeld ==
    ASSUME KernelInv, ListInv, HeldInv, NEW t \in Tasks, TryReceive(t)
    PROVE  HeldInv'
<1>1. t = cur /\ ~k.pendsv /\ pc[t] = "try" /\ call' = call /\ owns' = owns /\ Fetching(t)
  BY DEF TryReceive, At
<1>2. call[t].op \notin {"lock", "unlock"}
  BY <1>1 DEF Fetching
<1>3. CASE uxMessagesWaiting[mbox] = 0
  <2>1. Refuse(t)
    BY <1>3, Zenon DEF TryReceive
  <2> QED BY <1>1, <1>2, <2>1, RefuseHeld
<1>4. CASE uxMessagesWaiting[mbox] # 0
  <2>1. k' = WakeOne(k, mbox, "send") /\ xMutexHolder' = xMutexHolder
    BY <1>4, Zenon DEF TryReceive
  <2>2. PICK r : Moves(t, "return", call[t], r, loc[t])
    BY <1>4, ReceiveMoves DEF KernelInv, QueueInv
  <2>3. mbox \in Queues /\ Sane(k) /\ "send" \in Sides
    BY Constants DEF KernelInv, TaskInv, Sides
  <2>4. PICK W : Keeps(k, k') /\ Freed(k, k', W)
    BY <2>1, <2>3, WakeOneFreed
  <2> QED BY <1>1, <1>2, <2>1, <2>2, <2>4, ServedHeld
<1> QED BY <1>3, <1>4

\* What TryTake does when the mutex is free.
LEMMA TakeEffect ==
    ASSUME KernelInv, NEW t \in Tasks, TryTake(t), uxMessagesWaiting[Target(t)] # 0
    PROVE  /\ Target(t) \in Mutexes /\ Target(t) = call[t].mutex /\ xMutexHolder[Target(t)] = NULL
           /\ xMutexHolder' = [xMutexHolder EXCEPT ![Target(t)] = t]
           /\ SameEvents(k, k') /\ SameSleep(k, k') /\ SamePrio(k, k') /\ SameYield(k, k')
           /\ SameTask(k, k') /\ SameClock(k, k')
           /\ k'.uxMutexesHeld[t] > 0 /\ \A u \in Tasks \ {t} : k'.uxMutexesHeld[u] = k.uxMutexesHeld[u]
<1>1. call[t].op = "lock"
  BY DEF TryTake
<1>2. PICK q \in Mutexes : q = Target(t) /\ q = call[t].mutex /\ q \in Queues /\ q # mbox
  BY <1>1, TargetIs, Constants DEF KernelInv
<1>3. PICK r : r = k'
  OBVIOUS
<1>4. /\ xMutexHolder' = [xMutexHolder EXCEPT ![q] = t]
      /\ r = [k EXCEPT !.uxMutexesHeld[t] = k.uxMutexesHeld[t] + 1]
  BY <1>2, <1>3, Zenon DEF TryTake
<1>5. uxMessagesWaiting[q] \in Nat /\ uxMessagesWaiting[q] <= 1
  BY <1>2 DEF KernelInv, QueueInv, QueueTypes, uxLength
<1>6. xMutexHolder[q] = NULL
  BY <1>2, <1>5 DEF KernelInv, QueueInv, Holders
<1>7. k \in KRec /\ t \in AllTasks /\ Tasks \subseteq AllTasks
  BY Constants DEF KernelInv, TaskInv, Sane
<1>8. /\ SameEvents(k, r) /\ SameSleep(k, r) /\ SamePrio(k, r) /\ SameYield(k, r)
      /\ SameTask(k, r) /\ SameClock(k, r)
  BY <1>4, <1>7 DEF KRec, SameEvents, SameSleep, SamePrio, SameYield, SameTask, SameClock
<1>9. /\ r.uxMutexesHeld[t] = k.uxMutexesHeld[t] + 1
      /\ \A u \in Tasks \ {t} : r.uxMutexesHeld[u] = k.uxMutexesHeld[u]
  BY <1>4, <1>7 DEF KRec
<1>10. k.uxMutexesHeld[t] \in Nat
  <2>1. IsFiniteSet(Held(t)) /\ k.uxMutexesHeld[t] = Cardinality(Held(t))
    BY DEF KernelInv, TaskInv, Counts
  <2> QED BY <2>1, FS_CardinalityType
<1>11. r.uxMutexesHeld[t] > 0
  BY <1>9, <1>10
<1> QED BY <1>2, <1>3, <1>4, <1>6, <1>8, <1>9, <1>11

\* TryTake.
LEMMA TakeHeld ==
    ASSUME KernelInv, ListInv, HeldInv, NEW t \in Tasks, TryTake(t)
    PROVE  HeldInv'
<1>1. t = cur /\ ~k.pendsv /\ pc[t] = "try" /\ owns' = owns /\ call' = call /\ call[t].op = "lock"
  BY DEF TryTake, At
<1>2. CASE uxMessagesWaiting[Target(t)] = 0
  <2>1. Refuse(t)
    BY <1>2, Zenon DEF TryTake
  <2> QED BY <1>1, <2>1, RefuseHeld
<1>3. CASE uxMessagesWaiting[Target(t)] # 0
  <2>1. PICK q \in Mutexes : q = Target(t) /\ q = call[t].mutex /\ xMutexHolder[q] = NULL
                             /\ xMutexHolder' = [xMutexHolder EXCEPT ![q] = t]
    BY <1>3, TakeEffect
  <2>2. /\ SameSleep(k, k') /\ SamePrio(k, k') /\ SameTask(k, k')
        /\ k'.uxMutexesHeld[t] > 0 /\ \A u \in Tasks \ {t} : k'.uxMutexesHeld[u] = k.uxMutexesHeld[u]
    BY <1>3, TakeEffect
  <2>3. Moves(t, "return", call[t], Ok, loc[t])
    BY <1>3, TakeMoves DEF KernelInv
  <2>4. t \notin Asleep(k)
    BY <1>1, AwakeNow DEF ListInv
  <2>5. SleepOn(k, k', t) /\ t \notin Asleep(k') /\ cur' = cur
    BY <2>2, <2>4 DEF SameSleep, SleepOn, Asleep, SameTask, cur
  <2>6. OwnPriority(k')
    BY <2>2 DEF HeldInv, OwnPriority, SamePrio
  <2>7. xMutexHolder \in [Mutexes -> Tasks \cup {NULL}]
    BY DEF KernelInv, QueueInv, QueueTypes
  <2>8. KnowsAt(t, xMutexHolder', call[t], Ok, owns'[t])
    <3>1. KnowsAt(t, xMutexHolder, call[t], ret[t], owns[t])
      BY DEF HeldInv, Known
    <3>2. ret[t] = Pending
      BY <1>1, Here DEF KernelInv, WalkAt
    <3>3. ASSUME NEW m \in Mutexes, xMutexHolder'[m] = t, m # q PROVE m \in owns[t]
      <4>1. xMutexHolder[m] = t
        BY <2>1, <2>7, <3>3
      <4> QED BY <3>1, <3>2, <4>1 DEF KnowsAt
    <3> QED BY <1>1, <2>1, <3>3, Results DEF KnowsAt
  <2>9. \A u \in Tasks \ {t} : \A m \in Mutexes : xMutexHolder'[m] = u => xMutexHolder[m] = u
    BY <2>1, <2>7
  <2>10. Known'
    BY <1>1, <2>3, <2>8, <2>9, KnownStep DEF KernelInv, HeldInv
  <2>11. AlarmAt(k', t, call[t], loc[t])
    BY <2>5, NoAlarm
  <2> QED BY <1>1, <2>3, <2>5, <2>6, <2>10, <2>11, MoveHeld
<1> QED BY <1>2, <1>3

\* What TrySend does when it gives a mutex: the caller is the holder.
LEMMA GiveParts ==
    ASSUME KernelInv, ListInv, NEW t \in Tasks, TrySend(t), call[t].op = "unlock"
    PROVE  /\ Target(t) \in Mutexes /\ Target(t) = call[t].mutex /\ xMutexHolder[Target(t)] = t
           /\ xMutexHolder' = [xMutexHolder EXCEPT ![Target(t)] = NULL]
           /\ Moves(t, "return", call[t], Ok, loc[t])
           /\ \E d : Given(k, d, k', t, Target(t))
<1>1. t = cur /\ pc[t] = "try"
  BY DEF TrySend, At
<1>2. ~(uxMessagesWaiting[Target(t)] >= uxLength(Target(t)))
  BY <1>1, GiveServed
<1>3. PICK q \in Mutexes : q = Target(t) /\ q = call[t].mutex /\ q # mbox
  BY TargetIs, Constants DEF KernelInv
<1>4. OwnersAt(t, xMutexHolder, call[t], ret[t], owns[t]) /\ ret[t] = Pending
  BY <1>1, Here DEF ListInv, Owners, KernelInv, WalkAt
<1>5. xMutexHolder[q] = t
  BY <1>3, <1>4 DEF OwnersAt
<1>6. \E d : Given(k, d, k', t, q)
  BY <1>2, <1>3, <1>5, GiveFrees
<1>7. xMutexHolder' = [xMutexHolder EXCEPT ![q] = NULL]
  BY <1>2, <1>3, Zenon DEF TrySend
<1>8. Moves(t, "return", call[t], Ok, loc[t])
  BY <1>2, SendMoves DEF KernelInv
<1> QED BY <1>3, <1>5, <1>6, <1>7, <1>8

\* After a mutex is given, tasks that sleep on do so as before.
LEMMA GivenSleeps ==
    ASSUME NEW s, Sane(s), NEW d, NEW r, NEW h \in Tasks, NEW q \in Mutexes, Given(s, d, r, h, q), h \notin Asleep(s)
    PROVE  /\ Asleep(d) = Asleep(s)
           /\ \A u : u \in Asleep(r) => u \in Asleep(s) /\ r.wake[u] = s.wake[u]
           /\ SamePrio(d, r) /\ SameHeld(d, r) /\ SameTask(s, r)
<1>1. Sane(d) /\ Asleep(d) = Asleep(s) /\ (\A u \in Asleep(s) : d.wake[u] = s.wake[u]) /\ SameTask(s, d)
  BY DEF Given, Lowered, Disinherited
<1>2. q \in Queues /\ "recv" \in Sides
  BY Constants DEF Sides
<1>3. CASE Waiting(s, q, "recv") # {}
  <2>1. r = WakeOne(d, q, "recv")
    BY <1>3 DEF Given
  <2>2. PICK W : Keeps(d, r) /\ Freed(d, r, W)
    BY <1>1, <1>2, <2>1, WakeOneFreed
  <2>3. (\A u : u \in Asleep(r) => u \in Asleep(d)) /\ SameHeld(d, r) /\ SameTask(d, r)
    BY <2>2 DEF Keeps
  <2>4. (\A u : u \in Asleep(r) => u \in Asleep(d) /\ r.wake[u] = d.wake[u]) /\ SamePrio(d, r)
    BY <2>2, <2>3, FreedSleepOn
  <2> QED BY <1>1, <2>3, <2>4 DEF SameTask
<1>4. CASE Waiting(s, q, "recv") = {}
  <2>1. SameSleep(d, r) /\ SamePrio(d, r) /\ SameTask(d, r) /\ SameHeld(d, r)
    BY <1>4 DEF Given
  <2> QED BY <1>1, <2>1 DEF SameSleep, Asleep, SameTask
<1> QED BY <1>3, <1>4

\* TrySend.
LEMMA SendHeld ==
    ASSUME KernelInv, ListInv, HeldInv, NEW t \in Tasks, TrySend(t)
    PROVE  HeldInv'
<1>1. t = cur /\ ~k.pendsv /\ pc[t] = "try" /\ owns' = owns /\ call' = call /\ Posting(t)
  BY DEF TrySend, At
<1>2. call[t].op # "lock"
  BY <1>1 DEF Posting
<1>3. CASE call[t].op # "unlock"
  <2>1. CASE uxMessagesWaiting[Target(t)] >= uxLength(Target(t))
    <3>1. Refuse(t)
      BY <2>1, Zenon DEF TrySend
    <3> QED BY <1>1, <1>3, <3>1, RefuseHeld
  <2>2. CASE ~(uxMessagesWaiting[Target(t)] >= uxLength(Target(t)))
    <3>1. Target(t) = mbox /\ xMutexHolder' = xMutexHolder
      BY <1>3, <2>2, PostEffect
    <3>2. k' = WakeOne(k, mbox, "recv")
      BY <2>2, <3>1, Zenon DEF TrySend
    <3>3. Moves(t, "return", call[t], Ok, loc[t])
      BY <2>2, SendMoves DEF KernelInv
    <3>4. mbox \in Queues /\ Sane(k) /\ "recv" \in Sides
      BY Constants DEF KernelInv, TaskInv, Sides
    <3>5. PICK W : Keeps(k, k') /\ Freed(k, k', W)
      BY <3>2, <3>4, WakeOneFreed
    <3> QED BY <1>1, <1>2, <1>3, <3>1, <3>3, <3>5, ServedHeld
  <2> QED BY <2>1, <2>2
<1>4. CASE call[t].op = "unlock"
  <2>1. PICK q \in Mutexes : /\ q = Target(t) /\ q = call[t].mutex /\ xMutexHolder[q] = t
                             /\ xMutexHolder' = [xMutexHolder EXCEPT ![q] = NULL]
                             /\ \E d : Given(k, d, k', t, q)
    BY <1>4, GiveParts
  <2>2. Moves(t, "return", call[t], Ok, loc[t])
    BY <1>4, GiveParts
  <2>3. PICK r : r = k'
    OBVIOUS
  <2>4. PICK d : Given(k, d, r, t, q)
    BY <2>1, <2>3
  <2>5. t \notin Asleep(k) /\ Sane(k)
    BY <1>1, AwakeNow DEF ListInv, KernelInv, TaskInv
  <2>6. /\ \A u : u \in Asleep(r) => u \in Asleep(k) /\ r.wake[u] = k.wake[u]
        /\ SamePrio(d, r) /\ SameHeld(d, r) /\ SameTask(k, r)
    BY <2>4, <2>5, GivenSleeps
  <2>7. SleepOn(k, r, t) /\ t \notin Asleep(r) /\ cur' = cur
    BY <2>3, <2>5, <2>6 DEF SleepOn, SameTask, cur
  <2>8. OwnPriority(r)
    <3>1. d.uxMutexesHeld = [k.uxMutexesHeld EXCEPT ![t] = k.uxMutexesHeld[t] - 1]
      BY <2>4 DEF Given, Disinherited
    <3>2. \/ d.uxPriority = k.uxPriority /\ (k.uxPriority[t] = Base[t] \/ d.uxMutexesHeld[t] > 0)
          \/ d.uxPriority = [k.uxPriority EXCEPT ![t] = Base[t]]
      BY <2>4 DEF Given, Lowered
    <3>3. k.uxMutexesHeld \in [AllTasks -> Int] /\ k.uxPriority \in [AllTasks -> Prios] /\ Tasks \subseteq AllTasks
      BY <2>5, Constants DEF Sane, KRec
    <3>4. ASSUME NEW u \in Tasks, d.uxMutexesHeld[u] = 0 PROVE d.uxPriority[u] = Base[u]
      <4>1. CASE u = t
        BY <3>2, <3>3, <3>4, <4>1
      <4>2. CASE u # t
        <5>1. k.uxMutexesHeld[u] = 0
          BY <3>1, <3>3, <3>4, <4>2
        <5>2. k.uxPriority[u] = Base[u]
          BY <5>1 DEF HeldInv, OwnPriority
        <5> QED BY <3>2, <3>3, <4>2, <5>2
      <4> QED BY <4>1, <4>2
    <3>5. OwnPriority(d)
      BY <3>4 DEF OwnPriority
    <3> QED BY <2>6, <3>5, OwnSame
  <2>9. xMutexHolder \in [Mutexes -> Tasks \cup {NULL}] /\ NULL \notin Tasks
    BY KernelAssumption DEF KernelInv, QueueInv, QueueTypes, NULL
  <2>10. KnowsAt(t, xMutexHolder', call[t], Ok, owns'[t])
    <3>1. KnowsAt(t, xMutexHolder, call[t], ret[t], owns[t])
      BY DEF HeldInv, Known
    <3>2. ret[t] = Pending
      BY <1>1, Here DEF KernelInv, WalkAt
    <3>3. ASSUME NEW m \in Mutexes, xMutexHolder'[m] = t PROVE m \in owns[t] /\ m # q
      <4>1. xMutexHolder[m] = t /\ m # q
        BY <2>1, <2>9, <3>3
      <4> QED BY <3>1, <3>2, <4>1 DEF KnowsAt
    <3> QED BY <1>1, <1>2, <2>1, <3>3 DEF KnowsAt
  <2>11. \A u \in Tasks \ {t} : \A m \in Mutexes : xMutexHolder'[m] = u => xMutexHolder[m] = u
    BY <2>1, <2>9
  <2>12. Known'
    BY <1>1, <2>2, <2>10, <2>11, KnownStep DEF KernelInv, HeldInv
  <2>13. AlarmAt(r, t, call[t], loc[t])
    BY <2>7, NoAlarm
  <2> QED BY <1>1, <2>2, <2>3, <2>7, <2>8, <2>12, <2>13, MoveHeld
<1> QED BY <1>3, <1>4

\* The kernel counts the same mutexes while the holders stay.
LEMMA SameOwn ==
    ASSUME KernelInv, KernelInv', HeldInv, xMutexHolder' = xMutexHolder, SamePrio(k, k')
    PROVE  OwnPriority(k')
<1>1. ASSUME NEW t \in Tasks PROVE k'.uxMutexesHeld[t] = k.uxMutexesHeld[t]
  <2>1. Held(t)' = Held(t)
    BY DEF Held
  <2>2. k.uxMutexesHeld[t] = Cardinality(Held(t)) /\ k'.uxMutexesHeld[t] = Cardinality(Held(t)')
    BY DEF KernelInv, TaskInv, Counts
  <2> QED BY <2>1, <2>2
<1> QED BY <1>1 DEF HeldInv, OwnPriority, SamePrio

\* An interrupt changes no call.
LEMMA IdleHeld ==
    ASSUME KernelInv, KernelInv', HeldInv, UNCHANGED <<callVars, xMutexHolder>>, SamePrio(k, k'), Timed',
           \A u : u \in Asleep(k') => u \in Asleep(k) /\ k'.wake[u] = k.wake[u]
    PROVE  HeldInv'
<1>1. UNCHANGED <<pc, call, ret, loc, owns>>
  BY DEF callVars
<1>2. Known'
  BY <1>1 DEF HeldInv, Known
<1>3. Alarms'
  <2>1. ASSUME NEW t \in Tasks PROVE AlarmAt(k', t, call[t], loc[t])
    <3>1. AlarmAt(k, t, call[t], loc[t])
      BY DEF HeldInv, Alarms
    <3> QED BY <3>1, AlarmStays
  <2> QED BY <1>1, <2>1 DEF Alarms
<1>4. OwnPriority(k')
  BY SameOwn
<1> QED BY <1>2, <1>3, <1>4 DEF HeldInv

\* A tick with the scheduler suspended does not move the clock.
LEMMA PendedClock ==
    ASSUME KernelInv, Tick, k.uxSchedulerSuspended
    PROVE  k'.xTickCount = k.xTickCount
<1>1. k' = PendedTick(k)
  BY Zenon DEF Tick, PendedTick
<1> QED BY <1>1 DEF PendedTick, KernelInv, TaskInv, Sane, KRec

\* Tick.
LEMMA TickHeld ==
    ASSUME KernelInv, KernelInv', ListInv, HeldInv, Tick
    PROVE  HeldInv'
<1>1. UNCHANGED <<callVars, xMutexHolder>> /\ UNCHANGED <<pc, loc>>
  BY DEF Tick, queueVars, callVars
<1>2. cur' = cur /\ \A u : u \in Asleep(k') => u \in Asleep(k)
  BY TickKeeps DEF SameTask, cur
<1>3. SamePrio(k, k') /\ \A u : u \in Asleep(k') => u \in Asleep(k) /\ k'.wake[u] = k.wake[u]
  <2>1. CASE Chimed(k, k')
    <3>1. PICK W : Freed(k, k', W)
      BY <2>1 DEF Chimed
    <3> QED BY <1>2, <3>1, FreedSleepOn
  <2>2. CASE SameSleep(k, k') /\ SamePrio(k, k')
    BY <2>2 DEF SameSleep, Asleep
  <2> QED BY <2>1, <2>2, TickEffect
<1>4. Timed'
  <2>1. CASE k.uxSchedulerSuspended
    BY <1>1, <1>2, <2>1, PendedClock DEF HeldInv, Timed
  <2>2. CASE ~k.uxSchedulerSuspended
    <3>1. pc[cur] \notin Suspending
      BY <2>2 DEF KernelInv, Scheduler
    <3> QED BY <1>1, <1>2, <3>1 DEF Timed, Suspending
  <2> QED BY <2>1, <2>2
<1> QED BY <1>1, <1>3, <1>4, IdleHeld

\* IsrPost.
LEMMA IsrPostHeld ==
    ASSUME KernelInv, KernelInv', ListInv, HeldInv, IsrPost
    PROVE  HeldInv'
<1>1. UNCHANGED <<callVars, xMutexHolder>> /\ UNCHANGED <<pc, loc>>
  BY DEF IsrPost, callVars
<1>2. SameTask(k, k') /\ SameClock(k, k') /\ \A u : u \in Asleep(k') => u \in Asleep(k)
  BY IsrPostKeeps DEF Keeps
<1>3. PICK W : Freed(k, k', W)
  <2>1. CASE cTxLock[mbox] = queueUNLOCKED
    <3>1. k' = WakeOne(k, mbox, "recv")
      BY <2>1, Zenon DEF IsrPost
    <3>2. mbox \in Queues /\ Sane(k) /\ "recv" \in Sides
      BY Constants DEF KernelInv, TaskInv, Sides
    <3> QED BY <3>1, <3>2, WakeOneFreed
  <2>2. CASE cTxLock[mbox] # queueUNLOCKED
    <3>1. k' = k
      BY <2>2, Zenon DEF IsrPost
    <3>2. SameEvents(k, k') /\ SameSleep(k, k') /\ SamePrio(k, k')
      BY <3>1 DEF SameEvents, SameSleep, SamePrio
    <3> QED BY <3>2, FreedNobody
  <2> QED BY <2>1, <2>2
<1>4. SamePrio(k, k') /\ \A u : u \in Asleep(k') => u \in Asleep(k) /\ k'.wake[u] = k.wake[u]
  BY <1>2, <1>3, FreedSleepOn
<1>5. Timed'
  BY <1>1, <1>2 DEF HeldInv, Timed, SameTask, SameClock, cur
<1> QED BY <1>1, <1>4, <1>5, IdleHeld

\* vTaskSwitchContext.
LEMMA SwitchHeld ==
    ASSUME KernelInv, KernelInv', ListInv, HeldInv, vTaskSwitchContext
    PROVE  HeldInv'
<1>1. UNCHANGED <<callVars, xMutexHolder>> /\ UNCHANGED <<pc, loc>>
  BY DEF vTaskSwitchContext, queueVars, callVars
<1>2. SameSleep(k, k') /\ SamePrio(k, k')
  BY SwitchEffect
<1>3. \A u : u \in Asleep(k') => u \in Asleep(k) /\ k'.wake[u] = k.wake[u]
  BY <1>2 DEF SameSleep, Asleep
<1>4. Timed'
  <2>1. CASE k.uxSchedulerSuspended
    <3>1. cur' = cur
      BY <2>1, SwitchEffect
    <3>2. k'.xTickCount = k.xTickCount
      <4>1. k' = [k EXCEPT !.pendsv = FALSE, !.xYieldPending = TRUE]
        BY <2>1, Zenon DEF vTaskSwitchContext
      <4> QED BY <4>1 DEF KernelInv, TaskInv, Sane, KRec
    <3> QED BY <1>1, <3>1, <3>2 DEF HeldInv, Timed
  <2>2. CASE ~k.uxSchedulerSuspended
    <3>1. \A t \in AllTasks : pc[t] \notin Suspending
      BY <2>2 DEF KernelInv, Scheduler
    <3>2. cur' \in AllTasks
      BY DEF KernelInv, TaskInv, Sane, KRec, cur
    <3>3. pc'[cur'] \notin {"test", "place"}
      BY <1>1, <3>1, <3>2 DEF Suspending
    <3> QED BY <3>3 DEF Timed
  <2> QED BY <2>1, <2>2
<1> QED BY <1>1, <1>2, <1>3, <1>4, IdleHeld

\* At the start no mutex is held and nobody sleeps.
LEMMA HeldInit == Init => HeldInv
<1> SUFFICES ASSUME Init PROVE HeldInv
  OBVIOUS
<1>1. KernelInv /\ Asleep(k) = {} /\ Tasks \subseteq AllTasks
  BY KernelInit, InitTasks, Constants
<1>2. Known
  <2>1. ASSUME NEW t \in Tasks PROVE KnowsAt(t, xMutexHolder, call[t], ret[t], owns[t])
    <3>1. call[t] = NoCall /\ \A m \in Mutexes : xMutexHolder[m] = NULL
      BY <1>1 DEF Init
    <3>2. NULL # t /\ call[t].op = "none"
      BY <3>1, KernelAssumption DEF NULL, NoCall
    <3> QED BY <3>1, <3>2 DEF KnowsAt
  <2> QED BY <2>1 DEF Known
<1>3. Alarms
  BY <1>1 DEF Alarms, AlarmAt
<1>4. Timed
  <2>1. pc[cur] = "idle"
    BY <1>1 DEF Init, KernelInv, TaskInv, Sane, KRec, cur
  <2> QED BY <2>1 DEF Timed
<1>5. OwnPriority(k)
  <2>1. k.uxPriority = Base
    BY DEF Init
  <2> QED BY <2>1 DEF OwnPriority
<1> QED BY <1>2, <1>3, <1>4, <1>5 DEF HeldInv

\* The fourth layer is inductive with the first two.
LEMMA HeldNext == KernelInv /\ ListInv /\ HeldInv /\ [Next]_vars => HeldInv'
<1> SUFFICES ASSUME KernelInv, ListInv, HeldInv, [Next]_vars PROVE HeldInv'
  OBVIOUS
<1>1. KernelInv'
  BY KernelNext
<1>2. ASSUME NEW t \in Tasks, Step(t) PROVE HeldInv'
  BY <1>2, BeginHeld, DelayHeld, SendHeld, ReceiveHeld, TakeHeld, SuspendHeld, LockHeld, CheckHeld,
     TestHeld, PlaceHeld, UnlockHeld, ResumeHeld, RecheckHeld, ReturnHeld DEF Step
<1>3. CASE Tick
  BY <1>1, <1>3, TickHeld
<1>4. CASE IsrPost
  BY <1>1, <1>4, IsrPostHeld
<1>5. CASE vTaskSwitchContext
  BY <1>1, <1>5, SwitchHeld
<1>6. CASE UNCHANGED vars
  <2>1. k' = k /\ UNCHANGED <<callVars, xMutexHolder>> /\ UNCHANGED <<pc, loc>>
    BY <1>6 DEF vars, queueVars, callVars
  <2>2. Timed' /\ SamePrio(k, k')
    BY <2>1 DEF HeldInv, Timed, cur, SamePrio
  <2> QED BY <1>1, <2>1, <2>2, IdleHeld
<1> QED BY <1>2, <1>3, <1>4, <1>5, <1>6 DEF Next

\* Four layers of the invariant, in every state of the kernel.
LEMMA FourLayers ==
    ASSUME MUTEX_EXPIRES = FALSE
    PROVE  Spec => [](KernelInv /\ ListInv /\ WakeInv /\ HeldInv)
<1>1. KernelInv /\ ListInv /\ [Next]_vars => ListInv'
  BY ListNext
<1> QED BY <1>1, KernelInit, KernelNext, ListInit, WakeInit, WakeNext, HeldInit, HeldNext, PTL DEF Spec

-----------------------------------------------------------------------------
(* The fifth layer: the highest task runs, and a holder is raised to the   *)
(* priority of those that wait                                             *)

\* The step in which the kernel forgets a switch.  xTaskPriorityDisinherit()
\* lowers t, which gives its last mutex, and asks for a switch, because a task u
\* is awake that now outranks t.  xQueueGenericSend() ignores the request if a
\* task waits for the mutex, and looks only at whether that task outranks t.
ForgetsSwitch ==
    \E t \in Tasks :
        /\ TrySend(t) /\ call[t].op = "unlock" /\ k.uxMutexesHeld[t] = 1
        /\ k.waitRecv[Target(t)] # << >> /\ k.uxPriority[Head(k.waitRecv[Target(t)])] <= Base[t]
        /\ \E u \in Tasks \ {t} : u \notin Asleep(k) /\ k.uxPriority[u] > Base[t]

\* A switch is on its way to any task that outranks the current one, whose
\* locals are l.
LedAt(s, l) ==
    \/ s.pendsv
    \/ s.uxSchedulerSuspended /\ (s.xYieldPending \/ l.path = "blocked")
    \/ Leads(s)
Led == LedAt(k, loc[cur])

\* The holder h runs at least at the priority of the tasks W that wait.
Boosted(s, h, W) == \A u \in W : s.uxPriority[h] >= Base[u]

\* While tasks W wait for a free mutex, a task of C is awake to take it that runs
\* at least at their priority.
Heir(s, C, W) == \E w \in C : w \notin Asleep(s) /\ \A u \in W : s.uxPriority[w] >= Base[u]

\* Mutex m with holder h and callers C.
MutexAt(s, h, C, m) ==
    /\ Sorted(s.uxPriority, s.waitRecv[m])
    /\ h # NULL => Boosted(s, h, Waiting(s, m, "recv"))
    /\ h = NULL /\ Waiting(s, m, "recv") # {} => Heir(s, C, Waiting(s, m, "recv"))
MutexInv == \A m \in Mutexes : MutexAt(k, xMutexHolder[m], Calling(call, ret, m, "recv"), m)

PrioInv == Led /\ MutexInv

\* A caller of a mutex is in a call to take it.
LEMMA Locker ==
    ASSUME NEW c, NEW r, NEW m \in Mutexes, InCall(c, r, m, "recv")
    PROVE  c.op = "lock" /\ c.mutex = m /\ r = Pending
<1>1. m # mbox
  BY Constants
<1> QED BY <1>1 DEF InCall

\* A task that asks for a mutex does not hold it.
LEMMA NotHolder ==
    ASSUME HeldInv, NEW m \in Mutexes, NEW t \in Tasks, InCall(call[t], ret[t], m, "recv")
    PROVE  xMutexHolder[m] # t
<1>1. call[t].op = "lock" /\ call[t].mutex = m /\ ret[t] = Pending
  BY Locker
<1>2. KnowsAt(t, xMutexHolder, call[t], ret[t], owns[t])
  BY DEF HeldInv, Known
<1> QED BY <1>1, <1>2 DEF KnowsAt

\* A task that waits for a mutex.
LEMMA Waiter ==
    ASSUME KernelInv, ListInv, WakeInv, NEW m \in Mutexes, NEW u, u \in Waiting(k, m, "recv")
    PROVE  u \in Tasks /\ InCall(call[u], ret[u], m, "recv") /\ u \in Asleep(k)
<1>1. m \in Queues /\ "recv" \in Sides
  BY Constants DEF Sides
<1>2. Waiting(k, m, "recv") \subseteq Calling(call, ret, m, "recv")
  BY <1>1 DEF WakeInv, ServeInv, Serves
<1>3. u \in Asleep(k)
  BY <1>1 DEF ListInv, Sound, Listed, Waiting, EventList
<1> QED BY <1>2, <1>3 DEF Calling

\* All who wait for a mutex are in a call to take it.
LEMMA WaitersCall ==
    ASSUME KernelInv, ListInv, WakeInv, NEW m \in Mutexes
    PROVE  Waiting(k, m, "recv") \subseteq Calling(call, ret, m, "recv")
BY Waiter DEF Calling

\* Who waits for a mutex does not wait for another.
LEMMA WaitsOnce ==
    ASSUME KernelInv, ListInv, WakeInv, NEW m \in Mutexes, NEW q \in Mutexes, m # q, NEW u, u \in Waiting(k, q, "recv")
    PROVE  u \notin Waiting(k, m, "recv")
<1>1. InCall(call[u], ret[u], q, "recv")
  BY Waiter
<1>2. u \in Waiting(k, m, "recv") => InCall(call[u], ret[u], m, "recv")
  BY Waiter
<1> QED BY <1>1, <1>2, Locker

\* Who waits for the mailbox does not wait for a mutex.
LEMMA MailWaiter ==
    ASSUME KernelInv, ListInv, WakeInv, NEW side \in Sides, NEW u, u \in Waiting(k, mbox, side), NEW m \in Mutexes
    PROVE  u \notin Waiting(k, m, "recv")
<1>1. SUFFICES ASSUME u \in Waiting(k, m, "recv") PROVE FALSE
  OBVIOUS
<1>2. InCall(call[u], ret[u], m, "recv")
  BY <1>1, Waiter
<1>3. call[u].op = "lock" /\ call[u].mutex = m
  BY <1>2, Locker
<1>4. Waiting(k, mbox, side) \subseteq Calling(call, ret, mbox, side) /\ m # mbox
  BY Constants DEF WakeInv, ServeInv, Serves
<1> QED BY <1>3, <1>4 DEF Calling, InCall

\* A wait for a mutex has not ended, and the alarm is set to its end.
LEMMA WaiterFresh ==
    ASSUME KernelInv, ListInv, WakeInv, HeldInv, NEW m \in Mutexes, NEW u, u \in Waiting(k, m, "recv")
    PROVE  /\ u \in Tasks /\ call[u].op = "lock" /\ loc[u] \in Locals /\ loc[u].set
           /\ Alarm(k, u, loc[u]) /\ Fresh(k, loc[u], k.uxPendedTicks)
<1>1. u \in Tasks /\ InCall(call[u], ret[u], m, "recv") /\ u \in Asleep(k)
  BY Waiter
<1>2. call[u].op = "lock"
  BY <1>1, Locker
<1>3. loc[u] \in Locals /\ AlarmAt(k, u, call[u], loc[u]) /\ PatientAt(k, pc[u], call[u], ret[u], loc[u])
  BY <1>1, Here DEF KernelInv, HeldInv, Alarms, ListInv, Patient
<1> QED BY <1>1, <1>2, <1>3 DEF AlarmAt, PatientAt

\* Priorities are numbers.
LEMMA PrioNat ==
    ASSUME NEW s, Sane(s)
    PROVE  /\ s.pxCurrentTCB \in AllTasks
           /\ \A u \in AllTasks : s.uxPriority[u] \in Nat /\ Base[u] \in Nat /\ s.uxPriority[u] >= Base[u]
<1>1. s.uxPriority \in [AllTasks -> Prios] /\ Base \in [AllTasks -> Prios] /\ Prios \subseteq Nat
  BY Constants DEF Sane, KRec
<1> QED BY <1>1 DEF Sane, KRec, Raised

\* Mutex m is left alone.
LEMMA MutexCalm ==
    ASSUME NEW s, NEW r, NEW h, NEW C, NEW D, NEW m, MutexAt(s, h, C, m), SamePrio(s, r),
           Waiting(r, m, "recv") = Waiting(s, m, "recv"), Thins(s.waitRecv[m], r.waitRecv[m]),
           C \subseteq D, \A u \in C : u \in Asleep(r) => u \in Asleep(s)
    PROVE  MutexAt(r, h, D, m)
<1>1. h # NULL => Boosted(r, h, Waiting(r, m, "recv"))
  BY DEF MutexAt, Boosted, SamePrio
<1>2. Heir(s, C, Waiting(s, m, "recv")) => Heir(r, D, Waiting(r, m, "recv"))
  BY DEF Heir, SamePrio
<1>3. Sorted(r.uxPriority, r.waitRecv[m])
  BY DEF MutexAt, Thins, SamePrio
<1> QED BY <1>1, <1>2, <1>3 DEF MutexAt

\* Mutex m is left alone, and its holder and its callers are not lowered.
LEMMA MutexRaised ==
    ASSUME NEW s, Sane(s), NEW r, Sane(r), NEW m \in Mutexes, NEW h \in Tasks \cup {NULL}, NEW C \in SUBSET Tasks,
           NEW D, C \subseteq D, MutexAt(s, h, C, m), Waiting(s, m, "recv") \subseteq C,
           Waiting(r, m, "recv") = Waiting(s, m, "recv"), Thins(s.waitRecv[m], r.waitRecv[m]),
           h # NULL => r.uxPriority[h] >= s.uxPriority[h],
           \A u \in C : r.uxPriority[u] >= s.uxPriority[u] /\ (u \in Asleep(r) => u \in Asleep(s))
    PROVE  MutexAt(r, h, D, m)
<1>1. \A u \in Tasks : s.uxPriority[u] \in Nat /\ r.uxPriority[u] \in Nat /\ Base[u] \in Nat
  BY PrioNat, Constants
<1>2. PICK W \in SUBSET C : W = Waiting(s, m, "recv") /\ W = Waiting(r, m, "recv")
  OBVIOUS
<1>3. ASSUME h # NULL PROVE Boosted(r, h, W)
  <2>1. h \in Tasks /\ \A u \in W : s.uxPriority[h] >= Base[u]
    BY <1>2, <1>3 DEF MutexAt, Boosted
  <2>2. ASSUME NEW u \in W PROVE r.uxPriority[h] >= Base[u]
    <3>1. u \in Tasks /\ r.uxPriority[h] >= s.uxPriority[h] /\ s.uxPriority[h] >= Base[u]
      BY <1>3, <2>1
    <3> QED BY <1>1, <2>1, <3>1
  <2> QED BY <2>2 DEF Boosted
<1>4. ASSUME h = NULL, W # {} PROVE Heir(r, D, W)
  <2>1. PICK w \in C : w \notin Asleep(s) /\ \A u \in W : s.uxPriority[w] >= Base[u]
    BY <1>2, <1>4 DEF MutexAt, Heir
  <2>2. w \in D /\ w \in Tasks /\ w \notin Asleep(r) /\ r.uxPriority[w] >= s.uxPriority[w]
    BY <2>1
  <2>3. ASSUME NEW u \in W PROVE r.uxPriority[w] >= Base[u]
    <3>1. u \in Tasks /\ s.uxPriority[w] >= Base[u]
      BY <2>1
    <3> QED BY <1>1, <2>2, <3>1
  <2> QED BY <2>2, <2>3 DEF Heir
<1>5. Sorted(r.uxPriority, s.waitRecv[m])
  <2>1. PICK l \in Seq(Tasks) : l = s.waitRecv[m] /\ Sorted(s.uxPriority, l)
    BY Constants DEF Sane, KRec, MutexAt
  <2>2. Range(l) = W
    BY <1>2, <2>1 DEF Waiting, EventList
  <2>3. ASSUME NEW i \in DOMAIN l, NEW j \in DOMAIN l, i < j PROVE r.uxPriority[l[i]] >= Base[l[j]]
    <3>1. l[i] \in W /\ l[j] \in W
      BY <2>2 DEF Range
    <3>2. l[i] \in Tasks /\ l[j] \in Tasks /\ r.uxPriority[l[i]] >= s.uxPriority[l[i]]
      BY <3>1
    <3>3. s.uxPriority[l[i]] >= Base[l[j]]
      BY <2>1, <2>3 DEF Sorted
    <3> QED BY <1>1, <3>2, <3>3
  <2> QED BY <2>1, <2>3 DEF Sorted
<1>6. Sorted(r.uxPriority, r.waitRecv[m])
  BY <1>5 DEF Thins
<1> QED BY <1>2, <1>3, <1>4, <1>6 DEF MutexAt

\* Tasks that wait elsewhere are freed.
LEMMA FreedCalm ==
    ASSUME NEW s, NEW r, NEW W, Freed(s, r, W), NEW m \in Mutexes, \A u \in W : u \notin Waiting(s, m, "recv")
    PROVE  /\ SamePrio(s, r) /\ Waiting(r, m, "recv") = Waiting(s, m, "recv")
           /\ Thins(s.waitRecv[m], r.waitRecv[m])
<1>1. m \in Queues /\ "recv" \in Sides
  BY Constants DEF Sides
<1>2. Waiting(r, m, "recv") = Waiting(s, m, "recv") \ W
  BY <1>1, FreedWaiting
<1> QED BY <1>1, <1>2 DEF Freed, SamePrio

\* Callers of a mutex stay callers.
Stay == \A m \in Mutexes : Calling(call, ret, m, "recv") \subseteq Calling(call', ret', m, "recv")

\* They stay when a task moves that is none of them, or stays one.
LEMMA CallersStay ==
    ASSUME CallTypes, NEW t \in Tasks, NEW p, NEW c, NEW r, NEW l, Moves(t, p, c, r, l),
           (c = call[t] /\ r = ret[t]) \/ ret[t] # Pending \/ call[t].op # "lock"
    PROVE  Stay
<1>1. SUFFICES ASSUME NEW m \in Mutexes, NEW u \in Tasks, InCall(call[u], ret[u], m, "recv")
               PROVE  InCall(call'[u], ret'[u], m, "recv")
  BY DEF Stay, Calling
<1>2. call'[t] = c /\ ret'[t] = r /\ \A x \in Tasks \ {t} : call'[x] = call[x] /\ ret'[x] = ret[x]
  BY CallsMove
<1>3. call[u].op = "lock" /\ ret[u] = Pending
  BY <1>1, Locker
<1>4. call'[u] = call[u] /\ ret'[u] = ret[u]
  BY <1>2, <1>3
<1> QED BY <1>1, <1>4

\* Callers of a mutex for which the task that moves does not ask.
LEMMA CallersElsewhere ==
    ASSUME CallTypes, NEW t \in Tasks, NEW p, NEW c, NEW r, NEW l, Moves(t, p, c, r, l),
           NEW m \in Mutexes, ~InCall(call[t], ret[t], m, "recv")
    PROVE  /\ Calling(call, ret, m, "recv") \subseteq Calling(call', ret', m, "recv")
           /\ t \notin Calling(call, ret, m, "recv")
<1>1. \A x \in Tasks \ {t} : call'[x] = call[x] /\ ret'[x] = ret[x]
  BY CallsMove
<1> QED BY <1>1 DEF Calling

\* A step that frees only tasks that wait elsewhere than for a mutex.
LEMMA CalmMutex ==
    ASSUME KernelInv, MutexInv, xMutexHolder' = xMutexHolder, Stay,
           NEW W, Freed(k, k', W), \A m \in Mutexes : \A u \in W : u \notin Waiting(k, m, "recv"),
           \A u : u \in Asleep(k') => u \in Asleep(k)
    PROVE  MutexInv'
<1>1. ASSUME NEW m \in Mutexes PROVE MutexAt(k', xMutexHolder[m], Calling(call', ret', m, "recv"), m)
  <2>1. MutexAt(k, xMutexHolder[m], Calling(call, ret, m, "recv"), m)
    BY DEF MutexInv
  <2>2. PICK C : C = Calling(call, ret, m, "recv")
    OBVIOUS
  <2>3. PICK D : D = Calling(call', ret', m, "recv")
    OBVIOUS
  <2>4. C \subseteq D
    BY <2>2, <2>3 DEF Stay
  <2>5. /\ SamePrio(k, k') /\ Waiting(k', m, "recv") = Waiting(k, m, "recv")
        /\ Thins(k.waitRecv[m], k'.waitRecv[m])
    BY FreedCalm
  <2> QED BY <2>1, <2>2, <2>3, <2>4, <2>5, MutexCalm
<1> QED BY <1>1 DEF MutexInv

\* A step that changes no list.
LEMMA StillMutex ==
    ASSUME KernelInv, MutexInv, xMutexHolder' = xMutexHolder, Stay,
           SameEvents(k, k'), SameSleep(k, k'), SamePrio(k, k')
    PROVE  MutexInv'
<1>1. Freed(k, k', {})
  BY FreedNobody
<1>2. \A u : u \in Asleep(k') => u \in Asleep(k)
  BY DEF SameSleep, Asleep
<1>3. \A m \in Mutexes : \A u \in {} : u \notin Waiting(k, m, "recv")
  OBVIOUS
<1> QED BY <1>1, <1>2, <1>3, CalmMutex

\* A task that steps outside the suspended sections leads.
LEMMA LeadsNow ==
    ASSUME KernelInv, Led, NEW t \in Tasks, t = cur, ~k.pendsv, pc[t] \notin Suspending
    PROVE  Leads(k) /\ ~k.uxSchedulerSuspended
BY DEF KernelInv, Scheduler, Led, LedAt

\* A step that leaves tasks.c alone, of a task that did not just fall asleep.
LEMMA QuietPrio ==
    ASSUME KernelInv, PrioInv, NEW t \in Tasks, t = cur, pc[t] \notin {"unlock", "resume"}, k' = k,
           xMutexHolder' = xMutexHolder, NEW p, NEW c, NEW r, NEW l, Moves(t, p, c, r, l),
           (c = call[t] /\ r = ret[t]) \/ ret[t] # Pending \/ call[t].op # "lock"
    PROVE  PrioInv'
<1>1. CallTypes /\ cur' = cur
  BY DEF KernelInv, cur
<1>2. Stay
  BY <1>1, CallersStay
<1>3. SameEvents(k, k') /\ SameSleep(k, k') /\ SamePrio(k, k')
  BY DEF SameEvents, SameSleep, SamePrio
<1>4. MutexInv'
  BY <1>2, <1>3, StillMutex DEF PrioInv
<1>5. loc[t].path # "blocked"
  BY Here DEF KernelInv, WalkAt
<1>6. Led'
  BY <1>1, <1>5 DEF PrioInv, Led, LedAt
<1> QED BY <1>4, <1>6 DEF PrioInv

\* Begin.
LEMMA BeginPrio ==
    ASSUME KernelInv, PrioInv, NEW t \in Tasks, Begin(t)
    PROVE  PrioInv'
<1>1. t = cur /\ pc[t] = "idle" /\ k' = k /\ xMutexHolder' = xMutexHolder
  BY DEF Begin, At, queueVars
<1>2. PICK c, l : Moves(t, "try", c, Pending, l)
  BY BeginMoves DEF KernelInv
<1>3. call[t].op # "lock"
  BY <1>1, Here, CallRec DEF KernelInv, WalkAt
<1> QED BY <1>1, <1>2, <1>3, QuietPrio

\* A refusal.
LEMMA RefusePrio ==
    ASSUME KernelInv, ListInv, PrioInv, NEW t \in Tasks, t = cur, pc[t] = "try", Refuse(t), call' = call
    PROVE  PrioInv'
<1>1. k' = k /\ xMutexHolder' = xMutexHolder
  BY DEF Refuse, queueVars
<1>2. ret[t] = Pending
  BY Here DEF KernelInv, WalkAt
<1>3. CASE Moves(t, "return", call[t], Failed, loc[t]) /\ loc[t].xTicksToWait = 0
  <2>1. call[t].op # "lock"
    <3>1. PatientAt(k, pc[t], call[t], ret[t], loc[t])
      BY DEF ListInv, Patient
    <3> QED BY <1>3, <3>1 DEF PatientAt
  <2> QED BY <1>1, <1>3, <2>1, QuietPrio
<1>4. CASE \E l : Moves(t, "suspend", call[t], Pending, l)
  BY <1>1, <1>2, <1>4, QuietPrio
<1> QED BY <1>3, <1>4, RefuseMoves DEF KernelInv, TaskInv

\* prvLockQueue.
LEMMA LockPrio ==
    ASSUME KernelInv, PrioInv, NEW t \in Tasks, prvLockQueue(t)
    PROVE  PrioInv'
<1>1. t = cur /\ pc[t] = "lock" /\ k' = k /\ xMutexHolder' = xMutexHolder
  BY DEF prvLockQueue, At
<1>2. Moves(t, "check", call[t], ret[t], loc[t])
  BY LockMoves DEF KernelInv
<1> QED BY <1>1, <1>2, QuietPrio

\* xTaskCheckForTimeOut.
LEMMA CheckPrio ==
    ASSUME KernelInv, PrioInv, NEW t \in Tasks, xTaskCheckForTimeOut(t)
    PROVE  PrioInv'
<1>1. t = cur /\ pc[t] = "check" /\ k' = k /\ xMutexHolder' = xMutexHolder
  BY DEF xTaskCheckForTimeOut, At, queueVars
<1>2. PICK p, l : Moves(t, p, call[t], ret[t], l)
  BY CheckMoves DEF KernelInv, TaskInv
<1> QED BY <1>1, <1>2, QuietPrio

\* TestQueue.
LEMMA TestPrio ==
    ASSUME KernelInv, PrioInv, NEW t \in Tasks, TestQueue(t)
    PROVE  PrioInv'
<1>1. t = cur /\ pc[t] = "test" /\ k' = k /\ xMutexHolder' = xMutexHolder
  BY DEF TestQueue, At, queueVars
<1>2. PICK p, l : Moves(t, p, call[t], ret[t], l)
  BY TestMoves DEF KernelInv
<1> QED BY <1>1, <1>2, QuietPrio

\* Recheck: a wait for a mutex does not get here.
LEMMA RecheckPrio ==
    ASSUME KernelInv, ListInv, PrioInv, NEW t \in Tasks, Recheck(t)
    PROVE  PrioInv'
<1>1. t = cur /\ pc[t] = "recheck" /\ xMutexHolder' = xMutexHolder
  BY DEF Recheck, At, queueVars
<1>2. /\ PatientAt(k, pc[t], call[t], ret[t], loc[t]) /\ WalkAt(pc[t], call[t], ret[t], loc[t])
  BY Here DEF ListInv, Patient, KernelInv
<1>3. call[t].op # "lock" /\ ~loc[t].xInheritanceOccurred
  BY <1>1, <1>2 DEF PatientAt, WalkAt
<1>4. k' = k
  BY <1>3, Zenon DEF Recheck
<1>5. PICK p, r : Moves(t, p, call[t], r, loc[t])
  BY RecheckMoves DEF KernelInv
<1> QED BY <1>1, <1>3, <1>4, <1>5, QuietPrio

\* Return.
LEMMA ReturnPrio ==
    ASSUME KernelInv, PrioInv, NEW t \in Tasks, Return(t)
    PROVE  PrioInv'
<1>1. t = cur /\ pc[t] = "return" /\ k' = k /\ xMutexHolder' = xMutexHolder
  BY DEF Return, At, queueVars
<1>2. Moves(t, "idle", NoCall, Pending, NoLoc)
  BY ReturnMoves DEF KernelInv
<1>3. ret[t] # Pending
  BY <1>1, Here DEF KernelInv, WalkAt
<1> QED BY <1>1, <1>2, <1>3, QuietPrio

\* Suspend: the task that suspends the scheduler leads.
LEMMA SuspendPrio ==
    ASSUME KernelInv, PrioInv, NEW t \in Tasks, Suspend(t)
    PROVE  PrioInv'
<1>1. t = cur /\ ~k.pendsv /\ pc[t] = "suspend" /\ xMutexHolder' = xMutexHolder /\ CallTypes
  BY DEF Suspend, At, KernelInv, queueVars
<1>2. Moves(t, "lock", call[t], ret[t], loc[t])
  BY SuspendMoves DEF KernelInv
<1>3. SameEvents(k, k') /\ SameSleep(k, k') /\ SamePrio(k, k') /\ k'.pxCurrentTCB = k.pxCurrentTCB
  BY SuspendEffect
<1>4. MutexInv'
  BY <1>1, <1>2, <1>3, CallersStay, StillMutex DEF PrioInv
<1>5. Leads(k)
  BY <1>1, LeadsNow DEF PrioInv, Suspending
<1>6. Leads(k')
  BY <1>3, <1>5, LeadsSame
<1> QED BY <1>4, <1>6 DEF PrioInv, Led, LedAt

\* Falling asleep with the scheduler suspended.
LEMMA BlockedLed ==
    ASSUME CallTypes, NEW t \in Tasks, t = cur, cur' = cur, NEW p, NEW c, NEW r, NEW l, Moves(t, p, c, r, l),
           l.path = "blocked", k'.uxSchedulerSuspended
    PROVE  Led'
<1>1. loc'[t] = l
  BY CallsMove
<1> QED BY <1>1 DEF Led, LedAt

\* A task that asks for no mutex falls asleep.
LEMMA AsleepMutex ==
    ASSUME KernelInv, MutexInv, xMutexHolder' = xMutexHolder, Stay, NEW t \in Tasks, call[t].op # "lock",
           SamePrio(k, k'), Asleep(k') = Asleep(k) \cup {t},
           \A m \in Mutexes : k'.waitRecv[m] = k.waitRecv[m]
    PROVE  MutexInv'
<1>1. ASSUME NEW m \in Mutexes PROVE MutexAt(k', xMutexHolder[m], Calling(call', ret', m, "recv"), m)
  <2>1. MutexAt(k, xMutexHolder[m], Calling(call, ret, m, "recv"), m)
    BY DEF MutexInv
  <2>2. PICK C : C = Calling(call, ret, m, "recv")
    OBVIOUS
  <2>3. PICK D : D = Calling(call', ret', m, "recv")
    OBVIOUS
  <2>4. C \subseteq D
    BY <2>2, <2>3 DEF Stay
  <2>5. Waiting(k', m, "recv") = Waiting(k, m, "recv") /\ Thins(k.waitRecv[m], k'.waitRecv[m])
    BY DEF Waiting, EventList, Thins
  <2>6. t \notin C
    BY <2>2, Locker DEF Calling
  <2>7. \A u \in C : u \in Asleep(k') => u \in Asleep(k)
    BY <2>6
  <2> QED BY <2>1, <2>2, <2>3, <2>4, <2>5, <2>7, MutexCalm
<1> QED BY <1>1 DEF MutexInv

\* Delay.
LEMMA DelayPrio ==
    ASSUME KernelInv, PrioInv, NEW t \in Tasks, Delay(t)
    PROVE  PrioInv'
<1>1. t = cur /\ pc[t] = "idle" /\ xMutexHolder' = xMutexHolder /\ CallTypes
  BY DEF Delay, At, KernelInv, queueVars
<1>2. PICK c, l : l.path = "blocked" /\ Moves(t, "resume", c, Pending, l)
  <2>1. Moves(t, "resume", [op |-> "delay"], Pending, [NoLoc EXCEPT !.path = "blocked"])
    BY DelayMoves DEF KernelInv
  <2>2. PICK c : c = [op |-> "delay"]
    OBVIOUS
  <2>3. PICK l : l = [NoLoc EXCEPT !.path = "blocked"]
    OBVIOUS
  <2>4. l.path = "blocked"
    BY <2>3 DEF NoLoc
  <2>5. Moves(t, "resume", c, Pending, l)
    BY <2>1, <2>2, <2>3
  <2> QED BY <2>4, <2>5
<1>3. call[t].op # "lock"
  BY <1>1, Here, CallRec DEF KernelInv, WalkAt
<1>4. /\ SameEvents(k, k') /\ SamePrio(k, k') /\ Asleep(k') = Asleep(k) \cup {t}
      /\ k'.pxCurrentTCB = k.pxCurrentTCB /\ k'.uxSchedulerSuspended
  BY DelayEffect
<1>5. Stay
  BY <1>1, <1>2, <1>3, CallersStay
<1>6. MutexInv'
  BY <1>1, <1>3, <1>4, <1>5, AsleepMutex DEF PrioInv, SameEvents
<1>7. Led'
  BY <1>1, <1>2, <1>4, BlockedLed DEF cur
<1> QED BY <1>6, <1>7 DEF PrioInv

\* prvUnlockQueue of a mutex, to which no interrupt gives, wakes nobody.
LEMMA UnlockMutex ==
    ASSUME KernelInv, NEW t \in Tasks, prvUnlockQueue(t), Target(t) # mbox
    PROVE  k' = k
<1>1. PICK q \in Queues : q = Target(t)
  BY TargetIs DEF KernelInv
<1>2. t = cur /\ pc[t] = "unlock"
  BY DEF prvUnlockQueue, At
<1>3. LocksQueue(q)
  BY <1>1, <1>2 DEF LocksQueue, Locking
<1>4. cTxLock[q] = 0
  BY <1>1, <1>3 DEF KernelInv, Locks
<1>5. k' = WakeReceivers(k, q)[0]
  BY <1>1, <1>4 DEF prvUnlockQueue
<1>6. WakeReceivers(k, q)[0] = k
  BY WakeReceiversAre DEF KernelInv, TaskInv
<1> QED BY <1>5, <1>6

\* prvUnlockQueue.
LEMMA UnlockPrio ==
    ASSUME KernelInv, ListInv, WakeInv, PrioInv, NEW t \in Tasks, prvUnlockQueue(t)
    PROVE  PrioInv'
<1>1. t = cur /\ pc[t] = "unlock" /\ xMutexHolder' = xMutexHolder /\ loc' = loc /\ CallTypes
  BY DEF prvUnlockQueue, At, KernelInv
<1>2. Moves(t, "resume", call[t], ret[t], loc[t])
  BY UnlockMoves DEF KernelInv
<1>3. Stay
  BY <1>1, <1>2, CallersStay
<1>4. CASE Target(t) # mbox
  <2>1. k' = k
    BY <1>4, UnlockMutex
  <2>2. SameEvents(k, k') /\ SameSleep(k, k') /\ SamePrio(k, k')
    BY <2>1 DEF SameEvents, SameSleep, SamePrio
  <2>3. MutexInv'
    BY <1>1, <1>3, <2>2, StillMutex DEF PrioInv
  <2>4. Led'
    BY <1>1, <2>1 DEF PrioInv, Led, LedAt, cur
  <2> QED BY <2>3, <2>4 DEF PrioInv
<1>5. CASE Target(t) = mbox
  <2>1. /\ \E T \in SUBSET Waiting(k, mbox, "recv") : Freed(k, k', T)
        /\ Asleep(k') = Asleep(k) /\ (k.xYieldPending => k'.xYieldPending) /\ k'.pendsv = k.pendsv
    BY <1>5, UnlockFrees DEF Awoken
  <2>2. PICK T \in SUBSET Waiting(k, mbox, "recv") : Freed(k, k', T)
    BY <2>1
  <2>3. "recv" \in Sides
    BY DEF Sides
  <2>4. \A m \in Mutexes : \A u \in T : u \notin Waiting(k, m, "recv")
    BY <2>2, <2>3, MailWaiter
  <2>5. \A u : u \in Asleep(k') => u \in Asleep(k)
    BY <2>1
  <2>6. MutexInv'
    BY <1>1, <1>3, <2>2, <2>4, <2>5, CalmMutex DEF PrioInv
  <2>7. SameTask(k, k')
    BY UnlockEffect DEF Keeps
  <2>8. k'.uxPriority = k.uxPriority
    BY <2>2 DEF Freed
  <2>9. Leads(k) => Leads(k')
    BY <2>1, <2>7, <2>8 DEF Leads, SameTask
  <2>10. Led'
    BY <1>1, <2>1, <2>7, <2>9 DEF PrioInv, Led, LedAt, SameTask, cur
  <2> QED BY <2>6, <2>10 DEF PrioInv
<1> QED BY <1>4, <1>5

\* Resume: the wait of nobody who waits for a mutex has ended.
LEMMA ResumePrio ==
    ASSUME KernelInv, ListInv, WakeInv, HeldInv, PrioInv, NEW t \in Tasks, Resume(t)
    PROVE  PrioInv'
<1>1. t = cur /\ ~k.pendsv /\ pc[t] = "resume" /\ xMutexHolder' = xMutexHolder /\ CallTypes
  BY DEF Resume, At, KernelInv, queueVars
<1>2. Resumed(k, k') /\ (loc[t].path = "blocked" => k'.pendsv)
  BY ResumeEffect
<1>3. PICK W : /\ Freed(k, k', W)
               /\ \A u \in W : \A l \in Locals : Alarm(k, u, l) => ~Fresh(k, l, k.uxPendedTicks)
  BY <1>2 DEF Resumed, Rested, ListInv
<1>4. \A m \in Mutexes : \A u \in W : u \notin Waiting(k, m, "recv")
  BY <1>3, WaiterFresh
<1>5. \A u : u \in Asleep(k') => u \in Asleep(k)
  BY <1>2 DEF Resumed
<1>6. PICK p, r, l : Moves(t, p, call[t], r, l) /\ (r = ret[t] \/ call[t].op # "lock")
  BY ResumeMoves DEF KernelInv
<1>7. Stay
  BY <1>1, <1>6, CallersStay
<1>8. MutexInv'
  BY <1>1, <1>3, <1>4, <1>5, <1>7, CalmMutex DEF PrioInv
<1>9. k'.pendsv \/ Leads(k')
  BY <1>1, <1>2 DEF PrioInv, Led, LedAt, Resumed, Rested
<1> QED BY <1>8, <1>9 DEF PrioInv, Led, LedAt

\* Waking a task: a switch to it is pending if it outranks the current one.
LEMMA WakeOneLed ==
    ASSUME NEW s, Sane(s), NEW q \in Queues, NEW side \in Sides, NEW l, LedAt(s, l),
           NEW r, r = WakeOne(s, q, side)
    PROVE  LedAt(r, l)
<1>1. CASE WakeOne(s, q, side) = s
  BY <1>1
<1>2. CASE /\ Woken(s, q, side) \in Tasks
           /\ Roused(s, WakeOne(s, q, side), Woken(s, q, side))
  <2>1. PICK w \in Tasks : w = Woken(s, q, side)
    BY <1>2
  <2>2. /\ Freed(s, r, {w}) /\ Asleep(r) = IF s.uxSchedulerSuspended THEN Asleep(s) ELSE Asleep(s) \ {w}
        /\ r.xYieldPending = (s.xYieldPending \/ Outranks(s, w)) /\ r.pendsv = (s.pendsv \/ Outranks(s, w))
    BY <1>2, <2>1 DEF Roused, WokenUp
  <2>3. SameTask(s, r) /\ r.uxPriority = s.uxPriority
    <3>1. Keeps(s, r)
      BY WakeOneKeeps DEF Sides
    <3> QED BY <2>2, <3>1 DEF Keeps, Freed
  <2>4. s.pxCurrentTCB \in AllTasks /\ \A u \in AllTasks : s.uxPriority[u] \in Nat
    BY PrioNat
  <2>5. w \in AllTasks
    BY Constants
  <2>6. ~Outranks(s, w) /\ Leads(s) => Leads(r)
    BY <2>2, <2>3, <2>4, <2>5 DEF Outranks, Leads, SameTask
  <2> QED BY <2>2, <2>3, <2>6 DEF LedAt, SameTask
<1> QED BY <1>1, <1>2, WakeOneIs

\* A call on the mailbox is served.
LEMMA ServedPrio ==
    ASSUME KernelInv, ListInv, WakeInv, PrioInv, NEW t \in Tasks, t = cur, call[t].op # "lock",
           xMutexHolder' = xMutexHolder, NEW r, Moves(t, "return", call[t], r, loc[t]),
           NEW side \in Sides, k' = WakeOne(k, mbox, side)
    PROVE  PrioInv'
<1>1. CallTypes /\ Sane(k) /\ mbox \in Queues
  BY Constants DEF KernelInv, TaskInv
<1>2. Stay /\ loc'[t] = loc[t]
  BY <1>1, CallersStay, CallsMove
<1>3. PICK W \in SUBSET Waiting(k, mbox, side) : Keeps(k, k') /\ Freed(k, k', W)
  BY <1>1, WakeOneFreed
<1>4. \A m \in Mutexes : \A u \in W : u \notin Waiting(k, m, "recv")
  BY <1>3, MailWaiter
<1>5. cur' = cur /\ \A u : u \in Asleep(k') => u \in Asleep(k)
  BY <1>3 DEF Keeps, SameTask, cur
<1>6. MutexInv'
  BY <1>2, <1>3, <1>4, <1>5, CalmMutex DEF PrioInv
<1>7. LedAt(k', loc[t])
  BY <1>1, WakeOneLed DEF PrioInv, Led
<1> QED BY <1>2, <1>5, <1>6, <1>7 DEF PrioInv, Led

\* TryReceive.
LEMMA ReceivePrio ==
    ASSUME KernelInv, ListInv, WakeInv, PrioInv, NEW t \in Tasks, TryReceive(t)
    PROVE  PrioInv'
<1>1. t = cur /\ ~k.pendsv /\ pc[t] = "try" /\ call' = call /\ Fetching(t)
  BY DEF TryReceive, At
<1>2. call[t].op # "lock"
  BY <1>1 DEF Fetching
<1>3. CASE uxMessagesWaiting[mbox] = 0
  <2>1. Refuse(t)
    BY <1>3, Zenon DEF TryReceive
  <2> QED BY <1>1, <2>1, RefusePrio
<1>4. CASE uxMessagesWaiting[mbox] # 0
  <2>1. k' = WakeOne(k, mbox, "send") /\ xMutexHolder' = xMutexHolder /\ "send" \in Sides
    BY <1>4, Zenon DEF TryReceive, Sides
  <2>2. PICK r : Moves(t, "return", call[t], r, loc[t])
    BY <1>4, ReceiveMoves DEF KernelInv, QueueInv
  <2> QED BY <1>1, <1>2, <2>1, <2>2, ServedPrio
<1> QED BY <1>3, <1>4

\* IsrPost.
LEMMA IsrPostPrio ==
    ASSUME KernelInv, ListInv, WakeInv, PrioInv, IsrPost
    PROVE  PrioInv'
<1>1. UNCHANGED <<xMutexHolder, call, ret, loc>> /\ Stay
  BY DEF IsrPost, callVars, Stay
<1>2. CASE cTxLock[mbox] = queueUNLOCKED
  <2>1. k' = WakeOne(k, mbox, "recv")
    BY <1>2, Zenon DEF IsrPost
  <2>2. Sane(k) /\ mbox \in Queues /\ "recv" \in Sides
    BY Constants DEF KernelInv, TaskInv, Sides
  <2>3. PICK W \in SUBSET Waiting(k, mbox, "recv") : Keeps(k, k') /\ Freed(k, k', W)
    BY <2>1, <2>2, WakeOneFreed
  <2>4. \A m \in Mutexes : \A u \in W : u \notin Waiting(k, m, "recv")
    BY <2>2, <2>3, MailWaiter
  <2>5. cur' = cur /\ \A u : u \in Asleep(k') => u \in Asleep(k)
    BY <2>3 DEF Keeps, SameTask, cur
  <2>6. MutexInv'
    BY <1>1, <2>3, <2>4, <2>5, CalmMutex DEF PrioInv
  <2>7. LedAt(k', loc[cur])
    BY <2>1, <2>2, WakeOneLed DEF PrioInv, Led
  <2> QED BY <1>1, <2>5, <2>6, <2>7 DEF PrioInv, Led
<1>3. CASE cTxLock[mbox] # queueUNLOCKED
  <2>1. k' = k
    BY <1>3, Zenon DEF IsrPost
  <2>2. SameEvents(k, k') /\ SameSleep(k, k') /\ SamePrio(k, k')
    BY <2>1 DEF SameEvents, SameSleep, SamePrio
  <2>3. MutexInv'
    BY <1>1, <2>2, StillMutex DEF PrioInv
  <2> QED BY <1>1, <2>1, <2>3 DEF PrioInv, Led, LedAt, cur
<1> QED BY <1>2, <1>3

\* The next tick ends no wait for a mutex.
LEMMA NotYet ==
    ASSUME KernelInv, ListInv, ~MutexAboutToExpire, NEW t \in Tasks, call[t].op = "lock", loc[t].set,
           ~k.uxSchedulerSuspended
    PROVE  Fresh(k, loc[t], 1)
<1>1. PatientAt(k, pc[t], call[t], ret[t], loc[t]) /\ loc[t] \in Locals
  BY Here DEF ListInv, Patient, KernelInv
<1>2. Fresh(k, loc[t], k.uxPendedTicks)
  BY <1>1 DEF PatientAt
<1>3. k.uxPendedTicks = 0
  BY DEF KernelInv, TaskInv, Sane, Flushed
<1>4. ~(Elapsed(t) + k.uxPendedTicks + 1 >= loc[t].xTicksToWait)
  BY DEF MutexAboutToExpire
<1>5. Elapsed(t) \in 0 .. portMAX_DELAY /\ loc[t].xTicksToWait \in Int
  BY <1>1, ElapsedIs DEF KernelInv, TaskInv, Locals
<1>6. Elapsed(t) + 1 < loc[t].xTicksToWait
  BY <1>3, <1>4, <1>5, Constants
<1> QED BY <1>2, <1>6 DEF Fresh, Elapsed

\* Tick.
LEMMA TickPrio ==
    ASSUME MUTEX_EXPIRES = FALSE, KernelInv, ListInv, WakeInv, HeldInv, PrioInv, Tick
    PROVE  PrioInv'
<1>1. UNCHANGED <<xMutexHolder, call, ret, loc>> /\ ~MutexAboutToExpire /\ Stay
  BY DEF Tick, callVars, queueVars, Stay
<1>2. SameTask(k, k') /\ (k.pendsv => k'.pendsv) /\ \A u : u \in Asleep(k') => u \in Asleep(k)
  BY TickKeeps
<1>3. CASE ~k.uxSchedulerSuspended /\ Chimed(k, k')
  <2>1. PICK W : /\ Freed(k, k', W)
                 /\ \A u \in W : \A l \in Locals : Alarm(k, u, l) => ~Fresh(k, l, 1)
    BY <1>3 DEF Chimed, ListInv
  <2>2. ASSUME NEW m \in Mutexes, NEW u \in W, u \in Waiting(k, m, "recv") PROVE FALSE
    <3>1. u \in Tasks /\ call[u].op = "lock" /\ loc[u] \in Locals /\ loc[u].set /\ Alarm(k, u, loc[u])
      BY <2>2, WaiterFresh
    <3>2. Fresh(k, loc[u], 1)
      BY <1>1, <1>3, <3>1, NotYet
    <3> QED BY <2>1, <3>1, <3>2
  <2>3. MutexInv'
    BY <1>1, <1>2, <2>1, <2>2, CalmMutex DEF PrioInv
  <2>4. Led'
    BY <1>2, <1>3 DEF PrioInv, Led, LedAt, Chimed
  <2> QED BY <2>3, <2>4 DEF PrioInv
<1>4. CASE /\ k'.xYieldPending = k.xYieldPending
           /\ SameEvents(k, k') /\ SameSleep(k, k') /\ SamePrio(k, k')
  <2>1. MutexInv'
    BY <1>1, <1>4, StillMutex DEF PrioInv
  <2>2. Leads(k) => Leads(k')
    BY <1>2, <1>4, LeadsSame DEF SameTask
  <2>3. Led'
    BY <1>1, <1>2, <1>4, <2>2 DEF PrioInv, Led, LedAt, SameTask, cur
  <2> QED BY <2>1, <2>3 DEF PrioInv
<1> QED BY <1>3, <1>4, TickEffect

\* A switch of tasks picks a task that no one outranks.
LEMMA SwitchLeads ==
    ASSUME KernelInv, ListInv, vTaskSwitchContext, ~k.uxSchedulerSuspended
    PROVE  Leads(k')
<1>1. PICK r : r = k'
  OBVIOUS
<1>2. SameSleep(k, r) /\ SamePrio(k, r) /\ r.pxCurrentTCB \in k.ready[Max(k.uxTopReadyPriority)]
  BY <1>1, SwitchEffect DEF cur
<1>3. PICK top : top = k.uxTopReadyPriority
  OBVIOUS
<1>4. top \subseteq Prios /\ Prios \subseteq Nat /\ 0 \in top /\ Placed(k) /\ Exact(k)
  BY <1>3, Constants DEF KernelInv, TaskInv, Sane, KRec, Raised, ListInv, Sound
<1>5. Max(top) \in top /\ \A y \in top : y <= Max(top)
  BY <1>3, TopReady DEF KernelInv, TaskInv
<1>6. k.ready \in [Prios -> SUBSET AllTasks] /\ k.uxPriority \in [AllTasks -> Prios]
  BY DEF KernelInv, TaskInv, Sane, KRec
<1>7. r.pxCurrentTCB \in AllTasks /\ k.uxPriority[r.pxCurrentTCB] = Max(top)
  <2>1. PICK p \in Prios : p = Max(top)
    BY <1>4, <1>5
  <2>2. PICK t : t = r.pxCurrentTCB /\ t \in k.ready[p]
    BY <1>2, <1>3, <2>1
  <2>3. t \in AllTasks
    BY <1>6, <2>2
  <2>4. p = k.uxPriority[t]
    BY <1>4, <2>2, <2>3 DEF Placed
  <2> QED BY <2>1, <2>2, <2>3, <2>4
<1>8. ASSUME NEW u \in AllTasks, u \notin Asleep(k) PROVE k.uxPriority[u] <= Max(top)
  <2>1. u \in k.ready[k.uxPriority[u]] /\ k.uxPriority[u] \in Prios
    BY <1>4, <1>6, <1>8 DEF Placed
  <2>2. k.uxPriority[u] \in top
    BY <1>3, <1>4, <2>1 DEF Exact
  <2> QED BY <1>5, <2>2
<1>9. Asleep(r) = Asleep(k) /\ r.uxPriority = k.uxPriority
  BY <1>2 DEF SameSleep, SamePrio, Asleep
<1>10. Leads(r)
  BY <1>7, <1>8, <1>9 DEF Leads
<1> QED BY <1>1, <1>10

\* vTaskSwitchContext.
LEMMA SwitchPrio ==
    ASSUME KernelInv, ListInv, PrioInv, vTaskSwitchContext
    PROVE  PrioInv'
<1>1. UNCHANGED <<xMutexHolder, call, ret, loc>> /\ Stay
  BY DEF vTaskSwitchContext, callVars, queueVars, Stay
<1>2. MutexInv'
  BY <1>1, SwitchEffect, StillMutex DEF PrioInv
<1>3. Led'
  <2>1. CASE k.uxSchedulerSuspended
    <3>1. k' = [k EXCEPT !.pendsv = FALSE, !.xYieldPending = TRUE]
      BY <2>1, Zenon DEF vTaskSwitchContext
    <3>2. k'.uxSchedulerSuspended /\ k'.xYieldPending
      BY <2>1, <3>1 DEF KernelInv, TaskInv, Sane, KRec
    <3> QED BY <3>2 DEF Led, LedAt
  <2>2. CASE ~k.uxSchedulerSuspended
    BY <2>2, SwitchLeads DEF Led, LedAt
  <2> QED BY <2>1, <2>2
<1> QED BY <1>2, <1>3 DEF PrioInv

\* TryTake: who takes a mutex runs, so the heir does not outrank it.
LEMMA TakePrio ==
    ASSUME KernelInv, ListInv, WakeInv, HeldInv, PrioInv, NEW t \in Tasks, TryTake(t)
    PROVE  PrioInv'
<1>1. t = cur /\ ~k.pendsv /\ pc[t] = "try" /\ call' = call /\ call[t].op = "lock" /\ t \in AllTasks
  BY Constants DEF TryTake, At
<1>2. CASE uxMessagesWaiting[Target(t)] = 0
  <2>1. Refuse(t)
    BY <1>2, Zenon DEF TryTake
  <2> QED BY <1>1, <2>1, RefusePrio
<1>3. CASE uxMessagesWaiting[Target(t)] # 0
  <2>1. PICK q \in Mutexes : /\ q = Target(t) /\ q = call[t].mutex /\ xMutexHolder[q] = NULL
                             /\ xMutexHolder' = [xMutexHolder EXCEPT ![q] = t]
    BY <1>3, TakeEffect
  <2>2. PICK r : r = k'
    OBVIOUS
  <2>3. SameEvents(k, r) /\ SameSleep(k, r) /\ SamePrio(k, r) /\ SameTask(k, r)
    BY <1>3, <2>2, TakeEffect
  <2>4. Leads(k)
    BY <1>1, LeadsNow DEF PrioInv, Suspending
  <2>5. Leads(r)
    BY <2>3, <2>4, LeadsSame DEF SameTask
  <2>6. MutexAt(k, NULL, Calling(call, ret, q, "recv"), q)
    BY <2>1 DEF PrioInv, MutexInv
  <2>7. xMutexHolder'[q] = t /\ \A m \in Mutexes \ {q} : xMutexHolder'[m] = xMutexHolder[m]
    BY <2>1 DEF KernelInv, QueueInv, QueueTypes
  <2>8. /\ r.uxPriority = k.uxPriority /\ r.waitRecv = k.waitRecv /\ Asleep(r) = Asleep(k)
        /\ \A m \in Mutexes : Waiting(r, m, "recv") = Waiting(k, m, "recv")
    BY <2>3 DEF SamePrio, SameEvents, SameSleep, Asleep, Waiting, EventList
  <2>9. ASSUME NEW u \in Waiting(k, q, "recv") PROVE k.uxPriority[t] >= Base[u]
    <3>1. PICK w \in Calling(call, ret, q, "recv") : w \notin Asleep(k) /\ k.uxPriority[w] >= Base[u]
      BY <2>6, <2>9 DEF MutexAt, Heir
    <3>2. w \in Tasks /\ u \in Tasks
      BY <2>9, <3>1, Waiter DEF Calling
    <3>3. w \in AllTasks /\ u \in AllTasks
      BY <3>2, Constants
    <3>4. k.uxPriority[w] <= k.uxPriority[t]
      BY <1>1, <2>4, <3>1, <3>3 DEF Leads, cur
    <3>5. k.uxPriority[w] \in Nat /\ k.uxPriority[t] \in Nat /\ Base[u] \in Nat
      BY <1>1, <3>3, PrioNat DEF KernelInv, TaskInv
    <3> QED BY <3>1, <3>4, <3>5
  <2>10. t # NULL
    BY KernelAssumption DEF NULL
  <2>11. Boosted(r, t, Waiting(r, q, "recv")) /\ Sorted(r.uxPriority, r.waitRecv[q])
    BY <2>6, <2>8, <2>9 DEF Boosted, MutexAt
  <2>12. MutexAt(r, t, Calling(call', ret', q, "recv"), q)
    BY <2>10, <2>11 DEF MutexAt
  <2>13. ASSUME NEW m \in Mutexes \ {q} PROVE MutexAt(r, xMutexHolder[m], Calling(call', ret', m, "recv"), m)
    <3>1. ~InCall(call[t], ret[t], m, "recv")
      BY <2>1, <2>13, Locker
    <3>2. CallTypes /\ Moves(t, "return", call[t], Ok, loc[t])
      BY <1>3, TakeMoves DEF KernelInv
    <3>3. PICK C, D : /\ C = Calling(call, ret, m, "recv") /\ D = Calling(call', ret', m, "recv")
                      /\ C \subseteq D
      BY <3>1, <3>2, CallersElsewhere
    <3>4. MutexAt(k, xMutexHolder[m], C, m)
      BY <3>3 DEF PrioInv, MutexInv
    <3>5. Waiting(r, m, "recv") = Waiting(k, m, "recv") /\ Thins(k.waitRecv[m], r.waitRecv[m]) /\ SamePrio(k, r)
      BY <2>3, <2>8 DEF Thins
    <3>6. \A u \in C : u \in Asleep(r) => u \in Asleep(k)
      BY <2>8
    <3>7. MutexAt(r, xMutexHolder[m], D, m)
      BY <3>3, <3>4, <3>5, <3>6, MutexCalm
    <3> QED BY <3>3, <3>7
  <2>14. MutexInv'
    BY <2>2, <2>7, <2>12, <2>13 DEF MutexInv
  <2> QED BY <2>2, <2>5, <2>14 DEF PrioInv, Led, LedAt
<1> QED BY <1>2, <1>3

\* A task about to sleep for a mutex: another task holds it.
LEMMA PlaceHolder ==
    ASSUME KernelInv, WakeInv, HeldInv, NEW t \in Tasks, t = cur, pc[t] = "place", Target(t) # mbox
    PROVE  /\ Target(t) \in Mutexes /\ Side(t) = "recv" /\ HolderOf(t) \in Tasks \ {t}
           /\ xMutexHolder[Target(t)] = HolderOf(t) /\ InCall(call[t], ret[t], Target(t), "recv")
<1>1. PICK q \in Mutexes : q = Target(t)
  BY TargetIs DEF KernelInv
<1>2. WalkAt(pc[t], call[t], ret[t], loc[t]) /\ call[t].op \in {"lock", "unlock"}
  BY Here, TargetIs DEF KernelInv
<1>3. call[t].op = "lock" /\ ret[t] = Pending
  BY <1>2 DEF WalkAt
<1>4. Side(t) = "recv"
  BY <1>3 DEF Side, Posting
<1>5. InCall(call[t], ret[t], q, "recv")
  BY <1>1, <1>3, <1>4, InCallOf
<1>6. q \in Queues /\ uxMessagesWaiting \in [Queues -> Int] /\ cTxLock \in [Queues -> Int]
  BY Constants DEF KernelInv, QueueInv, QueueTypes
<1>7. cTxLock[q] = 0
  <2>1. LocksQueue(q)
    BY <1>1 DEF LocksQueue, Locking
  <2> QED BY <1>1, <1>6, <2>1 DEF KernelInv, Locks
<1>8. Owed(uxMessagesWaiting, cTxLock, q, "recv") <= 0
  BY <1>1, <1>4 DEF WakeInv, Tested
<1>9. uxMessagesWaiting[q] # 1
  BY <1>6, <1>7, <1>8 DEF Owed, queueUNLOCKED
<1>10. xMutexHolder[q] # NULL /\ xMutexHolder[q] \in Tasks \cup {NULL}
  BY <1>9 DEF KernelInv, QueueInv, QueueTypes, Holders
<1>11. xMutexHolder[q] # t
  BY <1>5, NotHolder
<1>12. HolderOf(t) = xMutexHolder[q]
  BY <1>1 DEF HolderOf
<1> QED BY <1>1, <1>4, <1>5, <1>10, <1>11, <1>12

\* Raising a holder lowers nobody.
LEMMA RaisesAll ==
    ASSUME NEW s, Sane(s), NEW e, NEW h \in Tasks, Raises(s, e, h)
    PROVE  /\ e.uxPriority[h] >= s.uxPriority[s.pxCurrentTCB]
           /\ \A u \in AllTasks : e.uxPriority[u] >= s.uxPriority[u]
<1>1. /\ s.pxCurrentTCB \in AllTasks /\ s.uxPriority \in [AllTasks -> Prios] /\ h \in AllTasks /\ h # NULL
      /\ \A u \in AllTasks : s.uxPriority[u] \in Nat
  BY PrioNat, Constants, KernelAssumption DEF Sane, KRec, NULL
<1>2. PICK c \in Nat : c = s.uxPriority[s.pxCurrentTCB]
  BY <1>1
<1>3. CASE e = s /\ s.uxPriority[h] >= c
  BY <1>1, <1>2, <1>3
<1>4. CASE ~(s.uxPriority[h] >= c) /\ e.uxPriority = [s.uxPriority EXCEPT ![h] = c]
  BY <1>1, <1>2, <1>4
<1> QED BY <1>1, <1>2, <1>3, <1>4 DEF Raises, Prioritised

\* The holder of mutex q gets the priority of the task that goes to sleep for it.
LEMMA PlaceBoosts ==
    ASSUME KernelInv, ListInv, WakeInv, HeldInv, MutexInv, NEW t \in Tasks, t = cur,
           NEW q \in Mutexes, NEW h \in Tasks \ {t}, xMutexHolder[q] = h, InCall(call[t], ret[t], q, "recv"),
           NEW e, NEW r, NEW n, GoesToSleep(k, e, r, h, q, "recv", n), NEW C
    PROVE  MutexAt(r, h, C, q)
<1>1. /\ Raises(k, e, h) /\ Queued(e, r, q, "recv", n) /\ SameTask(k, e) /\ SameEvents(k, e) /\ SamePrio(e, r)
      /\ Sane(e) /\ e \in KRec /\ Sane(k)
  BY DEF GoesToSleep, Sane, KernelInv, TaskInv
<1>2. q \in Queues /\ "recv" \in Sides /\ h # NULL /\ t \in AllTasks /\ h \in AllTasks /\ Tasks \subseteq AllTasks
  BY Constants, KernelAssumption DEF Sides, NULL
<1>3. e.pxCurrentTCB = t /\ k.pxCurrentTCB = t
  BY <1>1 DEF SameTask, cur
<1>4. \A u \in AllTasks : /\ k.uxPriority[u] \in Nat /\ k.uxPriority[u] >= Base[u]
                          /\ e.uxPriority[u] \in Nat /\ e.uxPriority[u] >= Base[u] /\ Base[u] \in Nat
  BY <1>1, PrioNat
<1>5. MutexAt(k, h, Calling(call, ret, q, "recv"), q)
  BY DEF MutexInv
<1>6. Sorted(k.uxPriority, k.waitRecv[q]) /\ Boosted(k, h, Waiting(k, q, "recv"))
  BY <1>2, <1>5 DEF MutexAt
<1>7. e.uxPriority[h] >= k.uxPriority[t] /\ \A u \in AllTasks : e.uxPriority[u] >= k.uxPriority[u]
  BY <1>1, <1>3, RaisesAll
<1>8. Waiting(k, q, "recv") \subseteq Tasks
  BY Waiter
<1>9. Waiting(r, q, "recv") = Waiting(k, q, "recv") \cup {t}
  <2>1. \A u : u \in Waiting(r, q, "recv") <=> u \in Waiting(e, q, "recv") \/ u = t
    BY <1>1, <1>2, <1>3, QueuedWaiting
  <2>2. Waiting(e, q, "recv") = Waiting(k, q, "recv")
    BY <1>1, <1>2, SameWaiting
  <2> QED BY <2>1, <2>2
<1>10. Sorted(r.uxPriority, r.waitRecv[q])
  <2>1. PICK l \in Seq(Tasks) : l = k.waitRecv[q]
    BY <1>1, <1>2 DEF Sane, KRec
  <2>2. EventList(e, q, "recv") = l
    BY <1>1, <2>1 DEF SameEvents, EventList
  <2>3. EventList(r, q, "recv") = InsertByPriority(e, l, t)
    BY <1>1, <1>2, <1>3, <2>2 DEF Queued
  <2>4. PICK p : p = e.uxPriority
    OBVIOUS
  <2>5. Sorted(p, l)
    <3>1. ASSUME NEW i \in DOMAIN l, NEW j \in DOMAIN l, i < j PROVE p[l[i]] >= Base[l[j]]
      <4>1. l[i] \in AllTasks /\ l[j] \in AllTasks
        BY <1>2
      <4>2. k.uxPriority[l[i]] >= Base[l[j]]
        BY <1>6, <2>1, <3>1 DEF Sorted
      <4>3. p[l[i]] >= k.uxPriority[l[i]]
        BY <1>7, <2>4, <4>1
      <4> QED BY <1>4, <2>4, <4>1, <4>2, <4>3
    <3> QED BY <3>1 DEF Sorted
  <2>6. \A u \in Tasks : p[u] \in Nat /\ p[u] >= Base[u]
    BY <1>2, <1>4, <2>4
  <2>7. Sorted(p, InsertByPriority(e, l, t))
    BY <2>4, <2>5, <2>6, InsertSorted
  <2> QED BY <1>1, <2>3, <2>4, <2>7 DEF EventList, SamePrio
<1>11. Boosted(r, h, Waiting(k, q, "recv") \cup {t})
  <2>1. r.uxPriority = e.uxPriority
    BY <1>1 DEF SamePrio
  <2>2. ASSUME NEW u \in Waiting(k, q, "recv") PROVE e.uxPriority[h] >= Base[u]
    <3>1. u \in AllTasks /\ k.uxPriority[h] >= Base[u]
      BY <1>2, <1>6, <1>8 DEF Boosted
    <3> QED BY <1>2, <1>4, <1>7, <3>1
  <2>3. e.uxPriority[h] >= Base[t]
    BY <1>2, <1>4, <1>7
  <2> QED BY <2>1, <2>2, <2>3 DEF Boosted
<1> QED BY <1>2, <1>9, <1>10, <1>11 DEF MutexAt

\* Meanwhile nothing changes at another mutex m but the priority of h.
LEMMA PlaceElsewhere ==
    ASSUME KernelInv, ListInv, WakeInv, MutexInv, NEW t \in Tasks, t = cur, Sane(k'),
           NEW q \in Mutexes, NEW h \in Tasks, NEW m \in Mutexes, m # q, InCall(call[t], ret[t], q, "recv"),
           NEW e, NEW n, GoesToSleep(k, e, k', h, q, "recv", n), Stay
    PROVE  MutexAt(k', xMutexHolder[m], Calling(call', ret', m, "recv"), m)
<1>1. PICK r : r = k' /\ GoesToSleep(k, e, r, h, q, "recv", n) /\ Sane(r)
  OBVIOUS
<1>2. /\ Raises(k, e, h) /\ Queued(e, r, q, "recv", n) /\ SameTask(k, e) /\ SameEvents(k, e) /\ SamePrio(e, r)
      /\ SameSleep(k, e) /\ Sane(k)
  BY <1>1 DEF GoesToSleep, KernelInv, TaskInv
<1>3. Tasks \subseteq AllTasks /\ m \in Queues /\ xMutexHolder[m] \in Tasks \cup {NULL}
  BY Constants DEF KernelInv, QueueInv, QueueTypes
<1>4. \A u \in AllTasks : r.uxPriority[u] >= k.uxPriority[u]
  BY <1>2, RaisesAll DEF SamePrio
<1>5. r.waitRecv[m] = k.waitRecv[m] /\ Waiting(r, m, "recv") = Waiting(k, m, "recv")
  <2>1. EventList(r, m, "recv") = EventList(e, m, "recv")
    BY <1>2, <1>3 DEF Queued
  <2> QED BY <1>2, <2>1 DEF Waiting, EventList, SameEvents
<1>6. Asleep(r) = Asleep(k) \cup {t}
  BY <1>2 DEF Queued, SameSleep, SameTask, Asleep, cur
<1>7. PICK C, D : /\ C = Calling(call, ret, m, "recv") /\ D = Calling(call', ret', m, "recv")
                  /\ C \in SUBSET Tasks /\ C \subseteq D /\ t \notin C
  <2>1. t \notin Calling(call, ret, m, "recv")
    BY Locker DEF Calling
  <2>2. Calling(call, ret, m, "recv") \subseteq Tasks
    BY DEF Calling
  <2> QED BY <2>1, <2>2 DEF Stay
<1>8. MutexAt(k, xMutexHolder[m], C, m) /\ Waiting(k, m, "recv") \subseteq C
  BY <1>7, WaitersCall DEF MutexInv
<1>9. Thins(k.waitRecv[m], r.waitRecv[m])
  BY <1>5 DEF Thins
<1>10. PICK g \in Tasks \cup {NULL} : g = xMutexHolder[m]
  BY <1>3
<1>11. MutexAt(r, g, D, m)
  <2>1. g # NULL => r.uxPriority[g] >= k.uxPriority[g]
    BY <1>3, <1>4
  <2>2. \A u \in C : r.uxPriority[u] >= k.uxPriority[u] /\ (u \in Asleep(r) => u \in Asleep(k))
    BY <1>3, <1>4, <1>6, <1>7
  <2>3. MutexAt(k, g, C, m)
    BY <1>8, <1>10
  <2> QED BY <1>1, <1>2, <1>5, <1>7, <1>8, <1>9, <2>1, <2>2, <2>3, MutexRaised
<1> QED BY <1>1, <1>7, <1>10, <1>11

\* Place.
LEMMA PlacePrio ==
    ASSUME KernelInv, KernelInv', ListInv, WakeInv, HeldInv, PrioInv, NEW t \in Tasks, Place(t)
    PROVE  PrioInv'
<1>1. t = cur /\ pc[t] = "place" /\ xMutexHolder' = xMutexHolder /\ CallTypes
  BY DEF Place, At, KernelInv, queueVars
<1>2. PICK l : Moves(t, "unlock", call[t], ret[t], l) /\ l.path = "blocked"
  BY PlaceMoves DEF KernelInv
<1>3. cur' = cur /\ k'.uxSchedulerSuspended
  <2>1. SameTask(k, k') /\ k.uxSchedulerSuspended
    BY <1>1, PlaceKeeps DEF KernelInv, Scheduler, Suspending
  <2> QED BY <2>1 DEF SameTask, cur
<1>4. Led'
  BY <1>1, <1>2, <1>3, BlockedLed
<1>5. Stay
  BY <1>1, <1>2, CallersStay
<1>6. PICK r : r = k'
  OBVIOUS
<1>7. PICK e : GoesToSleep(k, e, r, HolderOf(t), Target(t), Side(t), loc[t].xTicksToWait)
  BY <1>6, PlaceEffect
<1>8. CASE Target(t) = mbox
  <2>1. call[t].op # "lock"
    BY <1>8, TargetIs DEF KernelInv
  <2>2. HolderOf(t) = NULL /\ NULL \notin Tasks
    BY <1>8, KernelAssumption DEF HolderOf, NULL
  <2>3. e = k /\ Queued(k, r, mbox, Side(t), loc[t].xTicksToWait) /\ SamePrio(k, r)
    BY <1>7, <1>8, <2>2 DEF GoesToSleep, Raises
  <2>4. Asleep(r) = Asleep(k) \cup {t}
    BY <1>1, <2>3 DEF Queued, cur
  <2>5. \A m \in Mutexes : r.waitRecv[m] = k.waitRecv[m]
    <3>1. ASSUME NEW m \in Mutexes PROVE EventList(r, m, "recv") = EventList(k, m, "recv")
      BY <2>3, Constants DEF Queued
    <3> QED BY <3>1 DEF EventList
  <2>6. MutexInv'
    BY <1>1, <1>5, <1>6, <2>1, <2>3, <2>4, <2>5, AsleepMutex DEF PrioInv
  <2> QED BY <1>4, <2>6 DEF PrioInv
<1>9. CASE Target(t) # mbox
  <2>1. PICK q \in Mutexes : q = Target(t) /\ Side(t) = "recv" /\ InCall(call[t], ret[t], q, "recv")
                             /\ xMutexHolder[q] = HolderOf(t) /\ HolderOf(t) \in Tasks \ {t}
    BY <1>1, <1>9, PlaceHolder
  <2>2. PICK h \in Tasks \ {t} : h = HolderOf(t) /\ xMutexHolder[q] = h
    BY <2>1
  <2>3. PICK n : n = loc[t].xTicksToWait
    OBVIOUS
  <2>4. GoesToSleep(k, e, r, h, q, "recv", n)
    BY <1>7, <2>1, <2>2, <2>3
  <2>5. PICK C : C = Calling(call', ret', q, "recv")
    OBVIOUS
  <2>6. MutexAt(r, h, C, q)
    BY <1>1, <2>1, <2>2, <2>4, PlaceBoosts DEF PrioInv
  <2>7. ASSUME NEW m \in Mutexes \ {q} PROVE MutexAt(r, xMutexHolder[m], Calling(call', ret', m, "recv"), m)
    <3>1. Sane(k') /\ GoesToSleep(k, e, k', h, q, "recv", n)
      BY <1>6, <2>4 DEF KernelInv, TaskInv
    <3> QED BY <1>1, <1>5, <1>6, <2>1, <2>7, <3>1, PlaceElsewhere DEF PrioInv
  <2>8. MutexInv'
    BY <1>1, <1>6, <2>2, <2>5, <2>6, <2>7 DEF MutexInv
  <2> QED BY <1>4, <2>8 DEF PrioInv
<1> QED BY <1>8, <1>9

\* The first of a list that is in order runs at least at the priority of all.
LEMMA HeadFirst ==
    ASSUME NEW p, NEW l \in Seq(Tasks), l # << >>, Sorted(p, l), p[Head(l)] >= Base[Head(l)], NEW u \in Range(l)
    PROVE  p[Head(l)] >= Base[u]
<1>1. PICK i \in DOMAIN l : l[i] = u
  BY DEF Range
<1>2. Len(l) \in Nat /\ DOMAIN l = 1 .. Len(l)
  OBVIOUS
<1>3. 1 \in DOMAIN l /\ Head(l) = l[1]
  BY <1>1, <1>2
<1>4. CASE i = 1
  BY <1>1, <1>3, <1>4
<1>5. CASE i # 1
  BY <1>1, <1>2, <1>3, <1>5 DEF Sorted
<1> QED BY <1>4, <1>5

\* A task that gives mutex q keeps its priority, or it was its last mutex.
LEMMA GiverLowered ==
    ASSUME KernelInv, NEW t \in Tasks, NEW q \in Mutexes, xMutexHolder[q] = t,
           NEW d, Disinherited(k, d, t), Lowered(k, d, t)
    PROVE  \/ d.uxPriority = k.uxPriority
           \/ /\ d.uxPriority = [k.uxPriority EXCEPT ![t] = Base[t]]
              /\ k.uxMutexesHeld[t] = 1 /\ \A m \in Mutexes \ {q} : xMutexHolder[m] # t
<1>1. SUFFICES ASSUME d.uxPriority = [k.uxPriority EXCEPT ![t] = Base[t]], ~(d.uxMutexesHeld[t] > 0)
               PROVE  k.uxMutexesHeld[t] = 1 /\ \A m \in Mutexes \ {q} : xMutexHolder[m] # t
  BY DEF Lowered
<1>2. PICK H : H = Held(t) /\ IsFiniteSet(H) /\ k.uxMutexesHeld[t] = Cardinality(H) /\ q \in H
  <2>1. IsFiniteSet(Held(t)) /\ k.uxMutexesHeld[t] = Cardinality(Held(t))
    BY DEF KernelInv, TaskInv, Counts
  <2>2. q \in Held(t)
    BY DEF Held
  <2> QED BY <2>1, <2>2
<1>3. IsFiniteSet(H \ {q}) /\ Cardinality(H \ {q}) = Cardinality(H) - 1 /\ Cardinality(H) \in Nat
  BY <1>2, FS_RemoveElement, FS_CardinalityType
<1>4. d.uxMutexesHeld[t] = k.uxMutexesHeld[t] - 1
  <2>1. k.uxMutexesHeld \in [AllTasks -> Int] /\ t \in AllTasks
    BY Constants DEF KernelInv, TaskInv, Sane, KRec
  <2> QED BY <2>1 DEF Disinherited
<1>5. Cardinality(H \ {q}) = 0 /\ k.uxMutexesHeld[t] = 1
  <2>1. Cardinality(H \ {q}) \in Nat
    BY <1>3, FS_CardinalityType
  <2> QED BY <1>1, <1>2, <1>3, <1>4, <2>1
<1>6. H \ {q} = {}
  BY <1>3, <1>5, FS_EmptySet
<1>7. \A m \in Mutexes \ {q} : xMutexHolder[m] # t
  BY <1>2, <1>6 DEF Held
<1> QED BY <1>5, <1>7

\* What giving mutex q does: its holder t leads s, d is s after t has its own
\* priority again if q was its last mutex, and either the first task that waits
\* outranks t then or nobody who is awake does.
Gives(s, d, t, q) ==
    /\ Sane(s) /\ Sane(d) /\ s.pxCurrentTCB = t /\ SameTask(s, d) /\ SameEvents(s, d)
    /\ Asleep(d) = Asleep(s) /\ Leads(s)
    /\ \A u \in AllTasks \ {t} : d.uxPriority[u] = s.uxPriority[u]
    /\ Sorted(s.uxPriority, s.waitRecv[q])
    /\ Waiting(s, q, "recv") \subseteq Tasks \ {t}
    /\ d.uxPriority # s.uxPriority /\ s.waitRecv[q] # << >> =>
          \/ s.uxPriority[Head(s.waitRecv[q])] > d.uxPriority[t]
          \/ \A u \in Tasks \ {t} : u \in Asleep(s) \/ s.uxPriority[u] <= d.uxPriority[t]

\* The order of those that wait does not depend on the giver.
LEMMA GivesSorted ==
    ASSUME NEW s, NEW d, NEW t \in Tasks, NEW q \in Mutexes, Gives(s, d, t, q)
    PROVE  /\ Sorted(d.uxPriority, d.waitRecv[q]) /\ d.waitRecv = s.waitRecv
           /\ Waiting(d, q, "recv") = Waiting(s, q, "recv")
<1>1. PICK l \in Seq(Tasks) : l = s.waitRecv[q] /\ Sorted(s.uxPriority, l)
  BY Constants DEF Gives, Sane, KRec
<1>2. d.waitRecv = s.waitRecv /\ Range(l) = Waiting(s, q, "recv") /\ Waiting(d, q, "recv") = Waiting(s, q, "recv")
  BY <1>1 DEF Gives, SameEvents, Waiting, EventList
<1>3. \A i \in DOMAIN l : l[i] \in AllTasks \ {t}
  BY <1>2, Constants DEF Range, Gives
<1>4. \A i \in DOMAIN l : d.uxPriority[l[i]] = s.uxPriority[l[i]]
  BY <1>3 DEF Gives
<1>5. Sorted(d.uxPriority, l)
  BY <1>1, <1>4 DEF Sorted
<1> QED BY <1>1, <1>2, <1>5

\* Nobody waits: a switch is pending if the priority changed.
LEMMA GiveNobody ==
    ASSUME NEW s, NEW d, NEW r, NEW t \in Tasks, NEW q \in Mutexes, Gives(s, d, t, q),
           Waiting(s, q, "recv") = {}, SameEvents(d, r), SameSleep(d, r), SamePrio(d, r), SameTask(d, r),
           d.uxPriority # s.uxPriority => r.pendsv, NEW C
    PROVE  (r.pendsv \/ Leads(r)) /\ MutexAt(r, NULL, C, q)
<1>1. ASSUME d.uxPriority = s.uxPriority PROVE Leads(r)
  <2>1. Leads(d)
    BY <1>1 DEF Gives, Leads, SameTask
  <2> QED BY <2>1, LeadsSame DEF SameTask
<1>2. Sorted(r.uxPriority, r.waitRecv[q])
  BY GivesSorted DEF SamePrio, SameEvents
<1>3. Waiting(r, q, "recv") = {}
  BY DEF Gives, SameEvents, Waiting, EventList
<1>4. MutexAt(r, NULL, C, q)
  BY <1>2, <1>3 DEF MutexAt
<1> QED BY <1>1, <1>4

\* The first that waits is woken: it is the heir, and a switch to it is pending or
\* nobody outranks the giver.
LEMMA GiveHeir ==
    ASSUME NEW s, NEW d, NEW r, NEW t \in Tasks, NEW q \in Mutexes, Gives(s, d, t, q),
           Waiting(s, q, "recv") # {}, r = WakeOne(d, q, "recv"), ~d.uxSchedulerSuspended,
           NEW C, Waiting(s, q, "recv") \subseteq C
    PROVE  (r.pendsv \/ Leads(r)) /\ MutexAt(r, NULL, C, q)
<1>1. q \in Queues /\ "recv" \in Sides /\ Tasks \subseteq AllTasks /\ Sane(d) /\ d \in KRec
  BY Constants DEF Sides, Gives, Sane
<1>2. Waiting(d, q, "recv") = Waiting(s, q, "recv") /\ d.waitRecv = s.waitRecv /\ Sorted(d.uxPriority, d.waitRecv[q])
  BY GivesSorted
<1>3. PICK w \in Tasks : w = Woken(d, q, "recv") /\ w \in Waiting(s, q, "recv") /\ Roused(d, r, w)
  BY <1>1, <1>2, WakeOneIs
<1>4. /\ Freed(d, r, {w}) /\ Asleep(r) = Asleep(d) \ {w} /\ r.pendsv = (d.pendsv \/ Outranks(d, w))
  BY <1>3 DEF Roused, WokenUp
<1>5. r.uxPriority = d.uxPriority /\ SameTask(d, r)
  <2>1. Keeps(d, r)
    BY <1>1, WakeOneKeeps
  <2> QED BY <1>4, <2>1 DEF Freed, Keeps
<1>6. PICK l \in Seq(Tasks) : l = d.waitRecv[q]
  BY <1>1 DEF KRec
<1>7. w = Head(l) /\ Range(l) = Waiting(s, q, "recv") /\ Sorted(d.uxPriority, l)
  BY <1>2, <1>3, <1>6 DEF Woken, Waiting, EventList
<1>8. l # << >>
  <2>1. Range(<< >>) = {}
    BY DEF Range
  <2> QED BY <1>7, <2>1
<1>9. \A u \in AllTasks : s.uxPriority[u] \in Nat /\ d.uxPriority[u] \in Nat /\ d.uxPriority[u] >= Base[u]
  BY PrioNat DEF Gives
<1>10. \A u \in Waiting(s, q, "recv") : r.uxPriority[w] >= Base[u]
  <2>1. PICK p : p = d.uxPriority
    OBVIOUS
  <2>2. Sorted(p, l) /\ p[Head(l)] >= Base[Head(l)]
    BY <1>1, <1>7, <1>9, <2>1
  <2>3. \A u \in Range(l) : p[Head(l)] >= Base[u]
    BY <1>8, <2>2, HeadFirst
  <2> QED BY <1>5, <1>7, <2>1, <2>3
<1>11. MutexAt(r, NULL, C, q)
  <2>1. Waiting(r, q, "recv") = Waiting(s, q, "recv") \ {w}
    BY <1>1, <1>2, <1>4, FreedWaiting
  <2>2. Sorted(r.uxPriority, r.waitRecv[q])
    BY <1>1, <1>2, <1>4, <1>5 DEF Freed, Thins
  <2>3. Heir(r, C, Waiting(r, q, "recv"))
    BY <1>3, <1>4, <1>10, <2>1 DEF Heir
  <2> QED BY <2>2, <2>3 DEF MutexAt
<1>12. ASSUME ~Outranks(d, w) PROVE Leads(r)
  <2>1. d.pxCurrentTCB = t /\ s.pxCurrentTCB = t /\ r.pxCurrentTCB = t
    BY <1>5 DEF Gives, SameTask
  <2>2. t \in AllTasks /\ w \in AllTasks /\ w # t /\ d.uxPriority[w] = s.uxPriority[w]
    BY <1>1, <1>3 DEF Gives
  <2>3. d.uxPriority[w] <= d.uxPriority[t]
    BY <1>9, <1>12, <2>1, <2>2 DEF Outranks
  <2>4. ASSUME NEW u \in AllTasks, u \notin Asleep(s) PROVE d.uxPriority[u] <= d.uxPriority[t]
    <3>1. s.uxPriority[u] <= s.uxPriority[t]
      BY <2>1, <2>4 DEF Gives, Leads
    <3>2. CASE d.uxPriority = s.uxPriority
      BY <3>1, <3>2
    <3>3. CASE d.uxPriority # s.uxPriority
      <4>1. CASE u = t
        BY <1>9, <4>1
      <4>2. CASE u = Idle
        <5>1. d.uxPriority[Idle] = 0
          BY <1>1 DEF Sane, Raised
        <5> QED BY <1>9, <2>2, <4>2, <5>1
      <4>3. CASE u \in Tasks \ {t}
        <5>1. s.waitRecv[q] # << >> /\ Head(s.waitRecv[q]) = w
          BY <1>2, <1>6, <1>7, <1>8
        <5>2. ~(s.uxPriority[w] > d.uxPriority[t])
          BY <1>9, <2>2, <2>3
        <5>3. s.uxPriority[u] <= d.uxPriority[t]
          BY <2>4, <3>3, <4>3, <5>1, <5>2 DEF Gives
        <5>4. d.uxPriority[u] = s.uxPriority[u]
          BY <2>4, <4>3 DEF Gives
        <5> QED BY <5>3, <5>4
      <4> QED BY <4>1, <4>2, <4>3 DEF AllTasks
    <3> QED BY <3>2, <3>3
  <2>5. ASSUME NEW u \in AllTasks, u \notin Asleep(r) PROVE r.uxPriority[u] <= r.uxPriority[r.pxCurrentTCB]
    <3>1. u = w \/ u \notin Asleep(s)
      BY <1>4, <2>5 DEF Gives
    <3> QED BY <1>5, <2>1, <2>3, <2>4, <3>1
  <2> QED BY <2>5 DEF Leads
<1> QED BY <1>4, <1>11, <1>12

\* Meanwhile nothing changes at another mutex m: the giver neither holds it, if it
\* is lowered, nor asks for it.
LEMMA GiveElsewhere ==
    ASSUME KernelInv, ListInv, WakeInv, MutexInv, NEW t \in Tasks, NEW q \in Mutexes, NEW m \in Mutexes, m # q,
           call[t].op # "lock", NEW d, NEW r, Sane(r), Given(k, d, r, t, q),
           t \notin Asleep(k), \A u \in AllTasks \ {t} : d.uxPriority[u] = k.uxPriority[u],
           d.uxPriority = k.uxPriority \/ xMutexHolder[m] # t,
           NEW D, Calling(call, ret, m, "recv") \subseteq D
    PROVE  MutexAt(r, xMutexHolder[m], D, m)
<1>1. Sane(k) /\ Sane(d) /\ SameEvents(k, d) /\ q \in Queues /\ m \in Queues /\ "recv" \in Sides /\ Tasks \subseteq AllTasks
  BY Constants DEF KernelInv, TaskInv, Given, Lowered, Sides
<1>2. (\A u : u \in Asleep(r) => u \in Asleep(k)) /\ r.uxPriority = d.uxPriority
  <2>1. (\A u : u \in Asleep(r) => u \in Asleep(k) /\ r.wake[u] = k.wake[u]) /\ SamePrio(d, r)
    BY <1>1, GivenSleeps
  <2> QED BY <2>1 DEF SamePrio
<1>3. Waiting(d, q, "recv") = Waiting(k, q, "recv") /\ Waiting(d, m, "recv") = Waiting(k, m, "recv")
      /\ d.waitRecv = k.waitRecv
  BY <1>1, SameWaiting DEF SameEvents
<1>4. Waiting(r, m, "recv") = Waiting(k, m, "recv") /\ Thins(k.waitRecv[m], r.waitRecv[m])
  <2>1. CASE Waiting(k, q, "recv") = {}
    <3>1. SameEvents(d, r)
      BY <2>1 DEF Given
    <3> QED BY <1>1, <1>3, <3>1, SameWaiting DEF SameEvents, Thins
  <2>2. CASE Waiting(k, q, "recv") # {}
    <3>1. r = WakeOne(d, q, "recv")
      BY <2>2 DEF Given
    <3>2. PICK W \in SUBSET Waiting(d, q, "recv") : Freed(d, r, W)
      BY <1>1, <3>1, WakeOneFreed
    <3>3. \A u \in W : u \notin Waiting(d, m, "recv")
      BY <1>3, WaitsOnce
    <3>4. Waiting(r, m, "recv") = Waiting(d, m, "recv") /\ Thins(d.waitRecv[m], r.waitRecv[m])
      BY <3>2, <3>3, FreedCalm
    <3> QED BY <1>3, <3>4
  <2> QED BY <2>1, <2>2
<1>5. PICK C \in SUBSET Tasks : /\ C = Calling(call, ret, m, "recv") /\ t \notin C
                                /\ MutexAt(k, xMutexHolder[m], C, m) /\ Waiting(k, m, "recv") \subseteq C
  <2>1. Calling(call, ret, m, "recv") \subseteq Tasks /\ t \notin Calling(call, ret, m, "recv")
    BY Locker DEF Calling
  <2> QED BY <2>1, WaitersCall DEF MutexInv
<1>6. PICK g \in Tasks \cup {NULL} : g = xMutexHolder[m]
  BY DEF KernelInv, QueueInv, QueueTypes
<1>7. \A u \in AllTasks : k.uxPriority[u] \in Nat
  BY <1>1, PrioNat
<1>8. g # NULL => r.uxPriority[g] >= k.uxPriority[g]
  BY <1>1, <1>2, <1>6, <1>7
<1>9. \A u \in C : r.uxPriority[u] >= k.uxPriority[u] /\ (u \in Asleep(r) => u \in Asleep(k))
  BY <1>1, <1>2, <1>5, <1>7
<1>10. MutexAt(r, g, D, m)
  BY <1>1, <1>4, <1>5, <1>6, <1>8, <1>9, MutexRaised
<1> QED BY <1>6, <1>10

\* TrySend.
LEMMA SendPrio ==
    ASSUME KernelInv, KernelInv', ListInv, WakeInv, HeldInv, PrioInv, NEW t \in Tasks, TrySend(t), ~ForgetsSwitch
    PROVE  PrioInv'
<1>1. t = cur /\ ~k.pendsv /\ pc[t] = "try" /\ call' = call /\ Posting(t) /\ k.pxCurrentTCB = t
  BY DEF TrySend, At, cur
<1>2. call[t].op # "lock"
  BY <1>1 DEF Posting
<1>3. CASE call[t].op # "unlock"
  <2>1. CASE uxMessagesWaiting[Target(t)] >= uxLength(Target(t))
    <3>1. Refuse(t)
      BY <2>1, Zenon DEF TrySend
    <3> QED BY <1>1, <3>1, RefusePrio
  <2>2. CASE ~(uxMessagesWaiting[Target(t)] >= uxLength(Target(t)))
    <3>1. Target(t) = mbox /\ xMutexHolder' = xMutexHolder /\ "recv" \in Sides
      BY <1>3, <2>2, PostEffect DEF Sides
    <3>2. k' = WakeOne(k, mbox, "recv")
      BY <2>2, <3>1, Zenon DEF TrySend
    <3>3. Moves(t, "return", call[t], Ok, loc[t])
      BY <2>2, SendMoves DEF KernelInv
    <3> QED BY <1>1, <1>2, <3>1, <3>2, <3>3, ServedPrio
  <2> QED BY <2>1, <2>2
<1>4. CASE call[t].op = "unlock"
  <2>1. PICK q \in Mutexes : /\ q = Target(t) /\ xMutexHolder[q] = t
                             /\ xMutexHolder' = [xMutexHolder EXCEPT ![q] = NULL]
                             /\ \E d : Given(k, d, k', t, q)
    BY <1>4, GiveParts
  <2>2. Moves(t, "return", call[t], Ok, loc[t])
    BY <1>4, GiveParts
  <2>3. PICK r : r = k'
    OBVIOUS
  <2>4. PICK d : Given(k, d, r, t, q)
    BY <2>1, <2>3
  <2>5. t \notin Asleep(k) /\ Sane(k) /\ CallTypes
    BY <1>1, AwakeNow DEF ListInv, KernelInv, TaskInv
  <2>6. Sane(d) /\ Disinherited(k, d, t) /\ Lowered(k, d, t)
    BY <2>4 DEF Given
  <2>7. SameTask(k, d) /\ SameEvents(k, d) /\ Asleep(d) = Asleep(k)
    BY <2>5, <2>6 DEF Disinherited, Lowered
  <2>8. Leads(k) /\ ~k.uxSchedulerSuspended
    BY <1>1, LeadsNow DEF PrioInv, Suspending
  <2>9. t # NULL
    BY KernelAssumption DEF NULL
  <2>10. Sorted(k.uxPriority, k.waitRecv[q])
    BY DEF PrioInv, MutexInv, MutexAt
  <2>11. Waiting(k, q, "recv") \subseteq Tasks \ {t}
    BY <2>5, Waiter
  <2>12. \/ d.uxPriority = k.uxPriority
         \/ /\ d.uxPriority = [k.uxPriority EXCEPT ![t] = Base[t]]
            /\ k.uxMutexesHeld[t] = 1 /\ \A m \in Mutexes \ {q} : xMutexHolder[m] # t
    BY <2>1, <2>6, GiverLowered
  <2>13. /\ \A u \in AllTasks \ {t} : d.uxPriority[u] = k.uxPriority[u]
         /\ d.uxPriority # k.uxPriority => d.uxPriority[t] = Base[t]
    <3>1. k.uxPriority \in [AllTasks -> Prios] /\ t \in AllTasks
      BY <2>5, Constants DEF Sane, KRec
    <3> QED BY <2>12, <3>1
  <2>14. ASSUME d.uxPriority # k.uxPriority, k.waitRecv[q] # << >>,
                ~(k.uxPriority[Head(k.waitRecv[q])] > d.uxPriority[t])
         PROVE  \A u \in Tasks \ {t} : u \in Asleep(k) \/ k.uxPriority[u] <= d.uxPriority[t]
    <3>1. d.uxPriority[t] = Base[t] /\ k.uxMutexesHeld[t] = 1
      BY <2>12, <2>13, <2>14
    <3>2. PICK w \in Tasks : w = Head(k.waitRecv[q])
      <4>1. PICK l \in Seq(Tasks) : l = k.waitRecv[q]
        BY <2>5, Constants DEF Sane, KRec
      <4> QED BY <2>14, <4>1
    <3>3. \A u \in Tasks : k.uxPriority[u] \in Nat /\ Base[u] \in Nat
      BY <2>5, PrioNat, Constants
    <3>4. k.uxPriority[w] <= Base[t]
      BY <2>14, <3>1, <3>2, <3>3
    <3>5. ~\E u \in Tasks \ {t} : u \notin Asleep(k) /\ k.uxPriority[u] > Base[t]
      BY <1>4, <2>1, <2>14, <3>1, <3>2, <3>4 DEF ForgetsSwitch
    <3> QED BY <3>1, <3>3, <3>5
  <2>15. Gives(k, d, t, q)
    BY <1>1, <2>5, <2>6, <2>7, <2>8, <2>10, <2>11, <2>13, <2>14 DEF Gives
  <2>16. Stay
    BY <1>2, <2>2, <2>5, CallersStay
  <2>17. PICK C : C = Calling(call', ret', q, "recv") /\ Waiting(k, q, "recv") \subseteq C
    BY <2>16, WaitersCall DEF Stay
  <2>18. (r.pendsv \/ Leads(r)) /\ MutexAt(r, NULL, C, q)
    <3>1. CASE Waiting(k, q, "recv") = {}
      <4>1. /\ SameEvents(d, r) /\ SameSleep(d, r) /\ SamePrio(d, r) /\ SameTask(d, r)
            /\ d.uxPriority # k.uxPriority => r.pendsv
        BY <2>4, <3>1 DEF Given
      <4> QED BY <2>15, <3>1, <4>1, GiveNobody
    <3>2. CASE Waiting(k, q, "recv") # {}
      <4>1. r = WakeOne(d, q, "recv") /\ ~d.uxSchedulerSuspended
        BY <2>4, <2>7, <2>8, <3>2 DEF Given, SameTask
      <4> QED BY <2>15, <2>17, <3>2, <4>1, GiveHeir
    <3> QED BY <3>1, <3>2
  <2>19. ASSUME NEW m \in Mutexes \ {q} PROVE MutexAt(r, xMutexHolder[m], Calling(call', ret', m, "recv"), m)
    <3>1. PICK D : D = Calling(call', ret', m, "recv") /\ Calling(call, ret, m, "recv") \subseteq D
      BY <2>16 DEF Stay
    <3>2. Sane(r) /\ (d.uxPriority = k.uxPriority \/ xMutexHolder[m] # t)
      BY <2>3, <2>12 DEF KernelInv, TaskInv
    <3>3. MutexAt(r, xMutexHolder[m], D, m)
      BY <1>2, <2>4, <2>5, <2>13, <3>1, <3>2, GiveElsewhere DEF PrioInv
    <3> QED BY <3>1, <3>3
  <2>20. xMutexHolder'[q] = NULL /\ \A m \in Mutexes \ {q} : xMutexHolder'[m] = xMutexHolder[m]
    BY <2>1 DEF KernelInv, QueueInv, QueueTypes
  <2>21. MutexInv'
    BY <2>3, <2>17, <2>18, <2>19, <2>20 DEF MutexInv
  <2> QED BY <2>3, <2>18, <2>21 DEF PrioInv, Led, LedAt
<1> QED BY <1>3, <1>4

\* The scheduler starts with the highest task, and nobody waits.
LEMMA PrioInit == Init => PrioInv
<1> SUFFICES ASSUME Init PROVE PrioInv
  OBVIOUS
<1>1. WakeInv /\ KernelInv /\ Asleep(k) = {} /\ k.pxCurrentTCB \in Tasks
  BY WakeInit, KernelInit, InitTasks
<1>2. \A q \in Mutexes : k.waitRecv[q] = << >> /\ xMutexHolder[q] = NULL
  BY Constants DEF Init
<1>3. Range(<< >>) = {} /\ Sorted(k.uxPriority, << >>)
  BY DEF Range, Sorted
<1>4. MutexInv
  BY <1>2, <1>3 DEF MutexInv, MutexAt, Waiting, EventList
<1>5. k.uxPriority = Base /\ \A v \in Tasks : Base[v] <= Base[k.pxCurrentTCB]
  BY DEF Init
<1>6. Base[k.pxCurrentTCB] \in Nat /\ Base[Idle] = 0
  BY <1>1, Constants
<1>7. Leads(k)
  BY <1>5, <1>6 DEF Leads, AllTasks
<1> QED BY <1>4, <1>7 DEF PrioInv, Led, LedAt

\* The fifth layer is inductive with the others.
LEMMA PrioNext ==
    ASSUME MUTEX_EXPIRES = FALSE
    PROVE  /\ KernelInv /\ KernelInv' /\ ListInv /\ WakeInv /\ HeldInv /\ PrioInv
           /\ [Next]_vars /\ [~ForgetsSwitch]_vars
           => PrioInv'
<1> SUFFICES ASSUME KernelInv, KernelInv', ListInv, WakeInv, HeldInv, PrioInv, [Next]_vars, [~ForgetsSwitch]_vars
             PROVE  PrioInv'
  OBVIOUS
<1>1. ASSUME NEW t \in Tasks, Step(t), ~ForgetsSwitch PROVE PrioInv'
  BY <1>1, BeginPrio, DelayPrio, SendPrio, ReceivePrio, TakePrio, SuspendPrio, LockPrio, CheckPrio,
     TestPrio, PlacePrio, UnlockPrio, ResumePrio, RecheckPrio, ReturnPrio DEF Step
<1>2. CASE Tick
  BY <1>2, TickPrio
<1>3. CASE IsrPost
  BY <1>3, IsrPostPrio
<1>4. CASE vTaskSwitchContext
  BY <1>4, SwitchPrio
<1>5. CASE UNCHANGED vars
  <2>1. k' = k /\ UNCHANGED <<xMutexHolder, call, ret, loc>> /\ Stay
    BY <1>5 DEF vars, queueVars, callVars, Stay
  <2>2. SameEvents(k, k') /\ SameSleep(k, k') /\ SamePrio(k, k')
    BY <2>1 DEF SameEvents, SameSleep, SamePrio
  <2>3. MutexInv'
    BY <2>1, <2>2, StillMutex DEF PrioInv
  <2> QED BY <2>1, <2>3 DEF PrioInv, Led, LedAt, cur
<1> QED BY <1>1, <1>2, <1>3, <1>4, <1>5 DEF Next

\* What the fifth layer says of the running task and of the holders.
LEMMA PrioInvShows == KernelInv /\ ListInv /\ HeldInv /\ PrioInv => HighestReadyRuns /\ NoPriorityInversion
<1> SUFFICES ASSUME KernelInv, ListInv, HeldInv, PrioInv PROVE HighestReadyRuns /\ NoPriorityInversion
  OBVIOUS
<1>1. HighestReadyRuns
  <2>1. SUFFICES ASSUME ~k.pendsv, ~k.uxSchedulerSuspended
                 PROVE  /\ cur \in k.ready[k.uxPriority[cur]]
                        /\ \A p \in Prios : k.ready[p] # {} => p <= k.uxPriority[cur]
    BY DEF HighestReadyRuns
  <2>2. Leads(k) /\ cur \notin Asleep(k)
    BY <2>1 DEF PrioInv, Led, LedAt, ListInv, Running
  <2>3. Placed(k) /\ cur \in AllTasks /\ k.ready \in [Prios -> SUBSET AllTasks]
    BY DEF ListInv, Sound, KernelInv, TaskInv, Sane, KRec, cur
  <2>4. ASSUME NEW p \in Prios, NEW u \in k.ready[p] PROVE p <= k.uxPriority[cur]
    <3>1. u \in AllTasks
      BY <2>3, <2>4
    <3>2. p = k.uxPriority[u] /\ u \notin Asleep(k)
      BY <2>3, <2>4, <3>1 DEF Placed
    <3> QED BY <2>2, <3>1, <3>2 DEF Leads, cur
  <2> QED BY <2>2, <2>3, <2>4 DEF Placed
<1>2. NoPriorityInversion
  <2>1. ASSUME NEW m \in Mutexes, NEW t \in Range(k.waitRecv[m]), xMutexHolder[m] # NULL
        PROVE  k.uxPriority[xMutexHolder[m]] >= Base[t]
    <3>1. t \in Waiting(k, m, "recv")
      BY <2>1 DEF Waiting, EventList
    <3>2. Boosted(k, xMutexHolder[m], Waiting(k, m, "recv"))
      BY <2>1 DEF PrioInv, MutexInv, MutexAt
    <3> QED BY <3>1, <3>2 DEF Boosted
  <2> QED BY <2>1 DEF NoPriorityInversion, HeldInv, OwnPriority
<1> QED BY <1>1, <1>2

\* All layers of the invariant, in every state until the kernel forgets a switch.
LEMMA FiveLayers ==
    ASSUME MUTEX_EXPIRES = FALSE
    PROVE  Spec /\ [][~ForgetsSwitch]_vars => [](KernelInv /\ ListInv /\ HeldInv /\ PrioInv)
<1>1. KernelInv /\ ListInv /\ [Next]_vars => ListInv'
  BY ListNext
<1>2. /\ KernelInv /\ KernelInv' /\ ListInv /\ WakeInv /\ HeldInv /\ PrioInv
      /\ [Next]_vars /\ [~ForgetsSwitch]_vars
      => PrioInv'
  BY PrioNext
<1> QED BY <1>1, <1>2, KernelInit, KernelNext, ListInit, WakeInit, WakeNext, HeldInit, HeldNext, PrioInit, PTL DEF Spec

\* A task that holds no mutex runs at its own priority, with any number of
\* mutexes: whatever it inherited it has given back.
THEOREM OwnPriorityAlways ==
    ASSUME MUTEX_EXPIRES = FALSE
    PROVE  Spec => [](\A t \in Tasks : k.uxMutexesHeld[t] = 0 => k.uxPriority[t] = Base[t])
<1>1. HeldInv => \A t \in Tasks : k.uxMutexesHeld[t] = 0 => k.uxPriority[t] = Base[t]
  BY DEF HeldInv, OwnPriority
<1>2. Spec => [](KernelInv /\ ListInv /\ WakeInv /\ HeldInv)
  BY FourLayers
<1> QED BY <1>1, <1>2, PTL

\* With any number of mutexes and any priorities, as long as xQueueGenericSend()
\* ignores no switch that xTaskPriorityDisinherit() asked for: unless a switch is
\* pending or the scheduler is suspended, the running task is ready and no ready
\* task has a higher priority.
THEOREM HighestReadyRunsAlways ==
    ASSUME MUTEX_EXPIRES = FALSE
    PROVE  Spec /\ [][~ForgetsSwitch]_vars => []HighestReadyRuns
<1>1. Spec /\ [][~ForgetsSwitch]_vars => [](KernelInv /\ ListInv /\ HeldInv /\ PrioInv)
  BY FiveLayers
<1> QED BY <1>1, PrioInvShows, PTL

\* With any number of mutexes and any priorities, as long as xQueueGenericSend()
\* ignores no switch that xTaskPriorityDisinherit() asked for: the holder of a
\* mutex runs at least at the priority of every task that waits for it, and a
\* task that holds none at its own.
THEOREM NoPriorityInversionAlways ==
    ASSUME MUTEX_EXPIRES = FALSE
    PROVE  Spec /\ [][~ForgetsSwitch]_vars => []NoPriorityInversion
<1>1. Spec /\ [][~ForgetsSwitch]_vars => [](KernelInv /\ ListInv /\ HeldInv /\ PrioInv)
  BY FiveLayers
<1> QED BY <1>1, PrioInvShows, PTL

=============================================================================
