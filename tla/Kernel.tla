-------------------------------- MODULE Kernel --------------------------------
(***************************************************************************)
(* The FreeRTOS kernel under lwIP's system layer: mailboxes and mutexes of *)
(* sys_arch.c over queue.c, blocking with a timeout, the tick, the switch  *)
(* of tasks and priority inheritance of tasks.c.                           *)
(*                                                                         *)
(* One action is one critical section (taskENTER_CRITICAL ..               *)
(* taskEXIT_CRITICAL) or a step with the scheduler suspended.  Between two *)
(* actions the tick or another interrupt may come, and PendSV switches     *)
(* tasks.  Only the current task steps, and only while no PendSV is        *)
(* pending.  The state of tasks.c is the record k, whose fields are the    *)
(* file's variables; a ready list is a set, so tasks of one priority take  *)
(* turns in any order.                                                     *)
(*                                                                         *)
(* FreeRTOSConfig.h does not define INCLUDE_vTaskSuspend, so portMAX_DELAY *)
(* is a long timeout like any other, and configASSERT is empty.            *)
(***************************************************************************)
EXTENDS Integers, Sequences, FiniteSets, FiniteSetsExt, SequencesExt

CONSTANTS
    Tasks,          \* application tasks
    Idle,           \* the idle task
    Base,           \* Base[t]: priority the task was created with
    Ops,            \* Ops[t]: what the task calls
    Mutexes,        \* mutexes, numbered in the order in which they are taken
    Msgs,           \* messages
    MBOX_SIZE,      \* length of the mailbox
    TICKS,          \* bound: values of TickType_t (2^32)
    TIMEOUT,        \* the timeout of a fetch, in ticks
    OVERFLOWS,      \* bound: values of xNumOfOverflows (2^32)
    PENDED,         \* bound: ticks while the scheduler is suspended
    ISR_POSTS,      \* does an interrupt post to the mailbox?
    MUTEX_EXPIRES   \* may a mutex be waited for as long as portMAX_DELAY?

ASSUME KernelAssumption ==
    /\ IsFiniteSet(Tasks) /\ {Idle, "NULL"} \cap Tasks = {}
    /\ Base \in [Tasks \cup {Idle} -> Nat] /\ Base[Idle] = 0
    /\ \A t \in Tasks : Base[t] > 0
    /\ Mutexes \subseteq Nat \ {0}
    /\ MBOX_SIZE \in Nat \ {0} /\ TICKS \in Nat \ {0} /\ OVERFLOWS \in Nat \ {0}
    /\ TIMEOUT \in 1 .. TICKS - 1 /\ PENDED \in Nat
    /\ ISR_POSTS \in BOOLEAN /\ MUTEX_EXPIRES \in BOOLEAN

AllTasks      == Tasks \cup {Idle}
Prios         == {Base[t] : t \in AllTasks}
mbox          == 0                     \* the mailbox; mutexes have other numbers
Queues        == Mutexes \cup {mbox}
portMAX_DELAY == TICKS - 1
NULL          == "NULL"
queueUNLOCKED == -1
queueLOCKED_UNMODIFIED == 0

VARIABLES
    k,          \* the state of tasks.c and the queues' event lists
    ring, pcWriteTo, pcReadFrom,    \* the mailbox's storage
    uxMessagesWaiting,              \* per queue; 1 is a free mutex
    cTxLock,                        \* per queue
    xMutexHolder,                   \* per mutex
    pc,         \* where a task is in the call it makes
    call, ret,  \* the call and what it returns
    loc,        \* its locals: xTicksToWait, xTimeOut, xInheritanceOccurred, branch
    owns        \* mutexes a task thinks it holds

queueVars == <<ring, pcWriteTo, pcReadFrom, uxMessagesWaiting, cTxLock, xMutexHolder>>
callVars  == <<pc, call, ret, loc, owns>>
vars      == <<k, queueVars, callVars>>

NoCall  == [op |-> "none"]
Pending == [st |-> "pending"]
Ok      == [st |-> "ok"]
Failed  == [st |-> "failed"]
Got(m)  == [st |-> "got", msg |-> m]
NoLoc   == [xTicksToWait |-> 0, xOverflowCount |-> 0, xTimeOnEntering |-> 0,
            set |-> FALSE, xInheritanceOccurred |-> FALSE, path |-> "none"]

cur == k.pxCurrentTCB
-----------------------------------------------------------------------------
(* tasks.c and list.c                                                      *)

\* prvAddTaskToReadyList() for every task of ts
AddToReady(s, ts) ==
    [s EXCEPT !.ready = [p \in Prios |-> s.ready[p] \cup {t \in ts : s.uxPriority[t] = p}],
              !.uxTopReadyPriority = @ \cup {s.uxPriority[t] : t \in ts}]

\* Mutant of RemoveFromReady: the bit of an emptied list stays.
RemoveKeepingBit(s, t, p, b) == [s EXCEPT !.ready[p] = @ \ {t}]

\* uxListRemove() of a task from the ready list of priority p; an empty list
\* clears the bit of priority b.
RemoveFromReady(s, t, p, b) ==
    [s EXCEPT !.ready[p] = @ \ {t},
              !.uxTopReadyPriority = IF s.ready[p] \subseteq {t} /\ (b = p \/ s.ready[b] = {})
                                     THEN @ \ {b} ELSE @]

\* uxListRemove() from the delayed lists; the wake time no longer matters.
RemoveFromDelayed(s, ts) ==
    [s EXCEPT !.delayed = @ \ ts, !.overflow = @ \ ts,
              !.wake = [t \in AllTasks |-> IF t \in ts THEN 0 ELSE s.wake[t]]]

\* What is left of the first i tasks of a list without those of ts.
Kept(l, ts) ==
    LET First[i \in 0 .. Len(l)] ==
            IF i = 0 THEN << >>
            ELSE IF l[i] \in ts THEN First[i - 1] ELSE Append(First[i - 1], l[i])
    IN  First

\* uxListRemove() from the event lists
RemoveFromEvents(s, ts) ==
    LET Keep(l) == Kept(l, ts)[Len(l)]
    IN  [s EXCEPT !.waitSend = [q \in Queues |-> Keep(s.waitSend[q])],
                  !.waitRecv = [q \in Queues |-> Keep(s.waitRecv[q])]]

\* vListInsert() into an event list: behind the tasks of the same or a higher
\* priority.
InsertByPriority(s, l, t) ==
    LET n == Cardinality({i \in DOMAIN l :
                 \A j \in 1 .. i : s.uxPriority[l[j]] >= s.uxPriority[t]})
    IN  SubSeq(l, 1, n) \o <<t>> \o SubSeq(l, n + 1, Len(l))

prvResetNextTaskUnblockTime(s) ==
    [s EXCEPT !.xNextTaskUnblockTime =
        IF s.delayed = {} THEN portMAX_DELAY ELSE Min({s.wake[t] : t \in s.delayed})]

\* prvAddCurrentTaskToDelayedList(): the current task sleeps for n ticks; a wake
\* time beyond the end of TickType_t goes to the overflow list.
prvAddCurrentTaskToDelayedList(s, n) ==
    LET t    == s.pxCurrentTCB
        wake == (s.xTickCount + n) % TICKS
        r    == [RemoveFromReady(s, t, s.uxPriority[t], s.uxPriority[t])
                    EXCEPT !.wake[t] = wake]
    IN  IF wake < s.xTickCount
        THEN [r EXCEPT !.overflow = @ \cup {t}]
        ELSE [r EXCEPT !.delayed = @ \cup {t},
                       !.xNextTaskUnblockTime = Min({@, wake})]

\* vTaskPlaceOnEventList(): the current task waits for queue q, for as long as
\* its call still may.
vTaskPlaceOnEventList(s, q, side) ==
    LET t == s.pxCurrentTCB
        e == IF side = "send"
             THEN [s EXCEPT !.waitSend[q] = InsertByPriority(s, @, t)]
             ELSE [s EXCEPT !.waitRecv[q] = InsertByPriority(s, @, t)]
    IN  prvAddCurrentTaskToDelayedList(e, loc[t].xTicksToWait)

\* The task xTaskRemoveFromEventList() takes from a list that is not empty.
Woken(s, q, side) == Head(IF side = "send" THEN s.waitSend[q] ELSE s.waitRecv[q])

Outranks(s, t) == s.uxPriority[t] > s.uxPriority[s.pxCurrentTCB]

\* Mutant of xTaskRemoveFromEventList: the woken task stays in a delayed list.
WakeStillDelayed(s, q, side) ==
    LET t == Woken(s, q, side)
        e == RemoveFromEvents(s, {t})
        r == IF s.uxSchedulerSuspended
             THEN [e EXCEPT !.xPendingReadyList = Append(@, t)]
             ELSE AddToReady(e, {t})
    IN  [r EXCEPT !.xYieldPending = @ \/ Outranks(s, t)]

xTaskRemoveFromEventList(s, q, side) ==
    LET t == Woken(s, q, side)
        e == RemoveFromEvents(s, {t})
        r == IF s.uxSchedulerSuspended
             THEN [e EXCEPT !.xPendingReadyList = Append(@, t)]
             ELSE AddToReady(RemoveFromDelayed(e, {t}), {t})
    IN  [r EXCEPT !.xYieldPending = @ \/ Outranks(s, t)]

\* Wake the first task of a list, if any, and yield to it if it outranks the
\* current one.
WakeOne(s, q, side) ==
    IF (IF side = "send" THEN s.waitSend[q] ELSE s.waitRecv[q]) = << >>
    THEN s
    ELSE [xTaskRemoveFromEventList(s, q, side)
             EXCEPT !.pendsv = @ \/ Outranks(s, Woken(s, q, side))]

\* Mutant of taskSWITCH_DELAYED_LISTS: xNextTaskUnblockTime is not reset.
SwitchWithoutReset(s) ==
    [s EXCEPT !.delayed = s.overflow, !.overflow = s.delayed,
              !.xNumOfOverflows = (@ + 1) % OVERFLOWS]

taskSWITCH_DELAYED_LISTS(s) ==
    prvResetNextTaskUnblockTime(
        [s EXCEPT !.delayed = s.overflow, !.overflow = s.delayed,
                  !.xNumOfOverflows = (@ + 1) % OVERFLOWS])

\* xTaskIncrementTick() with the scheduler running; field "switch" is what it
\* returns, kept over several ticks.
xTaskIncrementTick(s) ==
    LET now  == (s.xTickCount + 1) % TICKS
        a    == [s EXCEPT !.xTickCount = now]
        b    == IF now = 0 THEN taskSWITCH_DELAYED_LISTS(a) ELSE a
        due  == IF now >= b.xNextTaskUnblockTime
                THEN {t \in b.delayed : b.wake[t] <= now} ELSE {}
        c    == AddToReady(RemoveFromEvents(RemoveFromDelayed(b, due), due), due)
        e    == IF now >= b.xNextTaskUnblockTime THEN prvResetNextTaskUnblockTime(c) ELSE c
        mine == s.uxPriority[s.pxCurrentTCB]
    IN  [e EXCEPT !.switch = @ \/ (\E t \in due : e.uxPriority[t] >= mine)
                               \/ Cardinality(e.ready[mine]) > 1
                               \/ e.xYieldPending]

\* The state after n ticks that were pended, from state s.
CatchUp(s) ==
    LET Made[n \in 0 .. PENDED] == IF n = 0 THEN s ELSE xTaskIncrementTick(Made[n - 1])
    IN  Made

\* Mutant of xTaskResumeAll: no switch to a task that became ready meanwhile.
ResumeWithoutYield(s) ==
    LET moved == Range(s.xPendingReadyList)
        a == [AddToReady(RemoveFromDelayed(s, moved), moved) EXCEPT
                 !.uxSchedulerSuspended = FALSE, !.xPendingReadyList = << >>]
    IN  [CatchUp(prvResetNextTaskUnblockTime(a))[s.uxPendedTicks] EXCEPT !.uxPendedTicks = 0, !.switch = FALSE]

\* xTaskResumeAll(): pending tasks become ready, pended ticks are made up for.
xTaskResumeAll(s) ==
    LET moved == Range(s.xPendingReadyList)
        a == [AddToReady(RemoveFromDelayed(s, moved), moved) EXCEPT
                 !.uxSchedulerSuspended = FALSE,
                 !.xPendingReadyList = << >>,
                 !.xYieldPending =
                     @ \/ \E t \in moved : s.uxPriority[t] >= s.uxPriority[s.pxCurrentTCB]]
        b == IF moved = {} THEN a ELSE prvResetNextTaskUnblockTime(a)
        c == CatchUp(b)[s.uxPendedTicks]
    IN  [c EXCEPT !.uxPendedTicks = 0,
                  !.xYieldPending = @ \/ c.switch,
                  !.pendsv = @ \/ c.xYieldPending \/ c.switch,
                  !.switch = FALSE]

\* Has the wait of task t expired (xTaskCheckForTimeOut)?
Wrapped(t) == k.xNumOfOverflows # loc[t].xOverflowCount /\ k.xTickCount >= loc[t].xTimeOnEntering
Elapsed(t) == (k.xTickCount - loc[t].xTimeOnEntering) % TICKS
Expired(t) == Wrapped(t) \/ Elapsed(t) >= loc[t].xTicksToWait

\* vTaskInternalSetTimeOutState(), with n ticks left to wait
SetTimeOut(l, n) ==
    [l EXCEPT !.xTicksToWait = n, !.set = TRUE,
              !.xOverflowCount = k.xNumOfOverflows, !.xTimeOnEntering = k.xTickCount]

\* Mutant of xTaskPriorityInherit: no inheritance.
InheritNothing(s, h) == s

\* xTaskPriorityInherit(): the holder h gets the priority of the current task.
xTaskPriorityInherit(s, h) ==
    LET p == s.uxPriority[s.pxCurrentTCB]
    IN  IF h = NULL \/ s.uxPriority[h] >= p THEN s
        ELSE IF h \in s.ready[s.uxPriority[h]]
        THEN AddToReady([RemoveFromReady(s, h, s.uxPriority[h], s.uxPriority[h])
                            EXCEPT !.uxPriority[h] = p], {h})
        ELSE [s EXCEPT !.uxPriority[h] = p]

\* What it returns: does h run with a priority it has from a waiting task?
Inherited(s, h) ==
    h # NULL /\ LET p == s.uxPriority[s.pxCurrentTCB]
                IN  s.uxPriority[h] < p \/ Base[h] < p

\* Mutant of xTaskPriorityDisinherit: other mutexes are not considered.
DisinheritAtOnce(s, h) ==
    IF h = NULL THEN s
    ELSE LET d == [s EXCEPT !.uxMutexesHeld[h] = @ - 1]
         IN  IF d.uxPriority[h] = Base[h] THEN d
             ELSE AddToReady([RemoveFromReady(d, h, d.uxPriority[h], d.uxPriority[h])
                                 EXCEPT !.uxPriority[h] = Base[h]], {h})

\* xTaskPriorityDisinherit(): the holder gives a mutex back and, if it was the
\* last one, returns to its own priority.
xTaskPriorityDisinherit(s, h) ==
    IF h = NULL THEN s
    ELSE LET d == [s EXCEPT !.uxMutexesHeld[h] = @ - 1]
         IN  IF d.uxPriority[h] = Base[h] \/ d.uxMutexesHeld[h] > 0 THEN d
             ELSE AddToReady([RemoveFromReady(RemoveFromDelayed(d, {h}), h,
                                              d.uxPriority[h], d.uxPriority[h])
                                 EXCEPT !.uxPriority[h] = Base[h]], {h})

\* vTaskPriorityDisinheritAfterTimeout(): down to the highest priority that
\* still waits.  The code resets the ready bit of the new priority.
vTaskPriorityDisinheritAfterTimeout(s, h, q) ==
    IF h = NULL THEN s
    ELSE LET w   == IF s.waitRecv[q] = << >> THEN 0 ELSE s.uxPriority[Head(s.waitRecv[q])]
             new == Max({Base[h], w})
             old == s.uxPriority[h]
         IN  IF old = new \/ s.uxMutexesHeld[h] # 1 THEN s
             ELSE IF h \in s.ready[old]
             THEN AddToReady([RemoveFromReady(s, h, old, new) EXCEPT !.uxPriority[h] = new], {h})
             ELSE [s EXCEPT !.uxPriority[h] = new]
-----------------------------------------------------------------------------
(* The calls of sys_arch.c, each a walk through one function of queue.c.   *)

uxLength(q) == IF q = mbox THEN MBOX_SIZE ELSE 1
Posting(t)  == call[t].op \in {"post", "trypost", "unlock"}
Fetching(t) == call[t].op \in {"fetch", "fetchT", "tryfetch"}
Target(t)   == IF call[t].op \in {"lock", "unlock"} THEN call[t].mutex ELSE mbox
Side(t)     == IF Posting(t) THEN "send" ELSE "recv"

\* The current task is at step l of its call.
At(t, l)  == t = cur /\ ~k.pendsv /\ pc[t] = l
Goto(t, l) == pc' = [pc EXCEPT ![t] = l]
Finish(t, r) == Goto(t, "return") /\ ret' = [ret EXCEPT ![t] = r]

\* The block time each call passes to the kernel.
BlockTime(op) == CASE op \in {"post", "fetch", "lock"} -> portMAX_DELAY
                   [] op = "fetchT" -> TIMEOUT
                   [] OTHER -> 0

\* A task calls sys_mbox_post/trypost, sys_arch_mbox_fetch/tryfetch,
\* sys_mutex_lock or sys_mutex_unlock.  lwIP takes mutexes in a fixed order
\* and does not wait for a mailbox while it holds one.
Begin(t) ==
    /\ At(t, "idle") /\ t # Idle
    /\ \E op \in Ops[t] :
         \/ /\ op \in {"post", "trypost"} /\ (op = "post" => owns[t] = {})
            /\ \E m \in Msgs : call' = [call EXCEPT ![t] = [op |-> op, msg |-> m]]
         \/ /\ op \in {"fetch", "fetchT", "tryfetch"} /\ owns[t] = {}
            /\ call' = [call EXCEPT ![t] = [op |-> op]]
         \/ /\ op = "lock"
            /\ \E m \in Mutexes : (\A n \in owns[t] : n < m)
                   /\ call' = [call EXCEPT ![t] = [op |-> op, mutex |-> m]]
         \/ /\ op = "unlock"
            /\ \E m \in owns[t] : call' = [call EXCEPT ![t] = [op |-> op, mutex |-> m]]
    /\ loc' = [loc EXCEPT ![t].xTicksToWait = BlockTime(call'[t].op)]
    /\ Goto(t, "try")
    /\ UNCHANGED <<k, queueVars, ret, owns>>

\* vTaskDelay(1)
Delay(t) ==
    /\ At(t, "idle") /\ "delay" \in Ops[t] /\ owns[t] = {}
    /\ k' = [prvAddCurrentTaskToDelayedList(k, 1) EXCEPT !.uxSchedulerSuspended = TRUE]
    /\ call' = [call EXCEPT ![t] = [op |-> "delay"]]
    /\ loc' = [loc EXCEPT ![t].path = "blocked"]
    /\ Goto(t, "resume")
    /\ UNCHANGED <<queueVars, ret, owns>>

\* The queue cannot serve the call now: give up or prepare to block.
Refuse(t) ==
    /\ IF loc[t].xTicksToWait = 0
       THEN Finish(t, Failed) /\ UNCHANGED loc
       ELSE /\ Goto(t, "suspend")
            /\ loc' = IF loc[t].set THEN loc
                      ELSE [loc EXCEPT ![t] = SetTimeOut(@, @.xTicksToWait)]
            /\ UNCHANGED ret
    /\ UNCHANGED <<k, queueVars>>

\* The slot after slot i, and prvCopyDataToQueue() of a message.
NextSlot(i) == (i + 1) % MBOX_SIZE
Store(m) == /\ ring' = [ring EXCEPT ![pcWriteTo] = m]
            /\ pcWriteTo' = NextSlot(pcWriteTo)

\* Mutant of TrySend: one message more than there is room for.
SendBeyondLength(t) ==
    /\ At(t, "try") /\ Posting(t)
    /\ LET q == Target(t) IN
       IF uxMessagesWaiting[q] > uxLength(q) THEN Refuse(t)
       ELSE /\ uxMessagesWaiting' = [uxMessagesWaiting EXCEPT ![q] = @ + 1]
            /\ Store(call[t].msg)
            /\ k' = WakeOne(k, q, "recv")
            /\ Finish(t, Ok)
            /\ UNCHANGED <<xMutexHolder, pcReadFrom, cTxLock, loc>>
    /\ UNCHANGED <<call, owns>>

\* xQueueGenericSend() and prvCopyDataToQueue(): post a message or give a mutex.
TrySend(t) ==
    /\ At(t, "try") /\ Posting(t)
    /\ LET q == Target(t) IN
       IF uxMessagesWaiting[q] >= uxLength(q) THEN Refuse(t)
       ELSE /\ uxMessagesWaiting' = [uxMessagesWaiting EXCEPT ![q] = @ + 1]
            /\ IF q = mbox
               THEN /\ Store(call[t].msg)
                    /\ k' = WakeOne(k, q, "recv")
                    /\ UNCHANGED xMutexHolder
               ELSE LET d == xTaskPriorityDisinherit(k, xMutexHolder[q])
                    IN  /\ xMutexHolder' = [xMutexHolder EXCEPT ![q] = NULL]
                        /\ k' = IF k.waitRecv[q] # << >> THEN WakeOne(d, q, "recv")
                                ELSE [d EXCEPT !.pendsv = @ \/ d.uxPriority # k.uxPriority]
                        /\ UNCHANGED <<ring, pcWriteTo>>
            /\ Finish(t, Ok)
            /\ UNCHANGED <<pcReadFrom, cTxLock, loc>>
    /\ UNCHANGED <<call, owns>>

\* xQueueReceive() and prvCopyDataFromQueue()
TryReceive(t) ==
    /\ At(t, "try") /\ Fetching(t)
    /\ IF uxMessagesWaiting[mbox] = 0 THEN Refuse(t)
       ELSE /\ pcReadFrom' = NextSlot(pcReadFrom)
            /\ uxMessagesWaiting' = [uxMessagesWaiting EXCEPT ![mbox] = @ - 1]
            /\ k' = WakeOne(k, mbox, "send")
            /\ Finish(t, Got(ring[pcReadFrom']))
            /\ UNCHANGED <<ring, pcWriteTo, cTxLock, xMutexHolder, loc>>
    /\ UNCHANGED <<call, owns>>

\* xQueueSemaphoreTake() of a mutex; no task ever waits to give one.
TryTake(t) ==
    /\ At(t, "try") /\ call[t].op = "lock"
    /\ LET q == Target(t) IN
       IF uxMessagesWaiting[q] = 0 THEN Refuse(t)
       ELSE /\ uxMessagesWaiting' = [uxMessagesWaiting EXCEPT ![q] = @ - 1]
            /\ xMutexHolder' = [xMutexHolder EXCEPT ![q] = t]
            /\ k' = [k EXCEPT !.uxMutexesHeld[t] = @ + 1]
            /\ Finish(t, Ok)
            /\ UNCHANGED <<ring, pcWriteTo, pcReadFrom, cTxLock, loc>>
    /\ UNCHANGED <<call, owns>>

\* vTaskSuspendAll()
Suspend(t) ==
    /\ At(t, "suspend")
    /\ k' = [k EXCEPT !.uxSchedulerSuspended = TRUE]
    /\ Goto(t, "lock")
    /\ UNCHANGED <<queueVars, call, ret, loc, owns>>

prvLockQueue(t) ==
    /\ At(t, "lock")
    /\ cTxLock' = [cTxLock EXCEPT ![Target(t)] =
                       IF @ = queueUNLOCKED THEN queueLOCKED_UNMODIFIED ELSE @]
    /\ Goto(t, "check")
    /\ UNCHANGED <<k, ring, pcWriteTo, pcReadFrom, uxMessagesWaiting, xMutexHolder,
                   call, ret, loc, owns>>

Leave(t, path) == loc' = [loc EXCEPT ![t].path = path] /\ Goto(t, "unlock")

xTaskCheckForTimeOut(t) ==
    /\ At(t, "check")
    /\ IF Expired(t)
       THEN /\ loc' = [loc EXCEPT ![t].path = "expired",
                                  ![t].xTicksToWait = IF Wrapped(t) THEN @ ELSE 0]
            /\ Goto(t, "unlock")
       ELSE /\ loc' = [loc EXCEPT ![t] = SetTimeOut(@, @.xTicksToWait - Elapsed(t))]
            /\ Goto(t, "test")
    /\ UNCHANGED <<k, queueVars, call, ret, owns>>

\* prvIsQueueFull() or prvIsQueueEmpty(), with the queue locked: an interrupt
\* can still post.
TestQueue(t) ==
    /\ At(t, "test")
    /\ IF uxMessagesWaiting[Target(t)] = (IF Posting(t) THEN uxLength(Target(t)) ELSE 0)
       THEN Goto(t, "place") /\ UNCHANGED loc
       ELSE Leave(t, "again")
    /\ UNCHANGED <<k, queueVars, call, ret, owns>>

\* Go to sleep, for a mutex after its holder inherited the priority.
Place(t) ==
    /\ At(t, "place")
    /\ LET q == Target(t)
           h == IF q = mbox THEN NULL ELSE xMutexHolder[q]
       IN  /\ k' = vTaskPlaceOnEventList(xTaskPriorityInherit(k, h), q, Side(t))
           /\ loc' = [loc EXCEPT ![t].path = "blocked",
                                 ![t].xInheritanceOccurred = Inherited(k, h)]
    /\ Goto(t, "unlock")
    /\ UNCHANGED <<queueVars, call, ret, owns>>

\* The state after waking n receivers of queue q, or as many as there are.
WakeReceivers(s, q) ==
    LET Wake[n \in 0 .. MBOX_SIZE] ==
            IF n = 0 THEN s
            ELSE IF Wake[n - 1].waitRecv[q] = << >> THEN Wake[n - 1]
            ELSE xTaskRemoveFromEventList(Wake[n - 1], q, "recv")
    IN  Wake

\* Mutant of prvUnlockQueue: posts made while the queue was locked wake nobody.
UnlockAndForget(t) ==
    /\ At(t, "unlock")
    /\ cTxLock' = [cTxLock EXCEPT ![Target(t)] = queueUNLOCKED]
    /\ Goto(t, "resume")
    /\ UNCHANGED <<k, ring, pcWriteTo, pcReadFrom, uxMessagesWaiting, xMutexHolder,
                   call, ret, loc, owns>>

\* One receiver is woken for every post made while the queue was locked.
\* Interrupts only post, so cRxLock never counts.
prvUnlockQueue(t) ==
    /\ At(t, "unlock")
    /\ k' = WakeReceivers(k, Target(t))[cTxLock[Target(t)]]
    /\ cTxLock' = [cTxLock EXCEPT ![Target(t)] = queueUNLOCKED]
    /\ Goto(t, "resume")
    /\ UNCHANGED <<ring, pcWriteTo, pcReadFrom, uxMessagesWaiting, xMutexHolder,
                   call, ret, loc, owns>>

\* Mutant of Resume: a task woken while it waits for a mutex takes it for granted.
ResumeAsOwner(t) ==
    /\ At(t, "resume")
    /\ k' = [xTaskResumeAll(k) EXCEPT !.pendsv = @ \/ loc[t].path = "blocked"]
    /\ IF call[t].op \in {"delay", "lock"} THEN Finish(t, Ok)
       ELSE Goto(t, "try") /\ UNCHANGED ret
    /\ loc' = [loc EXCEPT ![t].path = "none"]
    /\ UNCHANGED <<queueVars, call, owns>>

\* xTaskResumeAll() and what follows it: a task that went to sleep yields, one
\* that saw the queue change tries again, one whose time is over looks a last
\* time; sys_mbox_post() starts over.
Resume(t) ==
    /\ At(t, "resume")
    /\ LET path == loc[t].path
           r == xTaskResumeAll(k)
       IN  /\ k' = [r EXCEPT !.pendsv = @ \/ path = "blocked"]
           /\ Goto(t, IF call[t].op = "delay" THEN "return"
                      ELSE IF path = "expired" /\ ~Posting(t) THEN "recheck" ELSE "try")
           /\ loc' = [loc EXCEPT ![t] =
                         IF path = "expired" /\ Posting(t)
                         THEN [NoLoc EXCEPT !.xTicksToWait = portMAX_DELAY]
                         ELSE [@ EXCEPT !.path = "none"]]
           /\ ret' = IF call[t].op = "delay" THEN [ret EXCEPT ![t] = Ok] ELSE ret
    /\ UNCHANGED <<queueVars, call, owns>>

\* Mutant of Recheck: a timeout fails without a last look at the queue.
FailOnTimeout(t) ==
    /\ At(t, "recheck")
    /\ Finish(t, Failed)
    /\ UNCHANGED <<k, queueVars, call, loc, owns>>

\* prvIsQueueEmpty() after the timeout
Recheck(t) ==
    /\ At(t, "recheck")
    /\ LET q == Target(t) IN
       IF uxMessagesWaiting[q] > 0
       THEN Goto(t, "try") /\ UNCHANGED <<k, ret>>
       ELSE /\ k' = IF loc[t].xInheritanceOccurred
                    THEN vTaskPriorityDisinheritAfterTimeout(k, xMutexHolder[q], q) ELSE k
            /\ Finish(t, Failed)
    /\ UNCHANGED <<queueVars, call, loc, owns>>

\* The call returns.  sys_mutex_lock() does not look at the result.
Return(t) ==
    /\ At(t, "return")
    /\ owns' = [owns EXCEPT ![t] =
                   CASE call[t].op = "lock"   -> @ \cup {call[t].mutex}
                     [] call[t].op = "unlock" -> @ \ {call[t].mutex}
                     [] OTHER -> @]
    /\ call' = [call EXCEPT ![t] = NoCall]
    /\ ret' = [ret EXCEPT ![t] = Pending]
    /\ loc' = [loc EXCEPT ![t] = NoLoc]
    /\ Goto(t, "idle")
    /\ UNCHANGED <<k, queueVars>>
-----------------------------------------------------------------------------
(* Interrupts                                                              *)

\* A wait for a mutex that would expire with the next tick.
MutexAboutToExpire ==
    \E t \in Tasks : /\ call[t].op = "lock" /\ loc[t].set
                     /\ Elapsed(t) + k.uxPendedTicks + 1 >= loc[t].xTicksToWait

\* xPortSysTickHandler() and xTaskIncrementTick()
Tick ==
    /\ MUTEX_EXPIRES \/ ~MutexAboutToExpire
    /\ IF k.uxSchedulerSuspended
       THEN /\ k.uxPendedTicks < PENDED
            /\ k' = [k EXCEPT !.uxPendedTicks = @ + 1, !.pendsv = @ \/ k.xYieldPending]
       ELSE LET s == xTaskIncrementTick(k)
            IN  k' = [s EXCEPT !.pendsv = @ \/ s.switch, !.switch = FALSE]
    /\ UNCHANGED <<queueVars, callVars>>

\* sys_mbox_trypost_fromisr() and xQueueGenericSendFromISR()
IsrPost ==
    /\ ISR_POSTS
    /\ uxMessagesWaiting[mbox] < MBOX_SIZE
    /\ \E m \in Msgs : Store(m)
    /\ uxMessagesWaiting' = [uxMessagesWaiting EXCEPT ![mbox] = @ + 1]
    /\ IF cTxLock[mbox] = queueUNLOCKED
       THEN k' = WakeOne(k, mbox, "recv") /\ UNCHANGED cTxLock
       ELSE cTxLock' = [cTxLock EXCEPT ![mbox] = @ + 1] /\ UNCHANGED k
    /\ UNCHANGED <<pcReadFrom, xMutexHolder, callVars>>

\* PendSV: some task of the highest ready priority runs next.
vTaskSwitchContext ==
    /\ k.pendsv
    /\ IF k.uxSchedulerSuspended
       THEN k' = [k EXCEPT !.pendsv = FALSE, !.xYieldPending = TRUE]
       ELSE \E t \in k.ready[Max(k.uxTopReadyPriority)] :
               k' = [k EXCEPT !.pendsv = FALSE, !.xYieldPending = FALSE, !.pxCurrentTCB = t]
    /\ UNCHANGED <<queueVars, callVars>>
-----------------------------------------------------------------------------
\* The scheduler starts: every task is ready, the highest runs.
Init ==
    /\ k \in {[pxCurrentTCB |-> t,
               ready |-> [p \in Prios |-> {u \in AllTasks : Base[u] = p}],
               uxTopReadyPriority |-> Prios, delayed |-> {}, overflow |-> {},
               wake |-> [u \in AllTasks |-> 0],
               waitSend |-> [q \in Queues |-> << >>], waitRecv |-> [q \in Queues |-> << >>],
               xPendingReadyList |-> << >>, uxSchedulerSuspended |-> FALSE,
               uxPendedTicks |-> 0, xTickCount |-> 0, xNumOfOverflows |-> 0,
               xNextTaskUnblockTime |-> portMAX_DELAY, xYieldPending |-> FALSE,
               pendsv |-> FALSE, switch |-> FALSE,
               uxPriority |-> Base, uxMutexesHeld |-> [u \in AllTasks |-> 0]] :
              t \in {u \in Tasks : \A v \in Tasks : Base[v] <= Base[u]}}
    /\ ring = [i \in 0 .. MBOX_SIZE - 1 |-> NULL]
    /\ pcWriteTo = 0 /\ pcReadFrom = MBOX_SIZE - 1
    /\ uxMessagesWaiting = [q \in Queues |-> IF q = mbox THEN 0 ELSE 1]
    /\ cTxLock = [q \in Queues |-> queueUNLOCKED]
    /\ xMutexHolder = [q \in Mutexes |-> NULL]
    /\ pc = [t \in AllTasks |-> "idle"]
    /\ call = [t \in AllTasks |-> NoCall]
    /\ ret = [t \in AllTasks |-> Pending]
    /\ loc = [t \in AllTasks |-> NoLoc]
    /\ owns = [t \in AllTasks |-> {}]

Step(t) ==
    \/ Begin(t) \/ Delay(t) \/ TrySend(t) \/ TryReceive(t) \/ TryTake(t)
    \/ Suspend(t) \/ prvLockQueue(t) \/ xTaskCheckForTimeOut(t) \/ TestQueue(t)
    \/ Place(t) \/ prvUnlockQueue(t) \/ Resume(t) \/ Recheck(t) \/ Return(t)

Next == (\E t \in Tasks : Step(t)) \/ Tick \/ IsrPost \/ vTaskSwitchContext

\* The processor executes many steps between two ticks, and a pending switch is
\* made at once.  A task gives back a mutex after finitely many calls.  The two
\* strong fairness conditions are written out with what enables the steps: a
\* task steps exactly when pc changes.
Fairness ==
    /\ []<>(cur \in Tasks /\ ~k.pendsv) => []<><<pc' # pc>>_vars
    /\ WF_vars(vTaskSwitchContext) /\ WF_vars(Tick)
    /\ \A t \in Tasks, m \in Mutexes :
           []<>(At(t, "idle") /\ m \in owns[t]) => []<>(call[t] = [op |-> "unlock", mutex |-> m])

Spec     == Init /\ [][Next]_vars
FairSpec == Spec /\ Fairness
-----------------------------------------------------------------------------
(* Properties                                                              *)

\* Every variable stays within its type: counts within the queues' lengths,
\* ticks within TickType_t, lists over tasks, program counters over the steps
\* of queue.c.
TypeOK ==
    /\ k.pxCurrentTCB \in AllTasks
    /\ k.ready \in [Prios -> SUBSET AllTasks] /\ k.uxTopReadyPriority \subseteq Prios
    /\ k.delayed \subseteq Tasks /\ k.overflow \subseteq Tasks
    /\ k.wake \in [AllTasks -> 0 .. portMAX_DELAY]
    /\ \A q \in Queues : Range(k.waitSend[q]) \cup Range(k.waitRecv[q]) \subseteq Tasks
    /\ Range(k.xPendingReadyList) \subseteq Tasks
    /\ k.uxSchedulerSuspended \in BOOLEAN /\ k.uxPendedTicks \in 0 .. PENDED
    /\ k.xTickCount \in 0 .. portMAX_DELAY /\ k.xNumOfOverflows \in 0 .. OVERFLOWS - 1
    /\ k.xNextTaskUnblockTime \in 0 .. portMAX_DELAY
    /\ k.xYieldPending \in BOOLEAN /\ k.pendsv \in BOOLEAN /\ k.switch = FALSE
    /\ k.uxPriority \in [AllTasks -> Prios] /\ k.uxMutexesHeld \in [AllTasks -> Nat]
    /\ ring \in [0 .. MBOX_SIZE - 1 -> Msgs \cup {NULL}]
    /\ pcWriteTo \in 0 .. MBOX_SIZE - 1 /\ pcReadFrom \in 0 .. MBOX_SIZE - 1
    /\ \A q \in Queues : /\ uxMessagesWaiting[q] \in 0 .. uxLength(q)
                         /\ cTxLock[q] \in queueUNLOCKED .. uxLength(q)
    /\ xMutexHolder \in [Mutexes -> Tasks \cup {NULL}]
    /\ pc \in [AllTasks -> {"idle", "try", "suspend", "lock", "check", "test", "place",
                            "unlock", "resume", "recheck", "return"}]
    /\ owns \in [AllTasks -> SUBSET Mutexes]

\* A task is in exactly one state list: ready at its own priority, or asleep.
\* tasks.c moves it with uxListRemove()/vListInsert() in many places, and a
\* changed priority must move it as well.
OneStateList ==
    \A t \in AllTasks :
        LET asleep == (IF t \in k.delayed THEN 1 ELSE 0) + (IF t \in k.overflow THEN 1 ELSE 0)
            at     == {p \in Prios : t \in k.ready[p]}
        IN  /\ at \subseteq {k.uxPriority[t]}
            /\ Cardinality(at) + asleep = 1

\* The bitmap of ready priorities has the bit of every list that is not empty
\* and of no other: taskSELECT_HIGHEST_PRIORITY_TASK() trusts it.
TopReadyExact == k.uxTopReadyPriority = {p \in Prios : k.ready[p] # {}}

\* Unless a switch is pending or the scheduler is suspended, the running task
\* is ready and no ready task has a higher priority.
HighestReadyRuns ==
    ~k.pendsv /\ ~k.uxSchedulerSuspended =>
        /\ cur \in k.ready[k.uxPriority[cur]]
        /\ \A p \in Prios : k.ready[p] # {} => p <= k.uxPriority[cur]

\* No task oversleeps: one in the delayed list wakes later than now, one in the
\* overflow list after the tick count has wrapped, and the tick interrupt's
\* shortcut xNextTaskUnblockTime hides none of them.
NoOversleep ==
    /\ \A t \in k.delayed : k.wake[t] > k.xTickCount /\ k.xNextTaskUnblockTime <= k.wake[t]
    /\ \A t \in k.overflow : k.wake[t] <= k.xTickCount

\* Tasks inside a call on queue q that are not asleep and not yet served.
Awake(q, side) ==
    {t \in Tasks : /\ call[t].op \notin {"none", "delay"} /\ ret[t] = Pending
                   /\ Target(t) = q /\ Side(t) = side
                   /\ t \notin Range(k.waitSend[q]) \cup Range(k.waitRecv[q])}

\* No wakeup is lost: while tasks sleep on a queue that is not locked, there
\* are as many tasks awake in a call as the queue has items (or free slots) for
\* them, whichever way posts, interrupts and timeouts interleave with the
\* window between the test of the queue and the sleep.
NoLostWakeup ==
    \A q \in Queues : cTxLock[q] = queueUNLOCKED =>
        /\ k.waitRecv[q] # << >> => uxMessagesWaiting[q] <= Cardinality(Awake(q, "recv"))
        /\ k.waitSend[q] # << >> =>
               uxLength(q) - uxMessagesWaiting[q] <= Cardinality(Awake(q, "send"))

\* At most one task believes that it holds a mutex, and the kernel agrees.
MutualExclusion ==
    \A t \in Tasks : \A m \in owns[t] : xMutexHolder[m] = t \/ call[t] = [op |-> "unlock", mutex |-> m]

\* Priority inheritance: the holder of a mutex runs at least at the priority of
\* every task that waits for it, also after it gave back another mutex, and a
\* task without a mutex runs at its own.
NoPriorityInversion ==
    /\ \A m \in Mutexes : \A t \in Range(k.waitRecv[m]) :
           xMutexHolder[m] # NULL => k.uxPriority[xMutexHolder[m]] >= Base[t]
    /\ \A t \in Tasks : k.uxMutexesHeld[t] = 0 => k.uxPriority[t] = Base[t]

\* The mailbox of the kernel as the mailbox that sys_arch.h promises: a FIFO
\* whose calls take effect at one moment and fail only when it is full (empty).
MboxCall(c) == IF c.op = "fetchT" THEN [op |-> "fetch"]
               ELSE IF c.op \in {"lock", "unlock", "delay"} THEN NoCall ELSE c

MB == INSTANCE Mailbox WITH
    Callers <- Tasks, SIZE <- MBOX_SIZE,
    box  <- [i \in 1 .. uxMessagesWaiting[mbox] |-> ring[(pcReadFrom + i) % MBOX_SIZE]],
    call <- [t \in Tasks |-> MboxCall(call[t])],
    ret  <- [t \in Tasks |-> IF MboxCall(call[t]) = NoCall THEN Pending ELSE ret[t]]

\* Refinement: every behaviour of queue.c under sys_arch.c is one of Mailbox.
ImplementsMailbox == MB!Spec

\* The tasks that no other task outranks or equals.
TopTasks == {t \in Tasks : \A u \in Tasks \ {t} : Base[u] < Base[t]}

\* The task of the highest priority gets every mutex it asks for, however busy
\* the tasks between it and the holder are: the holder inherits its priority.
TopTaskGetsMutex ==
    \A t \in TopTasks, m \in Mutexes :
        call[t] = [op |-> "lock", mutex |-> m] ~> m \in owns[t]
=============================================================================
