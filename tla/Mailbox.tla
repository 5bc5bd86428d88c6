------------------------------- MODULE Mailbox -------------------------------
(***************************************************************************)
(* What the mailboxes of sys_arch.h promise: a bounded FIFO whose calls    *)
(* take effect at one moment between their begin and their return.  A call *)
(* fails only if, at that moment, the mailbox is full (posting) or empty   *)
(* (fetching), and sys_mbox_post() never fails.                            *)
(***************************************************************************)
EXTENDS Integers, Sequences

CONSTANTS
    Callers,    \* tasks (and the interrupt) that use the mailbox
    Msgs,       \* messages
    SIZE        \* sys_mbox_new(&mbox, SIZE)

VARIABLES
    box,        \* queued messages, oldest first
    call,       \* call[c]: the call c is making, or NoCall
    ret         \* ret[c]: what that call returns, Pending until it took effect

vars == <<box, call, ret>>

NoCall  == [op |-> "none"]
Calls   == [op : {"post", "trypost"}, msg : Msgs] \cup [op : {"fetch", "tryfetch"}]
Pending == [st |-> "pending"]
Ok      == [st |-> "ok"]
Failed  == [st |-> "failed"]
Got(m)  == [st |-> "got", msg |-> m]

Init ==
    /\ box = << >>
    /\ call = [c \in Callers |-> NoCall]
    /\ ret = [c \in Callers |-> Pending]

Begin(c) ==
    /\ call[c] = NoCall
    /\ \E x \in Calls : call' = [call EXCEPT ![c] = x]
    /\ UNCHANGED <<box, ret>>

Waiting(c, ops) == call[c].op \in ops /\ ret[c] = Pending

Post(c) ==
    /\ Waiting(c, {"post", "trypost"}) /\ Len(box) < SIZE
    /\ box' = Append(box, call[c].msg)
    /\ ret' = [ret EXCEPT ![c] = Ok]
    /\ UNCHANGED call

Fetch(c) ==
    /\ Waiting(c, {"fetch", "tryfetch"}) /\ box # << >>
    /\ box' = Tail(box)
    /\ ret' = [ret EXCEPT ![c] = Got(Head(box))]
    /\ UNCHANGED call

Fail(c) ==
    /\ \/ Waiting(c, {"trypost"}) /\ Len(box) = SIZE
       \/ Waiting(c, {"fetch", "tryfetch"}) /\ box = << >>
    /\ ret' = [ret EXCEPT ![c] = Failed]
    /\ UNCHANGED <<box, call>>

Return(c) ==
    /\ ret[c] # Pending
    /\ call' = [call EXCEPT ![c] = NoCall]
    /\ ret' = [ret EXCEPT ![c] = Pending]
    /\ UNCHANGED box

\* An interrupt posts in one step, between two steps of any task.
Interrupt ==
    /\ Len(box) < SIZE
    /\ \E m \in Msgs : box' = Append(box, m)
    /\ UNCHANGED <<call, ret>>

Next ==
    \/ \E c \in Callers : Begin(c) \/ Post(c) \/ Fetch(c) \/ Fail(c) \/ Return(c)
    \/ Interrupt

Spec == Init /\ [][Next]_vars
=============================================================================
