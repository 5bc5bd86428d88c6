---------------------------- MODULE NetworkProofs ----------------------------
(***************************************************************************)
(* The safety properties of Network, for every number of tries and every   *)
(* server.                                                                 *)
(*                                                                         *)
(* Each property needs to know how far dhcpTask has got when the tcpip     *)
(* thread interferes.  A handler never switches the client off, and does   *)
(* nothing at all while it is off; so what dhcpTask knows about "off" when *)
(* it goes to sleep still holds when it continues.  Progress says what it  *)
(* knows at every line.                                                    *)
(***************************************************************************)
EXTENDS Network, TLAPS

\* What dhcpTask relies on from one of its steps to the next.
Progress ==
    /\ pc = "wait" => dhcp.state = "OFF" /\ refcount = 0
    /\ pc = "discover" => dhcp.state = "OFF" /\ dhcp.pcb_allocated
    /\ pc \in {"await", "unset", "off"} => dhcp.state # "OFF"
    /\ pc = "free" => dhcp.state = "OFF"
    /\ pc \in {"check", "supplied", "missing", "stop"} /\ dhcp.state = "OFF"
          => refcount = 0

\* The static address is only there while the client is off.
StaticOff ==
    addr = "static" =>
        dhcp.state = "OFF" /\ pc \in {"check", "supplied", "missing", "stop", "static"}

IInv == TypeOK /\ PcbWhileRunning /\ FallbackComplete /\ Progress /\ StaticOff

Client == [state : States, tries : 0 .. TRIES_CAP, timer : BOOLEAN,
           t0 : BOOLEAN, t1 : BOOLEAN, t2 : BOOLEAN, pcb_allocated : BOOLEAN]

\* The counter of requests starts at 0 and stays below its cap.
LEMMA TriesType ==
    0 \in 0 .. TRIES_CAP /\ \A n \in 0 .. TRIES_CAP : Bump(n) \in 0 .. TRIES_CAP
  BY NetworkAssumption DEF Bump

\* dhcp_set_state() changes the state, and neither the PCB nor the type.
LEMMA SetStateType ==
    ASSUME NEW d \in Client, NEW s \in States
    PROVE  /\ dhcp_set_state(d, s) \in Client
           /\ dhcp_set_state(d, s).state = s
           /\ dhcp_set_state(d, s).pcb_allocated = d.pcb_allocated
  <1> DEFINE e == [d EXCEPT !.state = s, !.tries = 0, !.timer = FALSE]
  <1>1. e \in Client
    BY TriesType, Zenon DEF Client
  <1>2. e.state = s /\ e.pcb_allocated = d.pcb_allocated
    BY DEF Client
  <1> QED
    BY <1>1, <1>2, Zenon DEF dhcp_set_state

\* Waiting for a reply counts a try and starts the timer, nothing else.
LEMMA AwaitReplyType ==
    ASSUME NEW d \in Client
    PROVE  /\ AwaitReply(d) \in Client
           /\ AwaitReply(d).state = d.state
           /\ AwaitReply(d).pcb_allocated = d.pcb_allocated
  <1> DEFINE n == Bump(d.tries)
  <1>1. n \in 0 .. TRIES_CAP
    BY TriesType DEF Client
  <1> HIDE DEF n
  <1>2. [d EXCEPT !.tries = n, !.timer = TRUE] \in Client
    BY <1>1 DEF Client
  <1>3. AwaitReply(d).state = d.state /\ AwaitReply(d).pcb_allocated = d.pcb_allocated
    BY DEF AwaitReply, Client
  <1> QED
    BY <1>2, <1>3 DEF AwaitReply, n

\* Every request leaves a running client with the PCB it had.
LEMMA RequestType ==
    ASSUME NEW d \in Client, NEW e,
           e \in {dhcp_discover(d), dhcp_select(d), dhcp_check(d), dhcp_decline(d),
                  dhcp_renew(d), dhcp_rebind(d)}
    PROVE  e \in Client /\ e.state # "OFF" /\ e.pcb_allocated = d.pcb_allocated
  <1>1. \A s \in States \ {"OFF"} :
            /\ AwaitReply(dhcp_set_state(d, s)) \in Client
            /\ AwaitReply(dhcp_set_state(d, s)).state = s
            /\ AwaitReply(dhcp_set_state(d, s)).pcb_allocated = d.pcb_allocated
    BY SetStateType, AwaitReplyType
  <1> DEFINE Reqs == {"SELECTING", "REQUESTING", "CHECKING", "BACKING_OFF",
                      "RENEWING", "REBINDING"}
  <1>2. PICK s \in Reqs : e = AwaitReply(dhcp_set_state(d, s))
    BY Zenon DEF dhcp_discover, dhcp_select, dhcp_check, dhcp_decline,
                 dhcp_renew, dhcp_rebind
  <1>3. s \in States \ {"OFF"}
    BY DEF States
  <1> QED
    BY <1>1, <1>2, <1>3

\* A bound client runs and keeps its PCB.
LEMMA BindType ==
    ASSUME NEW d \in Client, NEW infinite \in BOOLEAN
    PROVE  /\ dhcp_bind(d, infinite) \in Client
           /\ dhcp_bind(d, infinite).state # "OFF"
           /\ dhcp_bind(d, infinite).pcb_allocated = d.pcb_allocated
  <1> DEFINE e == dhcp_set_state(d, "BOUND")
  <1>1. e \in Client /\ e.state = "BOUND" /\ e.pcb_allocated = d.pcb_allocated
    BY SetStateType DEF States
  <1> HIDE DEF e
  <1>2. dhcp_bind(d, infinite)
            = [e EXCEPT !.t0 = e.t0 \/ ~infinite, !.t1 = TRUE, !.t2 = TRUE]
    BY DEF dhcp_bind, e
  <1> QED
    BY <1>1, <1>2 DEF Client

\* A fresh client with its PCB.
LEMMA ZeroedType ==
    /\ Zeroed \in Client /\ Zeroed.state = "OFF" /\ ~Zeroed.pcb_allocated
    /\ [Zeroed EXCEPT !.pcb_allocated = TRUE] \in Client
    /\ [Zeroed EXCEPT !.pcb_allocated = TRUE].state = "OFF"
    /\ [Zeroed EXCEPT !.pcb_allocated = TRUE].pcb_allocated
  <1>1. Zeroed \in Client
    BY TriesType, Zenon DEF Zeroed, Client, States
  <1>2. [Zeroed EXCEPT !.pcb_allocated = TRUE] \in Client
    BY <1>1 DEF Client
  <1>3. Zeroed.state = "OFF" /\ ~Zeroed.pcb_allocated
    BY DEF Zeroed
  <1> QED
    BY <1>1, <1>2, <1>3 DEF Client

\* dhcp_release_and_stop() and dhcp_start() leave one user of the PCB.
LEMMA RestartEffect ==
    ASSUME TypeOK, PcbWhileRunning, Restart
    PROVE  /\ dhcp' \in Client /\ dhcp'.state # "OFF" /\ dhcp'.pcb_allocated
           /\ refcount' = 1 /\ addr' = "none"
  <1> DEFINE z == [Zeroed EXCEPT !.pcb_allocated = TRUE]
  <1>1. dhcp' = dhcp_discover(z) /\ z \in Client /\ z.pcb_allocated
    BY ZeroedType, Zenon DEF Restart
  <1>2. dhcp' \in Client /\ dhcp'.state # "OFF" /\ dhcp'.pcb_allocated
    BY <1>1, RequestType
  <1>3. refcount' = 1 /\ addr' = "none"
    BY DEF Restart, TypeOK, PcbWhileRunning
  <1> QED
    BY <1>2, <1>3

\* What a handler of the tcpip thread may do to the client: it acts only on
\* a running client and leaves it running, with its PCB.
HandlerEffect ==
    /\ dhcp.state # "OFF"
    /\ dhcp' \in Client /\ dhcp'.state # "OFF" /\ dhcp'.pcb_allocated
    /\ refcount' = 1
    /\ addr' \in {"none", "lease", addr}
    /\ UNCHANGED <<link, taskVars>>

\* Every handler of the tcpip thread is one of those.
LEMMA TcpipEffect ==
    ASSUME IInv, Tcpip
    PROVE  HandlerEffect
  <1> USE DEF HandlerEffect
  <1>0. dhcp \in Client /\ (dhcp.state # "OFF" => dhcp.pcb_allocated /\ refcount = 1)
    BY DEF IInv, TypeOK, PcbWhileRunning, Client
  <1>1. CASE DhcpOffer
    BY <1>0, <1>1, RequestType DEF DhcpOffer
  <1>2. CASE DhcpAck
    <2>1. CASE dhcp.state = "REQUESTING" /\ dhcp' = dhcp_check(dhcp)
                 /\ UNCHANGED addr
      BY <1>0, <1>2, <2>1, RequestType DEF DhcpAck
    <2>2. ASSUME NEW infinite \in BOOLEAN, Bind(infinite),
                 dhcp.state \in {"REBINDING", "RENEWING"}
          PROVE  HandlerEffect
      BY <1>0, <1>2, <2>2, BindType DEF DhcpAck, Bind
    <2> QED
      BY <1>2, <2>1, <2>2 DEF DhcpAck
  <1>3. CASE DhcpNak
    <2>1. dhcp_set_state(dhcp, "BACKING_OFF") \in Client
          /\ dhcp_set_state(dhcp, "BACKING_OFF").pcb_allocated = dhcp.pcb_allocated
      BY <1>0, SetStateType DEF States
    <2> QED
      BY <1>0, <1>3, <2>1, RequestType DEF DhcpNak
  <1>4. CASE ArpReply
    BY <1>0, <1>4, RequestType DEF ArpReply
  <1>5. CASE DhcpTimeout
    <2> DEFINE d == [dhcp EXCEPT !.timer = FALSE]
    <2>1. d \in Client /\ d.state = dhcp.state /\ d.pcb_allocated = dhcp.pcb_allocated
      BY <1>0 DEF Client
    <2>2. UNCHANGED <<link, taskVars>>
      BY <1>5 DEF DhcpTimeout
    <2> HIDE DEF d
    <2>3. CASE /\ d.state # "OFF"
               /\ dhcp' \in {dhcp_discover(d), dhcp_select(d), dhcp_check(d)}
               /\ UNCHANGED <<addr, refcount>>
      BY <1>0, <2>1, <2>2, <2>3, RequestType
    <2>4. CASE d.state = "REQUESTING" /\ Restart
      BY <2>1, <2>2, <2>4, RestartEffect DEF IInv
    <2>5. ASSUME NEW infinite \in BOOLEAN, dhcp.state = "CHECKING", Bind(infinite),
                 UNCHANGED refcount
          PROVE  HandlerEffect
      BY <1>0, <2>2, <2>5, BindType DEF Bind
    <2>6. CASE dhcp_supplied_address(d) /\ dhcp' = d /\ UNCHANGED <<addr, refcount>>
      BY <1>0, <2>1, <2>2, <2>6 DEF dhcp_supplied_address
    <2> QED
      BY <1>5, <2>1, <2>3, <2>4, <2>5, <2>6 DEF DhcpTimeout, d
  <1>6. CASE LeaseExpired
    BY <1>6, RestartEffect DEF LeaseExpired, IInv
  <1>7. ASSUME NEW again \in BOOLEAN, RebindTime(again)
        PROVE  HandlerEffect
    <2> DEFINE e == dhcp_rebind(dhcp)
    <2>1. e \in Client /\ e.state # "OFF" /\ e.pcb_allocated = dhcp.pcb_allocated
      BY <1>0, RequestType
    <2> HIDE DEF e
    <2>2. dhcp' \in {[e EXCEPT !.t2 = again], [dhcp EXCEPT !.t2 = FALSE]}
      BY <1>7 DEF RebindTime, e
    <2>3. dhcp.state # "OFF" /\ UNCHANGED <<link, taskVars, addr, refcount>>
      BY <1>7 DEF RebindTime
    <2> QED
      BY <1>0, <2>1, <2>2, <2>3 DEF Client
  <1>8. ASSUME NEW again \in BOOLEAN, RenewTime(again)
        PROVE  HandlerEffect
    <2> DEFINE e == dhcp_renew(dhcp)
    <2>1. e \in Client /\ e.state # "OFF" /\ e.pcb_allocated = dhcp.pcb_allocated
      BY <1>0, RequestType
    <2> HIDE DEF e
    <2>2. dhcp' \in {[e EXCEPT !.t1 = again], [dhcp EXCEPT !.t1 = FALSE]}
      BY <1>8 DEF RenewTime, e
    <2>3. dhcp.state # "OFF" /\ UNCHANGED <<link, taskVars, addr, refcount>>
      BY <1>8 DEF RenewTime
    <2> QED
      BY <1>0, <2>1, <2>2, <2>3 DEF Client
  <1> QED
    BY <1>1, <1>2, <1>3, <1>4, <1>5, <1>6, <1>7, <1>8 DEF Tcpip

\* No handler interferes with what dhcpTask knows.
LEMMA TcpipPreserves ==
    ASSUME IInv, Tcpip
    PROVE  IInv'
  <1>1. HandlerEffect
    BY TcpipEffect
  <1>2. TypeOK'
    BY <1>1 DEF HandlerEffect, IInv, TypeOK, taskVars, Client
  <1>3. PcbWhileRunning' /\ StaticOff'
    BY <1>1 DEF HandlerEffect, PcbWhileRunning, StaticOff, IInv, taskVars, Client
  <1>4. FallbackComplete' /\ Progress'
    BY <1>1 DEF HandlerEffect, FallbackComplete, Progress, IInv, taskVars,
                PcbWhileRunning, TypeOK
  <1> QED
    BY <1>2, <1>3, <1>4 DEF IInv

\* Every step of dhcpTask re-establishes what the next one relies on.
LEMMA TaskPreserves ==
    ASSUME IInv, DhcpTask
    PROVE  IInv'
  <1> USE NetworkAssumption DEF IInv, TypeOK, PcbWhileRunning, FallbackComplete,
                                Progress, StaticOff
  <1>0. dhcp \in Client
    BY DEF Client
  <1>1. CASE TaskStart
    <2>1. dhcp' \in Client /\ dhcp'.state = "OFF" /\ dhcp'.pcb_allocated
      BY <1>1, ZeroedType DEF TaskStart
    <2> QED
      BY <1>1, <2>1 DEF TaskStart, Client
  <1>2. CASE TaskDiscover
    <2>1. dhcp' \in Client /\ dhcp'.state = "SELECTING"
          /\ dhcp'.pcb_allocated = dhcp.pcb_allocated
      BY <1>0, <1>2, SetStateType DEF TaskDiscover, States
    <2> QED
      BY <1>2, <2>1 DEF TaskDiscover, Client
  <1>3. CASE TaskAwait
    <2>1. dhcp' \in Client /\ dhcp'.state = dhcp.state
          /\ dhcp'.pcb_allocated = dhcp.pcb_allocated
      BY <1>0, <1>3, AwaitReplyType DEF TaskAwait
    <2> QED
      BY <1>3, <2>1 DEF TaskAwait, Client
  <1>4. CASE TaskCheck
    BY <1>4 DEF TaskCheck, dhcp_supplied_address
  <1>5. CASE TaskSupplied
    BY <1>5 DEF TaskSupplied
  <1>6. CASE TaskMissing
    <2>1. tries' \in 0 .. MAX_TRIES /\ pc' \in {"stop", "check"} /\ s_dhcp_up' = FALSE
      BY <1>6 DEF TaskMissing
    <2>2. pc = "missing" /\ UNCHANGED <<link, addr, dhcp, refcount>>
      BY <1>6 DEF TaskMissing
    <2> QED
      BY <2>1, <2>2, ZenonT(60)
  <1>7. CASE TaskStop
    BY <1>7 DEF TaskStop
  <1>8. CASE TaskUnset
    BY <1>8 DEF TaskUnset
  <1>9. CASE TaskOff
    <2>1. dhcp' \in Client /\ dhcp'.state = "OFF"
          /\ dhcp'.pcb_allocated = dhcp.pcb_allocated
      BY <1>0, <1>9, SetStateType DEF TaskOff, States
    <2> QED
      BY <1>9, <2>1 DEF TaskOff, Client
  <1>10. CASE TaskFree
    <2>1. dhcp' \in Client /\ dhcp'.state = "OFF" /\ ~dhcp'.pcb_allocated
      BY <1>0, <1>10 DEF TaskFree, Client
    <2>2. refcount' = 0
      BY <1>10 DEF TaskFree
    <2> QED
      BY <1>10, <2>1, <2>2 DEF TaskFree, Client
  <1>11. CASE TaskStatic
    BY <1>11 DEF TaskStatic
  <1> QED
    BY <1>1, <1>2, <1>3, <1>4, <1>5, <1>6, <1>7, <1>8, <1>9, <1>10, <1>11 DEF DhcpTask

\* The inductive invariant holds initially and is kept by every step of
\* dhcpTask, of the DHCP handlers and of the cable.
THEOREM NetworkInvariance == Spec => []IInv
  <1>1. Init => IInv
    <2> SUFFICES ASSUME Init
                 PROVE  IInv
      OBVIOUS
    <2>1. TypeOK
      <3>1. dhcp \in Client
        BY ZeroedType, Zenon DEF Init
      <3>2. /\ tries \in 0 .. MAX_TRIES /\ refcount \in 0 .. 1
        BY NetworkAssumption DEF Init
      <3> QED
        BY <3>1, <3>2, Zenon DEF Init, TypeOK, Client
    <2>2. PcbWhileRunning /\ FallbackComplete /\ Progress /\ StaticOff
      BY ZeroedType DEF Init, PcbWhileRunning, FallbackComplete, Progress, StaticOff
    <2> QED
      BY <2>1, <2>2 DEF IInv
  <1>2. IInv /\ [Next]_vars => IInv'
    <2> SUFFICES ASSUME IInv, [Next]_vars
                 PROVE  IInv'
      OBVIOUS
    <2>1. CASE Tcpip
      BY <2>1, TcpipPreserves
    <2>2. CASE DhcpTask
      BY <2>2, TaskPreserves
    <2>3. CASE LinkChange
      BY <2>3 DEF LinkChange, taskVars, IInv, TypeOK, PcbWhileRunning,
                  FallbackComplete, Progress, StaticOff
    <2>4. CASE UNCHANGED vars
      BY <2>4 DEF vars, taskVars, IInv, TypeOK, PcbWhileRunning,
                  FallbackComplete, Progress, StaticOff
    <2> QED
      BY <2>1, <2>2, <2>3, <2>4 DEF Next
  <1> QED
    BY <1>1, <1>2, PTL DEF Spec

\* Every variable keeps its type, whatever the handlers do between two steps
\* of dhcpTask: in particular dhcp_pcb_refcount never leaves 0 .. 1, which is
\* what the assertions of dhcp.c:229 and dhcp.c:255 ask for.
THEOREM TypeCorrect == Spec => []TypeOK
  BY NetworkInvariance, PTL DEF IInv

\* A running DHCP client has its PCB and the PCB has exactly one user, with
\* dhcp_stop() and dhcp_start() called outside the tcpip thread.
THEOREM PcbAlways == Spec => []PcbWhileRunning
  BY NetworkInvariance, PTL DEF IInv

\* The fallback of Network.cpp:65-71 finds the DHCP client switched off and
\* its PCB released, whatever handlers ran during dhcp_stop().
THEOREM FallbackAlways == Spec => []FallbackComplete
  BY NetworkInvariance, PTL DEF IInv

\* Nothing replaces the static address of Network.cpp:66-70.
THEOREM StaticForever == Spec => StaticStays
  <1>1. IInv /\ [Next]_vars => [addr = "static" => addr' = "static"]_vars
    <2> SUFFICES ASSUME IInv, [Next]_vars, addr = "static"
                 PROVE  addr' = "static"
      OBVIOUS
    <2>1. dhcp.state = "OFF" /\ pc \notin {"unset", "wait"}
      BY DEF IInv, StaticOff
    <2>2. ~Tcpip
      BY <2>1, TcpipEffect DEF HandlerEffect
    <2>3. CASE DhcpTask
      BY <2>1, <2>3 DEF DhcpTask, TaskStart, TaskDiscover, TaskAwait, TaskCheck,
            TaskSupplied, TaskMissing, TaskStop, TaskUnset, TaskOff, TaskFree, TaskStatic
    <2>4. CASE LinkChange \/ UNCHANGED vars
      BY <2>4 DEF LinkChange, vars
    <2> QED
      BY <2>2, <2>3, <2>4 DEF Next
  <1> QED
    BY <1>1, NetworkInvariance, PTL DEF Spec, StaticStays
=============================================================================
