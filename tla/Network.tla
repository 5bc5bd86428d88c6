------------------------------- MODULE Network -------------------------------
(***************************************************************************)
(* How the interface gets its address: dhcpTask of Network.cpp drives      *)
(* lwIP's DHCP client (dhcp.c), whose handlers run in the tcpip thread.    *)
(*                                                                         *)
(* dhcpTask calls dhcp_start() and dhcp_stop() without the core lock and   *)
(* has a lower priority than the tcpip thread: a handler may run between   *)
(* any two statements of dhcpTask, but runs to its end.  So every handler  *)
(* is one action and dhcp_start() and dhcp_stop(), called from dhcpTask,   *)
(* are several.                                                            *)
(*                                                                         *)
(* Messages to the server carry no state of their own: replies may be      *)
(* lost, late or missing, and those that do not answer the current xid are *)
(* ignored by dhcp_recv(), so a reply is possible whenever the client      *)
(* waits for one.  Timer values are abstracted to armed or not.            *)
(***************************************************************************)
EXTENDS Naturals

CONSTANTS
    MAX_TRIES,       \* failed polls dhcpTask tolerates (50)
    REQUEST_TRIES,   \* dhcp_timeout() repeats a REQUEST up to here (5)
    TRIES_CAP,       \* where dhcp->tries saturates (255)
    InfiniteLeases   \* may a server grant a lease that never expires?

ASSUME NetworkAssumption ==
    /\ MAX_TRIES \in Nat /\ REQUEST_TRIES \in Nat /\ TRIES_CAP \in Nat
    /\ REQUEST_TRIES < TRIES_CAP /\ 1 < TRIES_CAP
    /\ InfiniteLeases \in BOOLEAN

VARIABLES
    link,        \* what ETH_IsLinkUp() answers
    pc,          \* where dhcpTask is
    tries,       \* local of dhcpTask
    s_dhcp_up,   \* what Network_IsUp() answers
    addr,        \* address of s_netif: none, from DHCP, or the static one
    dhcp,        \* the client's struct dhcp
    refcount     \* dhcp_pcb_refcount; dhcp_pcb exists when it is not 0

taskVars == <<pc, tries, s_dhcp_up>>
vars == <<link, taskVars, addr, dhcp, refcount>>

-----------------------------------------------------------------------------
(* struct dhcp and the functions of dhcp.c that change it.                 *)

Zeroed == [state |-> "OFF", tries |-> 0, timer |-> FALSE,
           t0 |-> FALSE, t1 |-> FALSE, t2 |-> FALSE, pcb_allocated |-> FALSE]

dhcp_set_state(d, s) ==
    IF s = d.state THEN d
    ELSE [d EXCEPT !.state = s, !.tries = 0, !.timer = FALSE]

Bump(n) == IF n < TRIES_CAP THEN n + 1 ELSE n

\* The end of every request: one more try, and wait for an answer.
AwaitReply(d) == [d EXCEPT !.tries = Bump(@), !.timer = TRUE]

dhcp_discover(d) == AwaitReply(dhcp_set_state(d, "SELECTING"))
dhcp_select(d)   == AwaitReply(dhcp_set_state(d, "REQUESTING"))
dhcp_check(d)    == AwaitReply(dhcp_set_state(d, "CHECKING"))
dhcp_decline(d)  == AwaitReply(dhcp_set_state(d, "BACKING_OFF"))
dhcp_renew(d)    == AwaitReply(dhcp_set_state(d, "RENEWING"))
dhcp_rebind(d)   == AwaitReply(dhcp_set_state(d, "REBINDING"))

\* An infinite lease leaves t0 as it was; t1 and t2, half and 7/8 of the
\* lease when the server names none, are set all the same.
dhcp_bind(d, infinite) ==
    [dhcp_set_state(d, "BOUND") EXCEPT !.t0 = @ \/ ~infinite, !.t1 = TRUE, !.t2 = TRUE]

dhcp_supplied_address(d) == d.state \in {"BOUND", "RENEWING", "REBINDING"}

-----------------------------------------------------------------------------
(* Handlers of the tcpip thread.                                           *)

\* dhcp_recv() looks at a message only if the client has its PCB.
Listening == dhcp.pcb_allocated

DhcpOffer ==
    /\ Listening /\ dhcp.state = "SELECTING"
    /\ dhcp' = dhcp_select(dhcp)
    /\ UNCHANGED <<link, taskVars, addr, refcount>>

Bind(infinite) ==
    /\ infinite => InfiniteLeases
    /\ dhcp' = dhcp_bind(dhcp, infinite)
    /\ addr' = "lease"

\* DHCP_ACK: a new lease is checked with ARP first, a renewed one is bound.
DhcpAck ==
    /\ Listening
    /\ \/ /\ dhcp.state = "REQUESTING"
          /\ dhcp' = dhcp_check(dhcp)
          /\ UNCHANGED addr
       \/ /\ dhcp.state \in {"REBINDING", "RENEWING"}
          /\ \E infinite \in BOOLEAN : Bind(infinite)
    /\ UNCHANGED <<link, taskVars, refcount>>

\* DHCP_NAK: the address is given up and discovery starts again.  The lease
\* timers keep running.
DhcpNak ==
    /\ Listening /\ dhcp.state \in {"REQUESTING", "REBINDING", "RENEWING"}
    /\ dhcp' = dhcp_discover(dhcp_set_state(dhcp, "BACKING_OFF"))
    /\ addr' = "none"
    /\ UNCHANGED <<link, taskVars, refcount>>

\* dhcp_arp_reply(): another host uses the offered address.
ArpReply ==
    /\ dhcp.state = "CHECKING"
    /\ dhcp' = dhcp_decline(dhcp)
    /\ UNCHANGED <<link, taskVars, addr, refcount>>

\* Mutant of Restart: the PCB of the stopped client is not released.
RestartLeak ==
    /\ dhcp' = dhcp_discover([Zeroed EXCEPT !.pcb_allocated = TRUE])
    /\ refcount' = refcount + 1
    /\ addr' = "none"

\* dhcp_release_and_stop() and dhcp_start() in one handler: the PCB is freed
\* and allocated again.
Restart ==
    /\ dhcp' = dhcp_discover([Zeroed EXCEPT !.pcb_allocated = TRUE])
    /\ refcount' = (refcount - (IF dhcp.pcb_allocated THEN 1 ELSE 0)) + 1
    /\ addr' = "none"

\* dhcp_fine_tmr(): no answer in time.
DhcpTimeout ==
    /\ dhcp.timer
    /\ LET d == [dhcp EXCEPT !.timer = FALSE] IN
       \/ /\ d.state \in {"BACKING_OFF", "SELECTING"}
          /\ dhcp' = dhcp_discover(d)
          /\ UNCHANGED <<addr, refcount>>
       \/ /\ d.state = "REQUESTING" /\ d.tries <= REQUEST_TRIES
          /\ dhcp' = dhcp_select(d)
          /\ UNCHANGED <<addr, refcount>>
       \/ /\ d.state = "REQUESTING" /\ d.tries > REQUEST_TRIES
          /\ Restart
       \/ /\ d.state = "CHECKING" /\ d.tries <= 1
          /\ dhcp' = dhcp_check(d)
          /\ UNCHANGED <<addr, refcount>>
       \/ /\ d.state = "CHECKING" /\ d.tries > 1
          /\ \E infinite \in BOOLEAN : Bind(infinite)
          /\ UNCHANGED refcount
       \/ /\ dhcp_supplied_address(d)
          /\ dhcp' = d
          /\ UNCHANGED <<addr, refcount>>
    /\ UNCHANGED <<link, taskVars>>

\* dhcp_coarse_tmr(): the lease has expired.
LeaseExpired ==
    /\ dhcp.state # "OFF" /\ dhcp.t0
    /\ Restart
    /\ UNCHANGED <<link, taskVars>>

\* dhcp_coarse_tmr(), t2 or t1 reached: rebind or renew in the states that
\* allow it, and set the timer again if enough of the lease is left.
RebindTime(again) ==
    /\ dhcp.state # "OFF" /\ dhcp.t2
    /\ dhcp' = IF dhcp.state \in {"REQUESTING", "BOUND", "RENEWING", "REBINDING"}
               THEN [dhcp_rebind(dhcp) EXCEPT !.t2 = again]
               ELSE [dhcp EXCEPT !.t2 = FALSE]
    /\ UNCHANGED <<link, taskVars, addr, refcount>>

RenewTime(again) ==
    /\ dhcp.state # "OFF" /\ dhcp.t1
    /\ dhcp' = IF dhcp.state \in {"REQUESTING", "BOUND", "RENEWING"}
               THEN [dhcp_renew(dhcp) EXCEPT !.t1 = again]
               ELSE [dhcp EXCEPT !.t1 = FALSE]
    /\ UNCHANGED <<link, taskVars, addr, refcount>>

Tcpip ==
    \/ DhcpOffer \/ DhcpAck \/ DhcpNak \/ ArpReply \/ DhcpTimeout \/ LeaseExpired
    \/ \E again \in BOOLEAN : RebindTime(again) \/ RenewTime(again)

-----------------------------------------------------------------------------
(* dhcpTask.                                                               *)

\* The link is seen up: netif_set_link_up(), netif_set_up() and dhcp_start()
\* up to the allocated PCB.  Its ERR_MEM exits are not taken: the interface
\* was down until now, so nothing has used the heap, and DHCP alone uses
\* UDP PCBs.
TaskStart ==
    /\ pc = "wait" /\ link
    /\ pc' = "discover"
    /\ dhcp' = [Zeroed EXCEPT !.pcb_allocated = TRUE]
    /\ refcount' = refcount + 1
    /\ UNCHANGED <<link, tries, s_dhcp_up, addr>>

\* dhcp_discover() sends the DISCOVER (line 1011); an OFFER may be handled
\* before dhcp_discover() goes on to count the try (line 1018).
TaskDiscover ==
    /\ pc = "discover" /\ pc' = "await"
    /\ dhcp' = dhcp_set_state(dhcp, "SELECTING")
    /\ UNCHANGED <<link, tries, s_dhcp_up, addr, refcount>>

TaskAwait ==
    /\ pc = "await" /\ pc' = "check"
    /\ dhcp' = AwaitReply(dhcp)
    /\ UNCHANGED <<link, tries, s_dhcp_up, addr, refcount>>

TaskCheck ==
    /\ pc = "check"
    /\ pc' = IF dhcp_supplied_address(dhcp) THEN "supplied" ELSE "missing"
    /\ UNCHANGED <<link, tries, s_dhcp_up, addr, dhcp, refcount>>

TaskSupplied ==
    /\ pc = "supplied" /\ pc' = "check"
    /\ s_dhcp_up' = TRUE
    /\ UNCHANGED <<link, tries, addr, dhcp, refcount>>

\* Mutant of TaskMissing: tries is not counted.
TaskMissingNoCount ==
    /\ pc = "missing" /\ pc' = "check"
    /\ s_dhcp_up' = FALSE
    /\ UNCHANGED <<link, tries, addr, dhcp, refcount>>

TaskMissing ==
    /\ pc = "missing"
    /\ s_dhcp_up' = FALSE
    /\ \/ /\ tries + 1 > MAX_TRIES
          /\ tries' = 0 /\ pc' = "stop"
       \/ /\ tries + 1 <= MAX_TRIES
          /\ tries' = tries + 1 /\ pc' = "check"
    /\ UNCHANGED <<link, addr, dhcp, refcount>>

\* dhcp_stop(): nothing to do if already off, else clear the offer and the
\* lease timers.
TaskStop ==
    /\ pc = "stop"
    /\ \/ /\ dhcp.state = "OFF"
          /\ pc' = "static"
          /\ UNCHANGED dhcp
       \/ /\ dhcp.state # "OFF"
          /\ pc' = "unset"
          /\ dhcp' = [dhcp EXCEPT !.t0 = FALSE, !.t1 = FALSE, !.t2 = FALSE]
    /\ UNCHANGED <<link, tries, s_dhcp_up, addr, refcount>>

\* A RELEASE is sent if a lease is held; the address is removed.
TaskUnset ==
    /\ pc = "unset" /\ pc' = "off"
    /\ addr' = "none"
    /\ UNCHANGED <<link, tries, s_dhcp_up, dhcp, refcount>>

\* Mutant of TaskOff: the client is not switched off.
TaskOffSkipped ==
    /\ pc = "off" /\ pc' = "free"
    /\ UNCHANGED <<link, tries, s_dhcp_up, addr, dhcp, refcount>>

TaskOff ==
    /\ pc = "off" /\ pc' = "free"
    /\ dhcp' = dhcp_set_state(dhcp, "OFF")
    /\ UNCHANGED <<link, tries, s_dhcp_up, addr, refcount>>

TaskFree ==
    /\ pc = "free" /\ pc' = "static"
    /\ refcount' = IF dhcp.pcb_allocated THEN refcount - 1 ELSE refcount
    /\ dhcp' = [dhcp EXCEPT !.pcb_allocated = FALSE]
    /\ UNCHANGED <<link, tries, s_dhcp_up, addr>>

TaskStatic ==
    /\ pc = "static" /\ pc' = "check"
    /\ addr' = "static"
    /\ s_dhcp_up' = TRUE
    /\ UNCHANGED <<link, tries, dhcp, refcount>>

DhcpTask ==
    \/ TaskStart \/ TaskDiscover \/ TaskAwait \/ TaskCheck \/ TaskSupplied
    \/ TaskMissing \/ TaskStop \/ TaskUnset \/ TaskOff \/ TaskFree \/ TaskStatic

-----------------------------------------------------------------------------
\* The cable (environment).
LinkChange ==
    /\ link' = ~link
    /\ UNCHANGED <<taskVars, addr, dhcp, refcount>>

Init ==
    /\ link \in BOOLEAN
    /\ pc = "wait" /\ tries = 0 /\ s_dhcp_up = FALSE /\ addr = "none"
    /\ dhcp = Zeroed /\ refcount = 0

Next == Tcpip \/ DhcpTask \/ LinkChange

Spec == Init /\ [][Next]_vars

\* dhcpTask's delays end and it gets the CPU between the tasks above it; the
\* coarse timer counts on, so a lease that nothing renews expires.  Nothing
\* is assumed of the server.
FairSpec ==
    Spec /\ WF_vars(DhcpTask) /\ WF_vars(addr = "none" /\ LeaseExpired)

-----------------------------------------------------------------------------
(* Properties.                                                             *)

States == {"OFF", "SELECTING", "REQUESTING", "CHECKING", "BACKING_OFF",
           "BOUND", "RENEWING", "REBINDING"}

\* The values every variable can take; dhcp_pcb_refcount is 0 or 1, so the
\* assertions of dhcp.c:229 and dhcp.c:255 hold.
TypeOK ==
    /\ link \in BOOLEAN /\ s_dhcp_up \in BOOLEAN
    /\ pc \in {"wait", "discover", "await", "check", "supplied", "missing",
               "stop", "unset", "off", "free", "static"}
    /\ tries \in 0 .. MAX_TRIES
    /\ addr \in {"none", "lease", "static"}
    /\ dhcp \in [state : States, tries : 0 .. TRIES_CAP, timer : BOOLEAN,
                 t0 : BOOLEAN, t1 : BOOLEAN, t2 : BOOLEAN, pcb_allocated : BOOLEAN]
    /\ refcount \in 0 .. 1

\* A running client has its PCB and the PCB has exactly one user, although
\* dhcpTask stops the client while handlers of the tcpip thread restart it.
PcbWhileRunning ==
    /\ dhcp.state # "OFF" => dhcp.pcb_allocated
    /\ dhcp.pcb_allocated <=> refcount = 1

\* When dhcpTask configures the static address (Network.cpp:70), the client
\* is off, whatever the tcpip thread did while dhcp_stop() was running.
FallbackComplete ==
    pc = "static" => dhcp.state = "OFF" /\ refcount = 0

\* The static address is final: no late answer, timer or restart of the DHCP
\* client replaces it.
StaticStays == [][addr = "static" => addr' = "static"]_vars

\* Once the link was seen up the interface gets an address, from the server
\* or the static one, and gets one again whenever it loses it.
AddressEventually == (pc # "wait" /\ addr = "none") ~> addr # "none"

\* Network.cpp:72 "DHCP timeout": the lease dhcp_stop() gives up is one DHCP
\* did not supply.
NoLeaseDiscarded == pc = "unset" => ~dhcp_supplied_address(dhcp)
=============================================================================
