------------------------------ MODULE ArpTasks ------------------------------
(***************************************************************************)
(* The users of the ARP table.  The tcpip thread (priority 5) runs each    *)
(* operation of Arp to its end.  Two tasks of priority 4 send packets in   *)
(* their own context, access by access:                                    *)
(*   tcp_srv   a netconn call; it holds the core lock meanwhile, so the    *)
(*             tcpip thread waits                                          *)
(*   dhcpTask  dhcp_stop() and its RELEASE, without the lock               *)
(*             (Network.cpp:65): the tcpip thread preempts it anywhere, and *)
(*             the scheduler shares the processor between it and tcp_srv.  *)
(*                                                                         *)
(* etharp_output() asserts the lock (etharp.c:797).  raced remembers that  *)
(* somebody changed what a task had read and was about to use; from then   *)
(* on nothing is promised (but TypeOK).                                    *)
(***************************************************************************)
EXTENDS Arp

CONSTANTS
    Servers,   \* DHCP servers
    Clients    \* clients of the TCP server

ASSUME PeersAssumption == Servers \cup Clients \subseteq Hosts \cup {Far}

VARIABLES
    call,    \* task -> its call of etharp_output()
    raced    \* history: a call was disturbed

vars == <<tableVars, call, raced>>

Tasks == {"dhcpTask", "tcp_srv"}
Peers(t) == IF t = "dhcpTask" THEN Servers ELSE Clients

Using == {"rerequest", "send", "recycle", "mark", "queue", "put"}
Steps == {"cached", "search", "scan"} \cup Using

\* A call: the step that comes next, the packet and its destination, the
\* entry it works on (or looks at next), the packet seen in that entry.
NoCall == [pc |-> "idle", p |-> None, ip |-> None, i |-> 0, q |-> None]

InHand == {call[t].p : t \in Tasks}
CoreLocked == call["tcp_srv"].pc # "idle"

\* dst_addr: a pointer to the destination, or to the interface's gateway.
dst_addr(t) == NextHop(call[t].ip)

\* A step of another thread changes what t's call relies on: the gateway, the
\* table it scans, its entry, or the host it makes an entry for gets one.
Disturbed(t) ==
    LET c == call[t]
    IN \/ c.pc # "idle" /\ c.ip = Far /\ gw' # gw
       \/ c.pc = "scan" /\ arp_table' # arp_table
       \/ c.pc \in Using /\ arp_table'[c.i] # arp_table[c.i]
       \/ /\ c.pc \in {"recycle", "mark"}
          /\ \E j \in Index : /\ arp_table'[j].ip = dst_addr(t)
                              /\ arp_table[j].ip # dst_addr(t)

\* The effect of a step of the thread a on the calls of the others.
RacedBy(a) == raced' = (raced \/ \E t \in Tasks \ {a} : Disturbed(t))

Goto(t, c) == call' = [call EXCEPT ![t] = c]

-----------------------------------------------------------------------------
(* etharp_output() by a task                                               *)

\* The entry, up to the choice of the next hop.  dhcpTask sends a new packet.
begin(t, p, ip) ==
    /\ call[t].pc = "idle" /\ p \notin InHand
    /\ Sendable(p) /\ (t = "dhcpTask" => ref[p] = 0)
    /\ owned' = [owned EXCEPT ![p] = TRUE]
    /\ ref' = [ref EXCEPT ![p] = 1]
    /\ hop' = [hop EXCEPT ![p] = NextHop(ip)]
    /\ Goto(t, IF NextHop(ip) = None THEN NoCall
               ELSE [pc |-> "cached", p |-> p, ip |-> ip, i |-> 0, q |-> None])
    /\ sent' = {}
    /\ UNCHANGED <<arp_table, etharp_cached_entry, gw, heard, use>>

\* The entry i is the one to use: etharp_output_to_arp_index() tests whether
\* a rerequest is due.
found(t, i) ==
    LET due == BroadcastDue(arp_table[i]) \/ UnicastDue(arp_table[i])
    IN /\ Stable(i) /\ arp_table[i].ip = dst_addr(t)
       /\ Goto(t, [call[t] EXCEPT !.pc = IF due THEN "rerequest" ELSE "send", !.i = i])
       /\ use' = IF due THEN use ELSE [use EXCEPT ![i] = Used(@, FALSE, FALSE)]
       /\ etharp_cached_entry' = i

\* It is not, and the search goes on with the entry n, or ends.
not_found(t, i, n) ==
    /\ ~(Stable(i) /\ arp_table[i].ip = dst_addr(t))
    /\ Goto(t, IF n \in Index THEN [call[t] EXCEPT !.pc = "search", !.i = n]
               ELSE [call[t] EXCEPT !.pc = "scan", !.i = 0])
    /\ UNCHANGED <<etharp_cached_entry, use>>

\* The cached entry, then one after the other.
cached(t) ==
    /\ call[t].pc = "cached"
    /\ found(t, etharp_cached_entry) \/ not_found(t, etharp_cached_entry, 0)
    /\ sent' = {}
    /\ UNCHANGED <<arp_table, gw, ref, owned, hop, heard>>

search(t) ==
    /\ call[t].pc = "search"
    /\ found(t, call[t].i) \/ not_found(t, call[t].i, call[t].i + 1)
    /\ sent' = {}
    /\ UNCHANGED <<arp_table, gw, ref, owned, hop, heard>>

\* The request went out, or there was no memory for it, and the state of the
\* entry follows.
rerequest(t, ok) ==
    LET i == call[t].i
        e == arp_table[i]
    IN /\ call[t].pc = "rerequest"
       /\ Goto(t, [call[t] EXCEPT !.pc = "send"])
       /\ arp_table' = IF ok THEN [arp_table EXCEPT ![i].state = REREQUESTING_1] ELSE arp_table
       /\ use' = [use EXCEPT ![i] = Used(@, UnicastDue(e), BroadcastDue(e))]
       /\ sent' = {}
       /\ UNCHANGED <<etharp_cached_entry, gw, ref, owned, hop, heard>>

\* ethernet_output() to the hardware address the entry has now.
send(t) ==
    /\ call[t].pc = "send"
    /\ sent' = {<<hop[call[t].p], arp_table[call[t].i].mac>>}
    /\ hop' = [hop EXCEPT ![call[t].p] = None]
    /\ Goto(t, NoCall)
    /\ UNCHANGED <<arp_table, etharp_cached_entry, gw, ref, owned, heard, use>>

-----------------------------------------------------------------------------
(* etharp_query() by a task                                                *)

\* etharp_find_entry() looks through the table.  If that changed meanwhile
\* it may end up at any entry; if the gateway went the query is refused.
scan(t) ==
    /\ call[t].pc = "scan"
    /\ \E i \in IF raced THEN Index ELSE {find_entry(dst_addr(t))} :
          Goto(t, IF dst_addr(t) = None THEN NoCall
                  ELSE [call[t] EXCEPT !.pc = IF \/ i \in Matching(dst_addr(t))
                                                 \/ arp_table[i].state = EMPTY
                                              THEN "mark" ELSE "recycle",
                                       !.i = i])
    /\ sent' = {}
    /\ UNCHANGED <<arp_table, etharp_cached_entry, gw, ref, owned, hop, heard, use>>

\* etharp_free_entry().
recycle(t) ==
    LET i == call[t].i
    IN /\ call[t].pc = "recycle"
       /\ Goto(t, [call[t] EXCEPT !.pc = "mark"])
       /\ arp_table' = [arp_table EXCEPT ![i] = NoEntry]
       /\ ref' = pbuf_free(ref, arp_table[i].q)
       /\ Waiting(hop)
       /\ use' = [use EXCEPT ![i] = Unused]
       /\ sent' = {}
       /\ Heard(<<>>)
       /\ UNCHANGED <<etharp_cached_entry, gw, owned>>

\* A fresh entry becomes pending, and the request goes out (or not).
mark(t) ==
    LET i == call[t].i
        fresh == arp_table[i].state = EMPTY
    IN /\ call[t].pc = "mark"
       /\ Goto(t, [call[t] EXCEPT !.pc = "queue"])
       /\ arp_table' = IF fresh
                       THEN [arp_table EXCEPT ![i] =
                               [state |-> PENDING, ip |-> dst_addr(t), mac |-> None,
                                ctime |-> 0, q |-> None]]
                       ELSE arp_table
       /\ use' = IF fresh THEN [use EXCEPT ![i] = Unused] ELSE use
       /\ sent' = {}
       /\ Heard(<<>>)
       /\ UNCHANGED <<etharp_cached_entry, gw, ref, owned, hop>>

\* The entry became stable or is pending; that it is neither is a race.
queue(t) ==
    LET i == call[t].i
    IN /\ call[t].pc = "queue"
       /\ Goto(t, IF Stable(i) THEN [call[t] EXCEPT !.pc = "send"]
                  ELSE IF Pending(i) THEN [call[t] EXCEPT !.pc = "put", !.q = arp_table[i].q]
                  ELSE NoCall)
       /\ etharp_cached_entry' = IF Stable(i) THEN i ELSE etharp_cached_entry
       /\ sent' = {}
       /\ UNCHANGED <<arp_table, gw, ref, owned, hop, heard, use>>

\* The packet seen in the entry is freed, and the new one takes its place.
put(t) ==
    LET c == call[t]
    IN /\ c.pc = "put"
       /\ Goto(t, NoCall)
       /\ arp_table' = [arp_table EXCEPT ![c.i].q = c.p]
       /\ ref' = pbuf_free([ref EXCEPT ![c.p] = @ + 1], c.q)
       /\ Waiting(hop)
       /\ sent' = {}
       /\ UNCHANGED <<etharp_cached_entry, gw, owned, heard, use>>

-----------------------------------------------------------------------------
Task(t) ==
    /\ \/ \E p \in Packets, ip \in Peers(t) : begin(t, p, ip)
       \/ cached(t)
       \/ search(t)
       \/ \E ok \in BOOLEAN : rerequest(t, ok)
       \/ send(t)
       \/ scan(t)
       \/ recycle(t)
       \/ mark(t)
       \/ queue(t)
       \/ put(t)
    /\ RacedBy(t)

tcpip_thread ==
    /\ ~CoreLocked
    /\ TableNext(Packets \ InHand)
    /\ UNCHANGED call
    /\ RacedBy("tcpip_thread")

\* netif_set_addr() by dhcpTask, without the lock.
netif_set_addr ==
    /\ call["dhcpTask"].pc = "idle"
    /\ \E g \in Gateways \cup {None} : netif_set_gw(g)
    /\ UNCHANGED call
    /\ RacedBy("dhcpTask")

Init ==
    /\ TableInit
    /\ call = [t \in Tasks |-> NoCall]
    /\ raced = FALSE

Next ==
    \/ tcpip_thread
    \/ netif_set_addr
    \/ \E t \in Tasks : Task(t)

Spec == Init /\ [][Next]_vars

-----------------------------------------------------------------------------
(* Properties                                                              *)

Call == [pc : Steps, p : Packets, ip : Hosts \cup {Far}, i : Index, q : Packets \cup {None}]

\* The state is well formed, also after a race; in particular no entry gets
\* as old as ARP_MAXAGE, and no pending one as old as ARP_MAXPENDING.
TypeOK ==
    /\ TableOK
    /\ call \in [Tasks -> Call \cup {NoCall}]
    /\ raced \in BOOLEAN

\* etharp_output(), etharp_query() and etharp_update_arp_entry(): unless a
\* call was disturbed, a packet goes to the hardware address that its next
\* hop told last, whichever way it took (cached entry, search, queue), and
\* however often its entry was recycled meanwhile; an address never has two
\* entries.
RightHost ==
    ~raced =>
        /\ \A s \in sent : s[1] # None /\ s[2] # None /\ s[2] = heard[s[1]]
        /\ \A i, j \in Index :
              (arp_table[i].state # EMPTY /\ arp_table[i].ip = arp_table[j].ip) => i = j

\* etharp_query(), etharp_free_entry(), etharp_update_arp_entry(): unless a
\* call was disturbed, the references to a packet are its sender's and that
\* of the one pending entry it waits on: none is lost when a packet is
\* replaced, when its entry is recycled or expires, none is given back twice.
NoPbufLeak ==
    ~raced =>
        \A p \in Packets :
            ref[p] = (IF owned[p] THEN 1 ELSE 0)
                     + Cardinality({i \in Index : Pending(i) /\ arp_table[i].q = p})

\* etharp_output_to_arp_index() and etharp_tmr(): unless a call was disturbed,
\* the entry of a host that is sent to in every second of its last age does
\* not expire before the host was asked again, once in two seconds, first
\* directly and then by broadcast.  A request counts although there was no
\* memory to send it.
SteadyUse ==
    [][(~raced /\ UNCHANGED call) =>
          \A i \in Index :
              (/\ Stable(i) /\ arp_table'[i].state = EMPTY
               /\ use[i].steady /\ use[i].used)
              => use[i].unicast >= MinUnicast /\ use[i].broadcast >= MinBroadcast]_vars
=============================================================================
