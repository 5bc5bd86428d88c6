-------------------------------- MODULE Arp --------------------------------
(***************************************************************************)
(* The address resolution of lwIP (etharp.c) as the board is built:        *)
(* ARP_QUEUEING 0 (an entry holds one packet), no static entries, one      *)
(* interface.  Packets come from TCP, UDP and ICMP, ARP messages and the   *)
(* one-second timer come at any time.  An operation here is one step: that *)
(* is what the tcpip thread does, which no other user of the table can     *)
(* preempt.  The tasks below it are not so lucky, see ArpTasks.            *)
(*                                                                         *)
(* A freed entry keeps its old address and age in the code; nothing reads  *)
(* them again (every reader tests the state first), so here they go.       *)
(***************************************************************************)
EXTENDS Integers, FiniteSets, FiniteSetsExt

CONSTANTS
    ARP_TABLE_SIZE,
    ARP_MAXAGE,
    ARP_MAXPENDING,
    ARP_AGE_REREQUEST_USED_UNICAST,
    ARP_AGE_REREQUEST_USED_BROADCAST,
    Hosts,      \* addresses of the local network
    Gateways,   \* those of them that may be the default gateway
    Far,        \* an address outside the local network
    Macs,
    Packets,    \* pbufs of packets to send
    None

ASSUME ArpAssumption ==
    /\ ARP_TABLE_SIZE \in Nat \ {0}
    /\ ARP_MAXAGE \in Nat /\ ARP_MAXPENDING \in Nat \ {0}
    /\ ARP_AGE_REREQUEST_USED_UNICAST \in Nat
    /\ ARP_AGE_REREQUEST_USED_BROADCAST \in Nat
    /\ ARP_MAXPENDING <= ARP_MAXAGE
    /\ ARP_AGE_REREQUEST_USED_UNICAST <= ARP_AGE_REREQUEST_USED_BROADCAST
    /\ ARP_AGE_REREQUEST_USED_BROADCAST < ARP_MAXAGE
    /\ Gateways \subseteq Hosts
    /\ Far \notin Hosts
    /\ None \notin Hosts \cup {Far} \cup Macs \cup Packets

Index == 0 .. ARP_TABLE_SIZE - 1

EMPTY == "EMPTY"
PENDING == "PENDING"
STABLE == "STABLE"
REREQUESTING_1 == "STABLE_REREQUESTING_1"
REREQUESTING_2 == "STABLE_REREQUESTING_2"
StableStates == {STABLE, REREQUESTING_1, REREQUESTING_2}

VARIABLES
    arp_table,            \* index -> entry
    etharp_cached_entry,
    gw,                   \* default gateway of the interface, or None
    ref,                  \* reference count of a pbuf, 0 when it is free
    owned,                \* its sender still holds a reference
    hop,                  \* history: next hop of a packet that waits
    heard,                \* history: the last hardware address a host with an
                          \* entry told
    sent,                 \* history: <<next hop, hardware address>> of the
                          \* packets this step put on the wire
    use                   \* history of an entry, see Unused

tableVars == <<arp_table, etharp_cached_entry, gw, ref, owned, hop, heard, sent,
               use>>

\* History of an entry since its address was last told: it was used in every
\* period of its rerequest age; if so, a packet used it since the last tick,
\* and the rerequests tried (as far as they are counted).
Unused == [steady |-> TRUE, used |-> FALSE, unicast |-> 0, broadcast |-> 0]
Unsteady == [steady |-> FALSE, used |-> FALSE, unicast |-> 0, broadcast |-> 0]

\* How many rerequests fit in a stretch of n seconds, one every two seconds.
MinUnicast == (ARP_AGE_REREQUEST_USED_BROADCAST - ARP_AGE_REREQUEST_USED_UNICAST) \div 2
MinBroadcast == (ARP_MAXAGE - ARP_AGE_REREQUEST_USED_BROADCAST) \div 2
Count(n, limit) == IF n < limit THEN n + 1 ELSE n

\* The history u after a packet used the entry, with the rerequest it caused.
Used(u, ucast, bcast) ==
    IF ~u.steady THEN u
    ELSE [steady |-> TRUE, used |-> TRUE,
          unicast |-> IF ucast THEN Count(u.unicast, MinUnicast) ELSE u.unicast,
          broadcast |-> IF bcast THEN Count(u.broadcast, MinBroadcast) ELSE u.broadcast]

\* The history u when the next second begins.
NextSecond(u) ==
    [steady |-> u.steady, used |-> FALSE, unicast |-> u.unicast, broadcast |-> u.broadcast]

\* What is heard of the hosts that have an entry in the next state.
Heard(h) ==
    heard' = [x \in Hosts |->
                IF \A i \in Index : arp_table'[i].ip # x THEN None
                ELSE IF x \in DOMAIN h THEN h[x] ELSE heard[x]]

\* The next hops h without those of the packets that leave the table.
Waiting(h) ==
    hop' = [p \in Packets |->
              IF /\ \E i \in Index : arp_table[i].q = p
                 /\ \A i \in Index : arp_table'[i].q # p
              THEN None ELSE h[p]]

NoEntry == [state |-> EMPTY, ip |-> None, mac |-> None, ctime |-> 0, q |-> None]
Stable(i) == arp_table[i].state \in StableStates
Pending(i) == arp_table[i].state = PENDING
Ageing(i) == Stable(i) /\ arp_table[i].ctime >= ARP_AGE_REREQUEST_USED_UNICAST

\* The reference counts after pbuf_free(p).  One free too many (it asserts)
\* leaves the packet free.
pbuf_free(r, p) == IF p = None THEN r ELSE [r EXCEPT ![p] = IF @ = 0 THEN 0 ELSE @ - 1]

-----------------------------------------------------------------------------
(* etharp_find_entry(): the entry of an address, or the one to reuse.      *)

\* The entry of S with the highest age, the last of several.
Oldest(S) ==
    CHOOSE i \in S : \A j \in S :
        \/ arp_table[j].ctime < arp_table[i].ctime
        \/ arp_table[j].ctime = arp_table[i].ctime /\ j <= i

Matching(ip) == {i \in Index : arp_table[i].state # EMPTY /\ arp_table[i].ip = ip}

\* With ETHARP_FLAG_TRY_HARD and no match.  There is always one.
Recycled ==
    LET empty   == {i \in Index : arp_table[i].state = EMPTY}
        stable  == {i \in Index : Stable(i)}
        pending == {i \in Index : Pending(i) /\ arp_table[i].q = None}
    IN IF empty # {} THEN Min(empty)
       ELSE IF stable # {} THEN Oldest(stable)
       ELSE IF pending # {} THEN Oldest(pending)
       ELSE Oldest(Index)

find_entry(ip) == IF Matching(ip) # {} THEN Min(Matching(ip)) ELSE Recycled

-----------------------------------------------------------------------------
(* Sending                                                                 *)

\* Mutant of StableEntry: a stale hint is taken for the entry.
TrustHint(ip) ==
    IF Stable(etharp_cached_entry) THEN {etharp_cached_entry}
    ELSE {i \in Index : Stable(i) /\ arp_table[i].ip = ip}

\* The entries etharp_output() may use for an address: the cached one if it
\* is stable and the right one, else the first.
StableEntry(ip) ==
    LET right == {i \in Index : Stable(i) /\ arp_table[i].ip = ip}
    IN IF right = {} THEN {}
       ELSE IF etharp_cached_entry \in right THEN {etharp_cached_entry}
       ELSE {Min(right)}

\* The rerequests of an entry that is used and about to expire.
BroadcastDue(e) == e.state = STABLE /\ e.ctime >= ARP_AGE_REREQUEST_USED_BROADCAST
UnicastDue(e) ==
    e.state = STABLE /\ ~BroadcastDue(e) /\ e.ctime >= ARP_AGE_REREQUEST_USED_UNICAST

\* etharp_output_to_arp_index().  ok: etharp_raw() had memory for the request.
output_to_arp_index(i, ip, ok) ==
    LET e == arp_table[i]
        due == BroadcastDue(e) \/ UnicastDue(e)
    IN /\ ~ok => due
       /\ arp_table' = IF ok /\ due THEN [arp_table EXCEPT ![i].state = REREQUESTING_1]
                       ELSE arp_table
       /\ use' = [use EXCEPT ![i] = Used(@, UnicastDue(e), BroadcastDue(e))]
       /\ etharp_cached_entry' = i
       /\ sent' = {<<ip, e.mac>>}

\* Mutant of etharp_query: the packet of a recycled entry is not freed.
QueryWithoutFree(ip, p, r) ==
    LET i == find_entry(ip)
        old == arp_table[i]
        new == i \notin Matching(ip)
    IN /\ arp_table' = [arp_table EXCEPT ![i] =
                [state |-> PENDING, ip |-> ip, mac |-> None,
                 ctime |-> IF new THEN 0 ELSE old.ctime,
                 q |-> IF p # None THEN p ELSE IF new THEN None ELSE old.q]]
       /\ ref' = IF ~new /\ p # None THEN pbuf_free(r, old.q) ELSE r
       /\ use' = [use EXCEPT ![i] = Unused]
       /\ sent' = {}
       /\ UNCHANGED etharp_cached_entry

\* etharp_query() for an address that has no stable entry; p is None for a
\* query without a packet.  The packet queued before, or the one of the
\* entry that is reused, is freed.  r: the reference counts, p's new one
\* included.  Whether the request goes out makes no difference here.
etharp_query(ip, p, r) ==
    LET i == find_entry(ip)
        old == arp_table[i]
        new == i \notin Matching(ip)
    IN /\ arp_table' = [arp_table EXCEPT ![i] =
                [state |-> PENDING, ip |-> ip, mac |-> None,
                 ctime |-> IF new THEN 0 ELSE old.ctime,
                 q |-> IF p # None THEN p ELSE IF new THEN None ELSE old.q]]
       /\ ref' = IF new \/ p # None THEN pbuf_free(r, old.q) ELSE r
       /\ use' = [use EXCEPT ![i] = Unused]
       /\ sent' = {}
       /\ UNCHANGED etharp_cached_entry

\* A packet may be sent when it is new, or again when only its sender holds
\* it (tcp_output_segment_busy()).  Again to another destination stands for
\* one that was freed and a new one in its place.
Sendable(p) == ref[p] = 0 \/ (owned[p] /\ ref[p] = 1)

NextHop(ip) == IF ip = Far THEN gw ELSE ip

etharp_output(p, ip) ==
    /\ Sendable(p)
    /\ owned' = [owned EXCEPT ![p] = TRUE]
    /\ \/ \* ERR_RTE: no default gateway
          /\ NextHop(ip) = None
          /\ ref' = [ref EXCEPT ![p] = 1]
          /\ sent' = {}
          /\ UNCHANGED <<arp_table, etharp_cached_entry, hop, use>>
       \/ \E i \in StableEntry(NextHop(ip)), ok \in BOOLEAN :
             /\ output_to_arp_index(i, NextHop(ip), ok)
             /\ ref' = [ref EXCEPT ![p] = 1]
             /\ UNCHANGED hop
       \/ /\ NextHop(ip) # None /\ StableEntry(NextHop(ip)) = {}
          /\ etharp_query(NextHop(ip), p, [ref EXCEPT ![p] = 2])
          /\ Waiting([hop EXCEPT ![p] = NextHop(ip)])
    /\ Heard(<<>>)
    /\ UNCHANGED gw

\* The sender frees its packet: TCP when it was acknowledged or given up,
\* UDP and ICMP at once.
Release(p) ==
    /\ owned[p]
    /\ owned' = [owned EXCEPT ![p] = FALSE]
    /\ ref' = pbuf_free(ref, p)
    /\ sent' = {}
    /\ UNCHANGED <<arp_table, etharp_cached_entry, gw, hop, heard, use>>

\* dhcp_check() asks whether another host has the offered address.
dhcp_check(ip) ==
    /\ \A i \in Matching(ip) : Pending(i)
    /\ etharp_query(ip, None, ref)
    /\ Waiting(hop)
    /\ Heard(<<>>)
    /\ UNCHANGED <<gw, owned>>

netif_set_gw(g) ==
    /\ g # gw /\ gw' = g
    /\ sent' = {}
    /\ UNCHANGED <<arp_table, etharp_cached_entry, ref, owned, hop, heard, use>>

-----------------------------------------------------------------------------
(* Receiving and the timer                                                 *)

\* etharp_update_arp_entry(): the entry becomes stable and its packet goes out.
update_arp_entry(i, ip, mac) ==
    LET old == arp_table[i]
        waiting == i \in Matching(ip) /\ old.q # None
    IN /\ arp_table' = [arp_table EXCEPT ![i] =
                [state |-> STABLE, ip |-> ip, mac |-> mac, ctime |-> 0, q |-> None]]
       /\ ref' = pbuf_free(ref, old.q)
       /\ use' = [use EXCEPT ![i] = Unused]
       /\ sent' = IF waiting THEN {<<hop[old.q], mac>>} ELSE {}

\* etharp_input(): a message of host ip.  Only one for us makes an entry;
\* any one updates the entry there is.
etharp_input(ip, mac, for_us) ==
    /\ IF for_us \/ Matching(ip) # {}
       THEN update_arp_entry(find_entry(ip), ip, mac)
       ELSE /\ sent' = {}
            /\ UNCHANGED <<arp_table, ref, use>>
    /\ Waiting(hop)
    /\ Heard([x \in {ip} |-> mac])
    /\ UNCHANGED <<etharp_cached_entry, gw, owned>>

\* Mutant of Expired: off by one.
ExpiredLate(e) ==
    \/ e.ctime + 1 > ARP_MAXAGE
    \/ e.state = PENDING /\ e.ctime + 1 > ARP_MAXPENDING

Expired(e) ==
    \/ e.ctime + 1 >= ARP_MAXAGE
    \/ e.state = PENDING /\ e.ctime + 1 >= ARP_MAXPENDING

\* Mutant of Aged: an entry that is rerequested never becomes stable again.
AgedStuck(e) ==
    IF e.state = EMPTY THEN e
    ELSE IF Expired(e) THEN NoEntry
    ELSE [e EXCEPT !.ctime = @ + 1,
                   !.state = IF @ = REREQUESTING_1 THEN REREQUESTING_2 ELSE @]

\* An entry one tick later.
Aged(e) ==
    IF e.state = EMPTY THEN e
    ELSE IF Expired(e) THEN NoEntry
    ELSE [e EXCEPT !.ctime = @ + 1,
                   !.state = IF @ = REREQUESTING_1 THEN REREQUESTING_2
                             ELSE IF @ = REREQUESTING_2 THEN STABLE
                             ELSE @]

\* etharp_tmr().  An entry that goes frees its packet (etharp_free_entry()).
etharp_tmr ==
    LET goes == {i \in Index : arp_table[i].state # EMPTY /\ Expired(arp_table[i])}
    IN /\ arp_table' = [i \in Index |-> Aged(arp_table[i])]
       /\ ref' = [p \in Packets |->
                    IF \E i \in goes : arp_table[i].q = p THEN pbuf_free(ref, p)[p]
                    ELSE ref[p]]
       /\ use' = [i \in Index |->
                    IF i \in goes THEN Unused
                    ELSE IF \/ use[i].used
                            \/ use[i].steady /\ ~Ageing(i)
                    THEN NextSecond(use[i])
                    ELSE Unsteady]
       /\ Waiting(hop)
       /\ sent' = {}
       /\ Heard(<<>>)
       /\ UNCHANGED <<etharp_cached_entry, gw, owned>>

-----------------------------------------------------------------------------
\* The table is zeroed memory, state 0 is EMPTY.
TableInit ==
    /\ arp_table = [i \in Index |-> NoEntry]
    /\ etharp_cached_entry = 0
    /\ gw = None
    /\ ref = [p \in Packets |-> 0]
    /\ owned = [p \in Packets |-> FALSE]
    /\ hop = [p \in Packets |-> None]
    /\ heard = [h \in Hosts |-> None]
    /\ sent = {}
    /\ use = [i \in Index |-> Unused]

\* What the tcpip thread may do, with the packets P.
TableNext(P) ==
    \/ \E p \in P, ip \in Hosts \cup {Far} : etharp_output(p, ip)
    \/ \E p \in P : Release(p)
    \/ \E ip \in Hosts : dhcp_check(ip)
    \/ \E g \in Gateways \cup {None} : netif_set_gw(g)
    \/ \E ip \in Hosts, mac \in Macs, for_us \in BOOLEAN : etharp_input(ip, mac, for_us)
    \/ etharp_tmr

-----------------------------------------------------------------------------
Entry == [state : {EMPTY, PENDING} \cup StableStates, ip : Hosts \cup {None},
          mac : Macs \cup {None}, ctime : 0 .. ARP_MAXAGE - 1, q : Packets \cup {None}]

\* The state is well formed; in particular no entry gets as old as
\* ARP_MAXAGE, and no pending one as old as ARP_MAXPENDING.
TableOK ==
    /\ arp_table \in [Index -> Entry]
    /\ \A i \in Index : Pending(i) => arp_table[i].ctime < ARP_MAXPENDING
    /\ etharp_cached_entry \in Index
    /\ gw \in Gateways \cup {None}
    /\ ref \in [Packets -> 0 .. 2]
    /\ owned \in [Packets -> BOOLEAN]
    /\ hop \in [Packets -> Hosts \cup {None}]
    /\ heard \in [Hosts -> Macs \cup {None}]
    /\ sent \in SUBSET ((Hosts \cup {None}) \X (Macs \cup {None}))
    /\ use \in [Index -> [steady : BOOLEAN, used : BOOLEAN,
                          unicast : 0 .. MinUnicast, broadcast : 0 .. MinBroadcast]]
=============================================================================
