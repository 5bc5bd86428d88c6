------------------------------ MODULE ArpProofs ------------------------------
(***************************************************************************)
(* Proofs about the ARP table and its users for any size, ages, hosts and  *)
(* packets.  As long as no call was disturbed: every packet goes to the    *)
(* hardware address its next hop told last (RightHost), no reference to a  *)
(* packet is lost or given back twice (NoPbufLeak), and an entry in steady *)
(* use does not expire before its host was asked again (SteadyUse).  Only  *)
(* what dhcpTask does without the core lock disturbs a call (LockSuffices), *)
(* and the table stays well formed even then (TypeCorrect).                *)
(*                                                                         *)
(* The invariant AInv ties the table to the histories: an entry in use has *)
(* a host of its own, a stable one the address that host told last         *)
(* (Entries, Told); only a pending entry has a packet, that packet waits   *)
(* nowhere else and its next hop is the entry's host (Queued); a packet's  *)
(* count is the sender's reference and the table's (Refs).  It is needed   *)
(* as a whole: a packet that is sent again is known not to wait on another *)
(* entry by its count alone.  Rerequests counts the requests of an entry.  *)
(*                                                                         *)
(* Calls adds what a task between two accesses relies on: its entry is     *)
(* still the one it saw, and its packet has one reference and is in no     *)
(* entry.  RInv says that all this holds until a call is disturbed.        *)
(***************************************************************************)
EXTENDS ArpTasks, FiniteSetTheorems, WellFoundedInduction, TLAPS

Entries ==
    \A i \in Index :
        /\ arp_table[i].state = EMPTY => arp_table[i].ip = None
        /\ arp_table[i].state # EMPTY => arp_table[i].ip \in Hosts
        /\ Stable(i) => arp_table[i].mac \in Macs
        /\ arp_table[i].q # None => Pending(i)
        /\ \A j \in Index : arp_table[i].ip # None /\ arp_table[i].ip = arp_table[j].ip => i = j

Told == \A i \in Index : Stable(i) => arp_table[i].mac = heard[arp_table[i].ip]

Queued ==
    \A i \in Index : arp_table[i].q # None =>
        /\ hop[arp_table[i].q] = arp_table[i].ip
        /\ \A j \in Index : arp_table[i].q = arp_table[j].q => i = j

Refs ==
    \A p \in Packets :
        ref[p] = (IF owned[p] THEN 1 ELSE 0)
                 + (IF \E i \in Index : arp_table[i].q = p THEN 1 ELSE 0)

Sent == \A s \in sent : s[1] \in Hosts /\ s[2] \in Macs /\ s[2] = heard[s[1]]

AInv == TableOK /\ Entries /\ Told /\ Queued /\ Refs /\ Sent

\* The seconds that the last rerequest of an entry still accounts for.
Covered(e, u) ==
    IF e.state = REREQUESTING_2 THEN 1
    ELSE IF e.state = REREQUESTING_1 \/ (u.used /\ e.ctime >= ARP_AGE_REREQUEST_USED_UNICAST)
    THEN 2 ELSE 0

\* The rerequests so far, counted against the age of an entry in steady use.
\* In STABLE there was one in every two seconds; in the two states that wait
\* for an answer the last one is not over yet.
Asked(e, u) ==
    /\ e.state \in {REREQUESTING_1, REREQUESTING_2} => e.ctime >= ARP_AGE_REREQUEST_USED_UNICAST
    /\ e.ctime < ARP_AGE_REREQUEST_USED_BROADCAST =>
          \/ u.unicast = MinUnicast
          \/ 2 * u.unicast >= e.ctime - ARP_AGE_REREQUEST_USED_UNICAST + Covered(e, u)
    /\ e.ctime >= ARP_AGE_REREQUEST_USED_BROADCAST =>
          /\ u.unicast = MinUnicast
          /\ \/ u.broadcast = MinBroadcast
             \/ 2 * u.broadcast >= e.ctime - ARP_AGE_REREQUEST_USED_BROADCAST - 1 + Covered(e, u)

Rerequests ==
    \A i \in Index :
        /\ use[i].used => use[i].steady
        /\ Stable(i) /\ use[i].steady => Asked(arp_table[i], use[i])

-----------------------------------------------------------------------------
(* The operators                                                           *)

\* A nonempty set of naturals contains its minimum.
LEMMA MinIn ==
    ASSUME NEW S, S \subseteq Nat, S # {}
    PROVE  Min(S) \in S /\ \A y \in S : Min(S) <= y
<1> DEFINE less == {ss \in Nat \X Nat : ss[1] < ss[2]}
<1>1. IsWellFoundedOn(less, Nat)
  BY NatLessThanWellFounded, Zenon DEF OpToRel
<1> HIDE DEF less
<1>2. PICK x \in S : \A y \in S : ~(<<y, x>> \in less)
  BY <1>1, WFMin
<1>3. ASSUME NEW y \in S PROVE x <= y
  <2>1. x \in Nat /\ y \in Nat
    OBVIOUS
  <2>2. y < x => <<y, x>> \in less
    BY <2>1 DEF less
  <2> QED BY <1>2, <2>1, <2>2
<1> QED BY <1>3 DEF Min

\* Oldest() chooses one of the entries it is given.
LEMMA OldestIn ==
    ASSUME TableOK, NEW S, S \subseteq Index, S # {}
    PROVE  Oldest(S) \in S
<1>1. \A i \in S : i \in Int /\ i <= ARP_TABLE_SIZE /\ arp_table[i].ctime \in 0 .. ARP_MAXAGE - 1
  BY ArpAssumption DEF TableOK, Entry, Index
<1> DEFINE left == {ARP_MAXAGE - arp_table[i].ctime : i \in S}
<1>2. left \subseteq Nat /\ left # {}
  BY <1>1, ArpAssumption
<1>3. PICK i \in S : \A j \in S : arp_table[j].ctime <= arp_table[i].ctime
  <2> HIDE DEF left
  <2>1. Min(left) \in left /\ \A y \in left : Min(left) <= y
    BY <1>2, MinIn
  <2>2. PICK i \in S : Min(left) = ARP_MAXAGE - arp_table[i].ctime
    BY <2>1 DEF left
  <2>3. \A j \in S : ARP_MAXAGE - arp_table[i].ctime <= ARP_MAXAGE - arp_table[j].ctime
    BY <2>1, <2>2 DEF left
  <2> QED BY <1>1, <2>3, ArpAssumption
<1> DEFINE same == {j \in S : arp_table[j].ctime = arp_table[i].ctime}
           behind == {ARP_TABLE_SIZE - j : j \in same}
<1>4. behind \subseteq Nat /\ behind # {}
  BY <1>1, ArpAssumption
<1>5. PICK k \in same : \A j \in same : j <= k
  <2> HIDE DEF same, behind
  <2>1. Min(behind) \in behind /\ \A y \in behind : Min(behind) <= y
    BY <1>4, MinIn
  <2>2. PICK k \in same : Min(behind) = ARP_TABLE_SIZE - k
    BY <2>1 DEF behind
  <2>3. \A j \in same : ARP_TABLE_SIZE - k <= ARP_TABLE_SIZE - j
    BY <2>1, <2>2 DEF behind
  <2>4. \A j \in same : j \in Int
    BY <1>1 DEF same
  <2> QED BY <2>3, <2>4, ArpAssumption
<1>6. \A j \in S : \/ arp_table[j].ctime < arp_table[k].ctime
                   \/ arp_table[j].ctime = arp_table[k].ctime /\ j <= k
  BY <1>1, <1>3, <1>5
<1>7. k \in S
  BY <1>5
<1> QED BY <1>6, <1>7 DEF Oldest

\* etharp_find_entry() finds the entry of an address if there is one, and
\* always an entry.
LEMMA FindEntry ==
    ASSUME TableOK, NEW ip
    PROVE  /\ find_entry(ip) \in Index
           /\ Matching(ip) # {} <=> find_entry(ip) \in Matching(ip)
<1>1. Index \subseteq Nat /\ Index # {}
  BY ArpAssumption DEF Index
<1>2. CASE Matching(ip) # {}
  <2>1. Matching(ip) \subseteq Index
    BY DEF Matching
  <2>2. Min(Matching(ip)) \in Matching(ip)
    BY <1>1, <1>2, <2>1, MinIn
  <2> QED BY <1>2, <2>1, <2>2 DEF find_entry
<1>3. CASE Matching(ip) = {}
  <2> DEFINE empty   == {i \in Index : arp_table[i].state = EMPTY}
             stable  == {i \in Index : Stable(i)}
             pending == {i \in Index : Pending(i) /\ arp_table[i].q = None}
  <2>1. empty # {} => Min(empty) \in Index
    <3>1. empty \subseteq Index
      OBVIOUS
    <3> HIDE DEF empty
    <3> QED BY <1>1, <3>1, MinIn
  <2>2. /\ stable # {} => Oldest(stable) \in Index
        /\ pending # {} => Oldest(pending) \in Index
    <3>1. stable \subseteq Index /\ pending \subseteq Index
      OBVIOUS
    <3> HIDE DEF stable, pending
    <3> QED BY <3>1, OldestIn
  <2>3. Oldest(Index) \in Index
    BY <1>1, OldestIn
  <2>4. Recycled \in Index
    BY <2>1, <2>2, <2>3 DEF Recycled
  <2> QED BY <1>3, <2>4 DEF find_entry
<1> QED BY <1>2, <1>3

\* The entry used for sending is the stable entry of the address.
LEMMA StableEntryIs ==
    ASSUME NEW ip, NEW i \in StableEntry(ip)
    PROVE  i \in Index /\ Stable(i) /\ arp_table[i].ip = ip
<1> DEFINE right == {j \in Index : Stable(j) /\ arp_table[j].ip = ip}
<1>1. right # {} /\ i \in {etharp_cached_entry, Min(right)} /\ (i = Min(right) \/ i \in right)
  BY DEF StableEntry
<1>2. right \subseteq Nat
  BY DEF Index
<1>3. Min(right) \in right
  <2> HIDE DEF right
  <2> QED BY <1>1, <1>2, MinIn
<1> QED BY <1>1, <1>3

\* Without such an entry the address has at most a pending one.
LEMMA NoStableEntry ==
    ASSUME NEW ip, StableEntry(ip) = {}
    PROVE  \A i \in Index : ~(Stable(i) /\ arp_table[i].ip = ip)
BY DEF StableEntry

\* An entry after a tick, field by field.
LEMMA AgedIs ==
    ASSUME NEW e \in Entry
    PROVE  /\ e.state = EMPTY => Aged(e) = e
           /\ e.state # EMPTY /\ Expired(e) => Aged(e) = NoEntry
           /\ e.state # EMPTY /\ ~Expired(e) =>
                 Aged(e) = [state |-> IF e.state = REREQUESTING_1 THEN REREQUESTING_2
                                      ELSE IF e.state = REREQUESTING_2 THEN STABLE
                                      ELSE e.state,
                            ip |-> e.ip, mac |-> e.mac, ctime |-> e.ctime + 1, q |-> e.q]
BY DEF Aged, Entry

\* What a step without an ARP message leaves of what was heard.
LEMMA HeardNothing ==
    ASSUME Heard(<<>>), TableOK
    PROVE  /\ heard' \in [Hosts -> Macs \cup {None}]
           /\ \A x \in Hosts, i \in Index : arp_table'[i].ip = x => heard'[x] = heard[x]
<1>1. DOMAIN <<>> = {}
  OBVIOUS
<1>2. heard' = [x \in Hosts |->
                  IF \A i \in Index : arp_table'[i].ip # x THEN None ELSE heard[x]]
  BY <1>1 DEF Heard
<1> QED BY <1>2 DEF TableOK

\* The numbers of rerequests a steady use must reach.
LEMMA Minimums ==
    /\ MinUnicast \in Nat /\ MinBroadcast \in Nat
    /\ 2 * MinUnicast <= ARP_AGE_REREQUEST_USED_BROADCAST - ARP_AGE_REREQUEST_USED_UNICAST
    /\ 2 * MinBroadcast <= ARP_MAXAGE - ARP_AGE_REREQUEST_USED_BROADCAST
    /\ 2 * MinBroadcast >= ARP_MAXAGE - ARP_AGE_REREQUEST_USED_BROADCAST - 1
BY ArpAssumption DEF MinUnicast, MinBroadcast

-----------------------------------------------------------------------------
(* The table and the references                                            *)

\* The table is empty and no packet exists.
LEMMA InitAInv == TableInit => AInv
<1> SUFFICES ASSUME TableInit PROVE AInv
  OBVIOUS
<1>1. TableOK
  <2>1. NoEntry \in Entry /\ 0 \in Index
    BY ArpAssumption DEF NoEntry, Entry, Index
  <2>2. Unused \in [steady : BOOLEAN, used : BOOLEAN,
                    unicast : 0 .. MinUnicast, broadcast : 0 .. MinBroadcast]
    BY Minimums DEF Unused
  <2>3. \A i \in Index : ~Pending(i)
    BY DEF TableInit, NoEntry, Pending, PENDING, EMPTY
  <2> QED BY <2>1, <2>2, <2>3 DEF TableInit, TableOK
<1>2. Entries /\ Told /\ Queued
  BY DEF TableInit, Entries, Told, Queued, NoEntry, Stable, StableStates, EMPTY, STABLE,
         REREQUESTING_1, REREQUESTING_2
<1>3. Refs /\ Sent
  BY ArpAssumption DEF TableInit, Refs, Sent, NoEntry
<1> QED BY <1>1, <1>2, <1>3 DEF AInv

\* A packet that may be sent is not waiting in the table.
LEMMA SendableNotQueued ==
    ASSUME AInv, NEW p \in Packets, Sendable(p)
    PROVE  \A i \in Index : arp_table[i].q # p
BY DEF AInv, TableOK, Refs, Sendable

\* The next hop of a packet is a host, if there is one.
LEMMA NextHopType ==
    ASSUME TableOK, NEW ip \in Hosts \cup {Far}
    PROVE  NextHop(ip) \in Hosts \cup {None}
BY ArpAssumption DEF TableOK, NextHop

\* A record of the use of an entry.
UseType == [steady : BOOLEAN, used : BOOLEAN,
            unicast : 0 .. MinUnicast, broadcast : 0 .. MinBroadcast]

LEMMA UseValues ==
    /\ Unused \in UseType /\ Unsteady \in UseType
    /\ \A n \in 0 .. MinUnicast : Count(n, MinUnicast) \in 0 .. MinUnicast
    /\ \A n \in 0 .. MinBroadcast : Count(n, MinBroadcast) \in 0 .. MinBroadcast
BY Minimums DEF Unused, Unsteady, UseType, Count

\* A packet uses the stable entry i, which may be rerequested.
LEMMA OutputTable ==
    ASSUME TableOK, NEW i \in Index,
           \/ arp_table' = arp_table
           \/ arp_table' = [arp_table EXCEPT ![i].state = REREQUESTING_1],
           NEW ucast \in BOOLEAN, NEW bcast \in BOOLEAN,
           use' = [use EXCEPT ![i] = Used(use[i], ucast, bcast)]
    PROVE  /\ arp_table' \in [Index -> Entry]
           /\ use' \in [Index -> UseType]
           /\ \A j \in Index :
                 /\ arp_table'[j].ip = arp_table[j].ip /\ arp_table'[j].mac = arp_table[j].mac
                 /\ arp_table'[j].q = arp_table[j].q /\ arp_table'[j].ctime = arp_table[j].ctime
                 /\ j # i => arp_table'[j] = arp_table[j]
                 /\ \/ arp_table'[j].state = arp_table[j].state
                    \/ j = i /\ arp_table'[j].state = REREQUESTING_1
           /\ Stable(i) => \A j \in Index :
                 /\ Stable(j)' = Stable(j) /\ Pending(j)' = Pending(j)
                 /\ (arp_table'[j].state = EMPTY) = (arp_table[j].state = EMPTY)
<1>2. /\ arp_table' \in [Index -> Entry]
      /\ \A j \in Index :
            /\ arp_table'[j].ip = arp_table[j].ip /\ arp_table'[j].mac = arp_table[j].mac
            /\ arp_table'[j].q = arp_table[j].q /\ arp_table'[j].ctime = arp_table[j].ctime
            /\ j # i => arp_table'[j] = arp_table[j]
            /\ \/ arp_table'[j].state = arp_table[j].state
               \/ j = i /\ arp_table'[j].state = REREQUESTING_1
  <2>0. arp_table \in [Index -> Entry]
    BY DEF TableOK
  <2>1. CASE arp_table' = [arp_table EXCEPT ![i].state = REREQUESTING_1]
    <3> DEFINE e == arp_table[i]
               f == [state |-> REREQUESTING_1, ip |-> e.ip, mac |-> e.mac,
                     ctime |-> e.ctime, q |-> e.q]
    <3>1. e \in Entry
      BY <2>0
    <3>2. [e EXCEPT !.state = REREQUESTING_1] = f
      BY <3>1 DEF Entry
    <3>3. arp_table' = [arp_table EXCEPT ![i] = f]
      BY <2>0, <2>1, <3>2
    <3>4. f \in Entry
      BY <3>1 DEF Entry, StableStates
    <3> QED BY <2>0, <3>3, <3>4
  <2>2. CASE arp_table' = arp_table
    BY <2>0, <2>2
  <2> QED BY <2>1, <2>2
<1>3. ASSUME Stable(i)
      PROVE  \A j \in Index :
            /\ Stable(j)' = Stable(j) /\ Pending(j)' = Pending(j)
            /\ (arp_table'[j].state = EMPTY) = (arp_table[j].state = EMPTY)
  BY <1>2, <1>3 DEF Stable, Pending, StableStates, PENDING, EMPTY, STABLE, REREQUESTING_1,
                    REREQUESTING_2
<1>4. use' \in [Index -> UseType]
  <2>1. use \in [Index -> UseType]
    BY DEF TableOK, UseType
  <2>2. Used(use[i], ucast, bcast) \in UseType
    BY <2>1, UseValues DEF UseType, Used
  <2> QED BY <2>1, <2>2
<1> QED BY <1>2, <1>3, <1>4

\* A packet goes out through a stable entry.
LEMMA OutputStable ==
    ASSUME AInv, NEW p \in Packets, NEW ip \in Hosts \cup {Far}, Sendable(p),
           owned' = [owned EXCEPT ![p] = TRUE], hop' = hop, ref' = [ref EXCEPT ![p] = 1],
           NEW i \in StableEntry(NextHop(ip)), NEW ok \in BOOLEAN,
           output_to_arp_index(i, NextHop(ip), ok), Heard(<<>>), gw' = gw
    PROVE  AInv'
<1>0. TableOK
  BY DEF AInv
<1>1. i \in Index /\ Stable(i) /\ arp_table[i].ip = NextHop(ip)
  BY StableEntryIs
<1>2. /\ arp_table' \in [Index -> Entry] /\ use' \in [Index -> UseType]
      /\ \A j \in Index :
            /\ arp_table'[j].ip = arp_table[j].ip /\ arp_table'[j].mac = arp_table[j].mac
            /\ arp_table'[j].q = arp_table[j].q /\ arp_table'[j].ctime = arp_table[j].ctime
            /\ Stable(j)' = Stable(j) /\ Pending(j)' = Pending(j)
            /\ (arp_table'[j].state = EMPTY) = (arp_table[j].state = EMPTY)
  <2>1. PICK ucast \in BOOLEAN, bcast \in BOOLEAN :
           use' = [use EXCEPT ![i] = Used(use[i], ucast, bcast)]
    BY DEF output_to_arp_index, UnicastDue, BroadcastDue
  <2>2. \/ arp_table' = arp_table
        \/ arp_table' = [arp_table EXCEPT ![i].state = REREQUESTING_1]
    BY DEF output_to_arp_index
  <2> QED BY <1>0, <1>1, <2>1, <2>2, OutputTable
<1>3. /\ heard' \in [Hosts -> Macs \cup {None}]
      /\ \A x \in Hosts, j \in Index : arp_table'[j].ip = x => heard'[x] = heard[x]
  BY <1>0, HeardNothing
<1>4. NextHop(ip) \in Hosts /\ arp_table[i].mac \in Macs /\ arp_table[i].mac = heard[NextHop(ip)]
  <2>1. arp_table[i].state # EMPTY
    BY <1>1 DEF Stable, StableStates, EMPTY, STABLE, REREQUESTING_1, REREQUESTING_2
  <2> QED BY <1>1, <2>1 DEF AInv, Entries, Told
<1>5. sent' = {<<NextHop(ip), arp_table[i].mac>>} /\ etharp_cached_entry' = i
  BY DEF output_to_arp_index
<1>6. \A j \in Index : arp_table[j].q # p
  BY SendableNotQueued
<1>7. TableOK'
  <2>1. \A j \in Index : Pending(j)' => arp_table'[j].ctime < ARP_MAXPENDING
    BY <1>0, <1>2 DEF TableOK
  <2>2. /\ ref' \in [Packets -> 0 .. 2] /\ owned' \in [Packets -> BOOLEAN]
        /\ hop' \in [Packets -> Hosts \cup {None}]
    BY <1>0, <1>4 DEF TableOK
  <2>3. sent' \in SUBSET ((Hosts \cup {None}) \X (Macs \cup {None}))
    BY <1>4, <1>5
  <2> QED BY <1>0, <1>1, <1>2, <1>3, <1>5, <2>1, <2>2, <2>3 DEF TableOK, UseType
<1>8. Entries'
  BY <1>2 DEF AInv, Entries, Index
<1>9. Told'
  <2> SUFFICES ASSUME NEW j \in Index, Stable(j)'
               PROVE  arp_table'[j].mac = heard'[arp_table'[j].ip]
    BY DEF Told, Index
  <2>1. Stable(j) /\ arp_table[j].state # EMPTY
    BY <1>2 DEF Stable, StableStates, EMPTY, STABLE, REREQUESTING_1, REREQUESTING_2
  <2> QED BY <1>2, <1>3, <2>1 DEF AInv, Entries, Told
<1>10. Queued'
  BY <1>0, <1>2, <1>6 DEF AInv, TableOK, Entry, Queued, Index
<1>11. Refs'
  <2> SUFFICES ASSUME NEW x \in Packets
               PROVE  ref'[x] = (IF owned'[x] THEN 1 ELSE 0)
                          + (IF \E j \in Index : arp_table'[j].q = x THEN 1 ELSE 0)
    BY DEF Refs, Index
  <2>1. (\E j \in Index : arp_table'[j].q = x) <=> (\E j \in Index : arp_table[j].q = x)
    BY <1>2
  <2>2. CASE x = p
    BY <1>0, <1>6, <2>1, <2>2 DEF TableOK
  <2>3. CASE x # p
    BY <1>0, <2>1, <2>3 DEF AInv, TableOK, Refs
  <2> QED BY <2>2, <2>3
<1>12. Sent'
  <2>1. heard'[NextHop(ip)] = heard[NextHop(ip)]
    BY <1>1, <1>2, <1>3, <1>4
  <2> QED BY <1>4, <1>5, <2>1 DEF Sent
<1> QED BY <1>7, <1>8, <1>9, <1>10, <1>11, <1>12 DEF AInv

\* No other entry has the address that etharp_find_entry() was asked for.
LEMMA FoundAlone ==
    ASSUME AInv, NEW ip \in Hosts
    PROVE  \A j \in Index \ {find_entry(ip)} : arp_table[j].ip # ip
<1>1. TableOK /\ Entries
  BY DEF AInv
<1>2. find_entry(ip) \in Index /\ (Matching(ip) # {} => find_entry(ip) \in Matching(ip))
  BY <1>1, FindEntry
<1>3. ip # None
  BY ArpAssumption
<1>4. \A j \in Index : arp_table[j].ip = ip <=> j \in Matching(ip)
  BY <1>1, <1>3 DEF Entries, Matching
<1> QED BY <1>1, <1>2, <1>3, <1>4 DEF Entries

\* One entry of the table is rewritten, for a host that no other entry has,
\* or for none.
LEMMA RewriteEntry ==
    ASSUME AInv, NEW i \in Index, NEW e \in Entry,
           arp_table' = [arp_table EXCEPT ![i] = e],
           e.state = EMPTY => e.ip = None, e.state # EMPTY => e.ip \in Hosts,
           e.state \in StableStates => e.mac \in Macs,
           e.q # None => e.state = PENDING,
           e.state = PENDING => e.ctime < ARP_MAXPENDING,
           e.ip # None => \A j \in Index \ {i} : arp_table[j].ip # e.ip
    PROVE  /\ arp_table' \in [Index -> Entry]
           /\ arp_table'[i] = e /\ \A j \in Index \ {i} : arp_table'[j] = arp_table[j]
           /\ \A j \in Index : Pending(j)' => arp_table'[j].ctime < ARP_MAXPENDING
           /\ Entries'
<1>1. arp_table \in [Index -> Entry]
  BY DEF AInv, TableOK
<1>2. /\ arp_table' \in [Index -> Entry]
      /\ arp_table'[i] = e /\ \A j \in Index \ {i} : arp_table'[j] = arp_table[j]
  BY <1>1
<1>3. \A j \in Index : Pending(j)' => arp_table'[j].ctime < ARP_MAXPENDING
  BY <1>2 DEF AInv, TableOK, Pending
<1>4. Entries'
  <2> SUFFICES ASSUME NEW j \in Index
               PROVE  /\ arp_table'[j].state = EMPTY => arp_table'[j].ip = None
                      /\ arp_table'[j].state # EMPTY => arp_table'[j].ip \in Hosts
                      /\ Stable(j)' => arp_table'[j].mac \in Macs
                      /\ arp_table'[j].q # None => Pending(j)'
                      /\ \A k \in Index :
                            arp_table'[j].ip # None /\ arp_table'[j].ip = arp_table'[k].ip => j = k
    BY DEF Entries, Index
  <2>1. CASE j = i
    BY <1>2, <2>1 DEF Stable, Pending
  <2>2. CASE j # i
    BY <1>2, <2>2 DEF AInv, Entries, Stable, Pending
  <2> QED BY <2>1, <2>2
<1> QED BY <1>2, <1>3, <1>4

\* The references after an entry's packet old gave way to new, for a packet p
\* that came in.
RefsAfter(p, old, new) ==
    /\ owned' = IF p = None THEN owned ELSE [owned EXCEPT ![p] = TRUE]
    /\ ref' = pbuf_free(IF p = None THEN ref ELSE [ref EXCEPT ![p] = 2],
                        IF new = old THEN None ELSE old)

\* The packet that leaves a rewritten entry gives back its reference, the
\* one that comes (p, with its sender's reference and the table's) is counted
\* twice.
LEMMA RewriteRefs ==
    ASSUME AInv, NEW i \in Index, NEW e \in Entry,
           arp_table'[i] = e, \A j \in Index \ {i} : arp_table'[j] = arp_table[j],
           NEW p \in Packets \cup {None},
           \A j \in Index : p # None => arp_table[j].q # p,
           e.q = p \/ (p = None /\ e.q = arp_table[i].q),
           RefsAfter(p, arp_table[i].q, e.q)
    PROVE  ref' \in [Packets -> 0 .. 2] /\ owned' \in [Packets -> BOOLEAN] /\ Refs'
<1> DEFINE old == arp_table[i].q
           gone == IF e.q = old THEN None ELSE old
           r == IF p = None THEN ref ELSE [ref EXCEPT ![p] = 2]
<1>0. owned' = (IF p = None THEN owned ELSE [owned EXCEPT ![p] = TRUE]) /\ ref' = pbuf_free(r, gone)
  BY DEF RefsAfter
<1>1. /\ arp_table \in [Index -> Entry] /\ ref \in [Packets -> 0 .. 2]
      /\ owned \in [Packets -> BOOLEAN] /\ None \notin Packets
  BY ArpAssumption DEF AInv, TableOK
<1>2. old \in Packets \cup {None} /\ e.q \in Packets \cup {None} /\ gone \in Packets \cup {None}
  BY <1>1 DEF Entry
<1>3. r \in [Packets -> 0 .. 2] /\ owned' \in [Packets -> BOOLEAN]
  BY <1>0, <1>1
<1>4. /\ \A x \in Packets \ {p} : r[x] = ref[x] /\ owned'[x] = owned[x]
      /\ p # None => r[p] = 2 /\ owned'[p] = TRUE
  BY <1>0, <1>1
<1>5. \A j \in Index \ {i} : old # None => arp_table[j].q # old
  BY DEF AInv, Queued
<1>6. gone # None => ref[gone] >= 1 /\ gone # p
  BY <1>1, <1>2 DEF AInv, Refs
<1>7. ref' = IF gone = None THEN r ELSE [r EXCEPT ![gone] = r[gone] - 1]
  <2>1. gone # None => r[gone] = ref[gone] /\ r[gone] # 0
    BY <1>1, <1>2, <1>4, <1>6
  <2>2. gone # None => (IF r[gone] = 0 THEN 0 ELSE r[gone] - 1) = r[gone] - 1
    BY <2>1
  <2> HIDE DEF gone, r
  <2>3. ref' = IF gone = None THEN r ELSE [r EXCEPT ![gone] = IF r[gone] = 0 THEN 0 ELSE r[gone] - 1]
    BY <1>0 DEF pbuf_free
  <2> QED BY <2>2, <2>3
<1> HIDE DEF gone, r
<1>8. /\ ref' \in [Packets -> 0 .. 2]
      /\ \A x \in Packets \ {gone} : ref'[x] = r[x]
      /\ gone # None => ref'[gone] = ref[gone] - 1
  <2>1. CASE gone = None
    BY <1>1, <1>3, <1>7, <2>1
  <2>2. CASE gone # None
    <3>1. r[gone] = ref[gone] /\ gone \in Packets /\ r[gone] - 1 \in 0 .. 2
      BY <1>1, <1>2, <1>3, <1>4, <1>6, <2>2
    <3>2. ref' = [r EXCEPT ![gone] = r[gone] - 1]
      BY <1>7, <2>2
    <3> QED BY <1>3, <3>1, <3>2
  <2> QED BY <2>1, <2>2
<1>9. ASSUME NEW x \in Packets
      PROVE  ref'[x] = (IF owned'[x] THEN 1 ELSE 0)
                       + (IF \E j \in Index : arp_table'[j].q = x THEN 1 ELSE 0)
  <2>0. ref[x] = (IF owned[x] THEN 1 ELSE 0)
                 + (IF \E j \in Index : arp_table[j].q = x THEN 1 ELSE 0)
    BY DEF AInv, Refs
  <2>1. CASE x = p
    <3>1. \E j \in Index : arp_table'[j].q = x
      BY <1>1, <2>1
    <3>2. x # gone
      BY <1>1, <1>6, <2>1
    <3>3. ref'[x] = 2
      BY <1>1, <1>4, <1>8, <2>1, <3>2, ZenonT(60)
    <3>4. owned'[x]
      BY <1>1, <1>4, <2>1
    <3> QED BY <3>1, <3>3, <3>4
  <2>2. CASE x = gone
    <3>1. gone = old /\ e.q # old
      BY <1>1, <2>2 DEF gone
    <3>2. ~\E j \in Index : arp_table'[j].q = x
      BY <1>1, <1>5, <2>2, <3>1
    <3>3. \E j \in Index : arp_table[j].q = x
      BY <2>2, <3>1
    <3> QED BY <1>1, <1>4, <1>6, <1>8, <2>0, <2>2, <3>2, <3>3
  <2>3. CASE x # p /\ x # gone
    <3>1. arp_table[i].q = x => e.q = x
      BY <1>1, <2>3 DEF gone
    <3>2. e.q = x => arp_table[i].q = x
      BY <1>1, <2>3
    <3>3. (\E j \in Index : arp_table'[j].q = x) <=> (\E j \in Index : arp_table[j].q = x)
      BY <3>1, <3>2
    <3>4. ref'[x] = ref[x] /\ owned'[x] = owned[x]
      BY <1>4, <1>8, <2>3, ZenonT(60)
    <3> QED BY <2>0, <3>3, <3>4
  <2> QED BY <2>1, <2>2, <2>3
<1> QED BY <1>3, <1>8, <1>9 DEF Refs, Index

\* Packets that wait in the table are known to go to the host of the entry.
LEMMA RewriteQueued ==
    ASSUME AInv, NEW i \in Index, NEW e \in Entry,
           arp_table'[i] = e, \A j \in Index \ {i} : arp_table'[j] = arp_table[j],
           e.q # None => /\ hop'[e.q] = e.ip
                         /\ \A j \in Index \ {i} : arp_table[j].q # e.q,
           \A j \in Index \ {i} : arp_table[j].q # None =>
                hop'[arp_table[j].q] = hop[arp_table[j].q]
    PROVE  Queued'
<1> SUFFICES ASSUME NEW j \in Index, arp_table'[j].q # None
             PROVE  /\ hop'[arp_table'[j].q] = arp_table'[j].ip
                    /\ \A k \in Index : arp_table'[j].q = arp_table'[k].q => j = k
  BY DEF Queued, Index
<1>1. CASE j = i
  BY <1>1
<1>2. CASE j # i
  BY <1>2 DEF AInv, Queued
<1> QED BY <1>1, <1>2

\* One host announced its address.
HeardOf(ip, mac) == Heard([x \in {ip} |-> mac])

\* What a message of host ip leaves of what was heard.
LEMMA HeardHost ==
    ASSUME TableOK, NEW ip \in Hosts, NEW mac \in Macs, HeardOf(ip, mac)
    PROVE  /\ heard' \in [Hosts -> Macs \cup {None}]
           /\ \A x \in Hosts, i \in Index : arp_table'[i].ip = x =>
                 heard'[x] = IF x = ip THEN mac ELSE heard[x]
<1> DEFINE h == [x \in {ip} |-> mac]
<1>1. \A x : x \in DOMAIN h <=> x = ip
  OBVIOUS
<1>2. h[ip] = mac
  OBVIOUS
<1>3. heard' = [x \in Hosts |->
                  IF \A i \in Index : arp_table'[i].ip # x THEN None
                  ELSE IF x = ip THEN mac ELSE heard[x]]
  BY <1>1, <1>2 DEF Heard, HeardOf
<1> QED BY <1>3 DEF TableOK

\* A packet without a route: only its sender keeps it.
LEMMA OutputNoRoute ==
    ASSUME AInv, NEW p \in Packets, NEW ip \in Hosts \cup {Far}, Sendable(p),
           owned' = [owned EXCEPT ![p] = TRUE], hop' = hop, ref' = [ref EXCEPT ![p] = 1],
           NextHop(ip) = None, sent' = {},
           UNCHANGED <<arp_table, etharp_cached_entry, use, gw>>, Heard(<<>>)
    PROVE  AInv'
<1>0. TableOK
  BY DEF AInv
<1>1. /\ heard' \in [Hosts -> Macs \cup {None}]
      /\ \A x \in Hosts, j \in Index : arp_table[j].ip = x => heard'[x] = heard[x]
  BY <1>0, HeardNothing
<1>2. \A j \in Index : arp_table[j].q # p
  BY SendableNotQueued
<1>3. TableOK'
  BY <1>0, <1>1 DEF TableOK, Index, Pending
<1>4. Entries' /\ Sent'
  BY DEF AInv, Entries, Sent, Index, Stable, Pending
<1>5. Told'
  <2> SUFFICES ASSUME NEW j \in Index, Stable(j)
               PROVE  arp_table[j].mac = heard'[arp_table[j].ip]
    BY DEF Told, Index, Stable
  <2>1. arp_table[j].state # EMPTY
    BY DEF Stable, StableStates, EMPTY, STABLE, REREQUESTING_1, REREQUESTING_2
  <2> QED BY <1>1, <2>1 DEF AInv, Entries, Told
<1>6. Queued'
  BY <1>0, <1>2 DEF AInv, TableOK, Entry, Queued, Index
<1>7. Refs'
  <2> SUFFICES ASSUME NEW x \in Packets
               PROVE  ref'[x] = (IF owned'[x] THEN 1 ELSE 0)
                          + (IF \E j \in Index : arp_table[j].q = x THEN 1 ELSE 0)
    BY DEF Refs, Index
  <2>1. CASE x = p
    BY <1>0, <1>2, <2>1 DEF TableOK
  <2>2. CASE x # p
    BY <1>0, <2>2 DEF AInv, TableOK, Refs
  <2> QED BY <2>1, <2>2
<1> QED BY <1>3, <1>4, <1>5, <1>6, <1>7 DEF AInv

\* Packets that wait keep their next hop, and so do those that never waited.
LEMMA WaitingHop ==
    ASSUME arp_table' \in [Index -> Entry], NEW h \in [Packets -> Hosts \cup {None}], Waiting(h)
    PROVE  /\ hop' \in [Packets -> Hosts \cup {None}]
           /\ \A j \in Index : arp_table'[j].q # None => hop'[arp_table'[j].q] = h[arp_table'[j].q]
           /\ \A p \in Packets : (\A j \in Index : arp_table[j].q # p) => hop'[p] = h[p]
<1>1. hop' = [p \in Packets |->
                IF /\ \E i \in Index : arp_table[i].q = p
                   /\ \A i \in Index : arp_table'[i].q # p
                THEN None ELSE h[p]]
  BY DEF Waiting
<1>2. \A j \in Index : arp_table'[j].q \in Packets \cup {None}
  BY DEF Entry
<1> QED BY <1>1, <1>2

\* One entry is rewritten and is not stable then; a packet p comes in, or none.
LEMMA Rewrite ==
    ASSUME AInv, NEW i \in Index, NEW e \in Entry,
           arp_table' = [arp_table EXCEPT ![i] = e],
           e.state = EMPTY => e.ip = None, e.state # EMPTY => e.ip \in Hosts,
           e.state \notin StableStates,
           e.q # None => e.state = PENDING,
           e.state = PENDING => e.ctime < ARP_MAXPENDING,
           e.ip # None => \A j \in Index \ {i} : arp_table[j].ip # e.ip,
           NEW p \in Packets \cup {None}, \A j \in Index : p # None => arp_table[j].q # p,
           e.q = p \/ (p = None /\ e.q = arp_table[i].q),
           arp_table[i].ip = e.ip \/ e.q = p,
           RefsAfter(p, arp_table[i].q, e.q),
           hop' \in [Packets -> Hosts \cup {None}],
           \A j \in Index : arp_table'[j].q # None =>
              hop'[arp_table'[j].q] = IF arp_table'[j].q = p THEN e.ip ELSE hop[arp_table'[j].q],
           heard' \in [Hosts -> Macs \cup {None}],
           \A x \in Hosts, j \in Index : arp_table'[j].ip = x => heard'[x] = heard[x],
           use' \in [Index -> UseType], sent' = {}, UNCHANGED <<etharp_cached_entry, gw>>
    PROVE  AInv'
<1>0. TableOK /\ None \notin Packets
  BY ArpAssumption DEF AInv
<1>1. /\ arp_table' \in [Index -> Entry]
      /\ arp_table'[i] = e /\ \A j \in Index \ {i} : arp_table'[j] = arp_table[j]
      /\ \A j \in Index : Pending(j)' => arp_table'[j].ctime < ARP_MAXPENDING
      /\ Entries'
  BY RewriteEntry
<1>2. ref' \in [Packets -> 0 .. 2] /\ owned' \in [Packets -> BOOLEAN] /\ Refs'
  BY <1>1, RewriteRefs
<1>3. Queued'
  <2>1. e.q # None => hop'[e.q] = e.ip
    <3>1. CASE e.q = p
      BY <1>1, <3>1
    <3>2. CASE e.q # p /\ e.q # None
      <4>1. hop'[e.q] = hop[e.q] /\ e.q = arp_table[i].q /\ arp_table[i].ip = e.ip
        BY <1>1, <3>2
      <4> QED BY <3>2, <4>1 DEF AInv, Queued
    <3> QED BY <3>1, <3>2
  <2>2. e.q # None => \A j \in Index \ {i} : arp_table[j].q # e.q
    BY DEF AInv, Queued
  <2>3. \A j \in Index \ {i} : arp_table[j].q # None =>
                hop'[arp_table[j].q] = hop[arp_table[j].q]
    BY <1>0, <1>1
  <2> QED BY <1>1, <2>1, <2>2, <2>3, RewriteQueued
<1>4. TableOK'
  <2>1. etharp_cached_entry' \in Index /\ gw' \in Gateways \cup {None}
    BY <1>0 DEF TableOK
  <2>2. sent' \in SUBSET ((Hosts \cup {None}) \X (Macs \cup {None}))
    OBVIOUS
  <2> QED BY <1>1, <1>2, <2>1, <2>2 DEF TableOK, UseType, Index, Entry
<1>5. Told'
  <2> SUFFICES ASSUME NEW j \in Index, Stable(j)'
               PROVE  arp_table'[j].mac = heard'[arp_table'[j].ip]
    BY DEF Told, Index
  <2>1. j # i
    BY <1>1 DEF Stable
  <2>2. Stable(j) /\ arp_table[j].state # EMPTY
    BY <1>1, <2>1 DEF Stable, StableStates, EMPTY, STABLE, REREQUESTING_1, REREQUESTING_2
  <2> QED BY <1>1, <2>1, <2>2 DEF AInv, Entries, Told
<1>6. Sent'
  BY DEF Sent
<1> QED BY <1>1, <1>2, <1>3, <1>4, <1>5, <1>6 DEF AInv

\* The counts r and the next hops h when the packet p comes in for the host ip.
Comes(p, ip, r, h) ==
    /\ r = IF p = None THEN ref ELSE [ref EXCEPT ![p] = 2]
    /\ owned' = IF p = None THEN owned ELSE [owned EXCEPT ![p] = TRUE]
    /\ h \in [Packets -> Hosts \cup {None}]
    /\ p # None => h[p] = ip
    /\ \A x \in Packets \ {p} : h[x] = hop[x]

\* etharp_query() for a host without a stable entry, with a packet or without.
LEMMA Query ==
    ASSUME AInv, NEW ip \in Hosts, \A j \in Index : ~(Stable(j) /\ arp_table[j].ip = ip),
           NEW p \in Packets \cup {None},
           \A j \in Index : p # None => arp_table[j].q # p,
           NEW r, NEW h, Comes(p, ip, r, h), etharp_query(ip, p, r), Waiting(h),
           gw' = gw, Heard(<<>>)
    PROVE  AInv'
<1> DEFINE i == find_entry(ip)
           old == arp_table[i]
           new == i \notin Matching(ip)
           e == [state |-> PENDING, ip |-> ip, mac |-> None,
                 ctime |-> IF new THEN 0 ELSE old.ctime,
                 q |-> IF p # None THEN p ELSE IF new THEN None ELSE old.q]
<1>0. /\ TableOK /\ ip # None /\ None \notin Packets
      /\ h \in [Packets -> Hosts \cup {None}]
      /\ p # None => h[p] = ip
      /\ \A x \in Packets \ {p} : h[x] = hop[x]
  BY ArpAssumption DEF AInv, Comes
<1>1. i \in Index /\ old \in Entry
  BY <1>0, FindEntry DEF TableOK
<1>2. ~new => Pending(i) /\ old.ip = ip
  BY <1>0, <1>1 DEF Matching, AInv, TableOK, Entry, Stable, Pending
<1>3. e \in Entry
  BY <1>0, <1>1, ArpAssumption DEF Entry
<1>4. arp_table' = [arp_table EXCEPT ![i] = e]
  BY DEF etharp_query
<1>5. /\ e.ip = ip /\ e.state = PENDING
      /\ e.q = p \/ (p = None /\ e.q = old.q)
      /\ e.ctime < ARP_MAXPENDING
  BY <1>0, <1>1, <1>2, ArpAssumption DEF TableOK
<1>6. ref' = pbuf_free(r, IF e.q = old.q THEN None ELSE old.q)
  <2>1. CASE new \/ p # None
    <3>1. ref' = pbuf_free(r, old.q)
      BY <2>1 DEF etharp_query
    <3>2. e.q = old.q => old.q = None
      BY <1>1, <2>1
    <3> QED BY <3>1, <3>2
  <2>2. CASE ~(new \/ p # None)
    <3>1. ref' = r /\ e.q = old.q
      BY <2>2 DEF etharp_query
    <3> QED BY <3>1 DEF pbuf_free
  <2> QED BY <2>1, <2>2
<1>7. use' = [use EXCEPT ![i] = Unused] /\ sent' = {} /\ etharp_cached_entry' = etharp_cached_entry
  BY DEF etharp_query
<1>8. \A j \in Index \ {i} : arp_table[j].ip # ip
  BY FoundAlone
<1>a. PICK n \in Index, c \in Entry : n = i /\ c = e
  BY <1>1, <1>3
<1> HIDE DEF i, new, e
<1>10. /\ arp_table' = [arp_table EXCEPT ![n] = c] /\ c.ip = ip /\ c.state = PENDING
       /\ c.ctime < ARP_MAXPENDING
       /\ c.q = p \/ (p = None /\ c.q = arp_table[n].q)
       /\ \A j \in Index \ {n} : arp_table[j].ip # c.ip
  BY <1>a, <1>4, <1>5, <1>8
<1>11. RefsAfter(p, arp_table[n].q, c.q)
  BY <1>a, <1>6, Zenon DEF RefsAfter, Comes
<1>12. arp_table' \in [Index -> Entry]
  BY <1>0, <1>10 DEF TableOK
<1>13. /\ hop' \in [Packets -> Hosts \cup {None}]
       /\ \A j \in Index : arp_table'[j].q # None => hop'[arp_table'[j].q] = h[arp_table'[j].q]
  BY <1>0, <1>12, WaitingHop
<1>14. \A j \in Index : arp_table'[j].q # None =>
          hop'[arp_table'[j].q] = IF arp_table'[j].q = p THEN c.ip ELSE hop[arp_table'[j].q]
  <2>1. \A j \in Index : arp_table'[j].q \in Packets \cup {None}
    BY <1>12 DEF Entry
  <2> QED BY <1>0, <1>10, <1>13, <2>1
<1>15. arp_table[n].ip = c.ip \/ c.q = p
  BY <1>a, <1>2, <1>10 DEF e, new
<1>16. /\ heard' \in [Hosts -> Macs \cup {None}]
       /\ \A x \in Hosts, j \in Index : arp_table'[j].ip = x => heard'[x] = heard[x]
  BY <1>0, HeardNothing
<1>17. /\ use' \in [Index -> UseType] /\ sent' = {}
       /\ UNCHANGED <<etharp_cached_entry, gw>>
  BY <1>0, <1>7, UseValues DEF TableOK, UseType
<1>18. c.state # EMPTY /\ c.state \notin StableStates
  BY <1>10 DEF StableStates, PENDING, EMPTY, STABLE, REREQUESTING_1, REREQUESTING_2
<1> QED BY <1>10, <1>11, <1>13, <1>14, <1>15, <1>16, <1>17, <1>18, Rewrite

\* The sender gives up its reference.
LEMMA ReleaseAInv ==
    ASSUME AInv, NEW p \in Packets, Release(p)
    PROVE  AInv'
<1>0. TableOK /\ None \notin Packets
  BY ArpAssumption DEF AInv
<1>1. /\ owned[p] /\ owned' = [owned EXCEPT ![p] = FALSE]
      /\ ref' = [ref EXCEPT ![p] = IF ref[p] = 0 THEN 0 ELSE ref[p] - 1]
      /\ sent' = {} /\ UNCHANGED <<arp_table, etharp_cached_entry, gw, hop, heard, use>>
  BY <1>0 DEF Release, pbuf_free
<1>2. ref[p] = 1 + (IF \E j \in Index : arp_table[j].q = p THEN 1 ELSE 0)
  BY <1>1 DEF AInv, Refs
<1>a. (IF ref[p] = 0 THEN 0 ELSE ref[p] - 1) = ref[p] - 1
  BY <1>2
<1>3. TableOK'
  <2>1. ref' \in [Packets -> 0 .. 2]
    <3>1. ref[p] - 1 \in 0 .. 2
      BY <1>2
    <3> QED BY <1>0, <1>1, <1>a, <3>1 DEF TableOK
  <2>2. owned' \in [Packets -> BOOLEAN] /\ hop' \in [Packets -> Hosts \cup {None}]
    BY <1>0, <1>1 DEF TableOK
  <2> QED BY <1>0, <1>1, <2>1, <2>2 DEF TableOK, Index, Pending
<1>4. Entries' /\ Told' /\ Sent'
  BY <1>1 DEF AInv, Entries, Told, Sent, Index, Stable, Pending
<1>5. Queued'
  BY <1>0, <1>1, <1>2 DEF AInv, TableOK, Entry, Queued, Index
<1>6. Refs'
  <2> SUFFICES ASSUME NEW x \in Packets
               PROVE  ref'[x] = (IF owned'[x] THEN 1 ELSE 0)
                          + (IF \E j \in Index : arp_table[j].q = x THEN 1 ELSE 0)
    BY <1>1 DEF Refs, Index
  <2>1. CASE x = p
    <3>1. ref'[x] = ref[p] - 1 /\ owned'[x] = FALSE
      BY <1>0, <1>1, <1>a, <2>1 DEF TableOK
    <3> QED BY <1>2, <2>1, <3>1
  <2>2. CASE x # p
    <3>1. ref'[x] = ref[x] /\ owned'[x] = owned[x]
      BY <1>0, <1>1, <2>2 DEF TableOK
    <3> QED BY <3>1 DEF AInv, Refs
  <2> QED BY <2>1, <2>2
<1> QED BY <1>3, <1>4, <1>5, <1>6 DEF AInv

\* An ARP message that finds or makes an entry.
LEMMA UpdateAInv ==
    ASSUME AInv, NEW ip \in Hosts, NEW mac \in Macs,
           update_arp_entry(find_entry(ip), ip, mac),
           Waiting(hop),
           HeardOf(ip, mac), UNCHANGED <<etharp_cached_entry, gw, owned>>
    PROVE  AInv'
<1> DEFINE e == [state |-> STABLE, ip |-> ip, mac |-> mac, ctime |-> 0, q |-> None]
<1>0. TableOK /\ ip # None /\ None \notin Packets /\ mac # None
  BY ArpAssumption DEF AInv
<1>1. PICK i \in Index : i = find_entry(ip)
  BY <1>0, FindEntry
<1>2. PICK c \in Entry : c = e
  <2>1. 0 \in 0 .. ARP_MAXAGE - 1 /\ STABLE \in {EMPTY, PENDING} \cup StableStates
    BY ArpAssumption DEF StableStates
  <2>2. e \in Entry
    BY <2>1 DEF Entry
  <2> QED BY <2>2
<1>3. /\ arp_table' = [arp_table EXCEPT ![i] = c]
      /\ ref' = pbuf_free(ref, arp_table[i].q)
      /\ use' = [use EXCEPT ![i] = Unused]
      /\ \/ sent' = {}
         \/ /\ i \in Matching(ip) /\ arp_table[i].q # None
            /\ sent' = {<<hop[arp_table[i].q], mac>>}
  BY <1>1, <1>2 DEF update_arp_entry
<1>4. c.ip = ip /\ c.state = STABLE /\ c.mac = mac /\ c.q = None
  BY <1>2
<1>5. \A j \in Index \ {i} : arp_table[j].ip # ip
  BY <1>1, FoundAlone
<1>6. /\ arp_table' \in [Index -> Entry]
      /\ arp_table'[i] = c /\ \A j \in Index \ {i} : arp_table'[j] = arp_table[j]
      /\ \A j \in Index : Pending(j)' => arp_table'[j].ctime < ARP_MAXPENDING
      /\ Entries'
  <2>1. c.state # EMPTY /\ c.state # PENDING
    BY <1>4 DEF EMPTY, PENDING, STABLE
  <2> QED BY <1>3, <1>4, <1>5, <2>1, RewriteEntry
<1>7. ref' \in [Packets -> 0 .. 2] /\ Refs'
  <2>1. c.q = None
    BY <1>4
  <2>2. ref' = pbuf_free(ref, IF None = arp_table[i].q THEN None ELSE arp_table[i].q)
    BY <1>3
  <2>3. None \in Packets \cup {None}
    OBVIOUS
  <2>4. RefsAfter(None, arp_table[i].q, c.q)
    BY <2>1, <2>2 DEF RefsAfter
  <2> QED BY <1>6, <2>1, <2>3, <2>4, RewriteRefs
<1>8. /\ hop' \in [Packets -> Hosts \cup {None}]
      /\ \A j \in Index : arp_table'[j].q # None =>
            hop'[arp_table'[j].q] = hop[arp_table'[j].q]
  BY <1>0, <1>6, WaitingHop DEF TableOK
<1>9. Queued'
  BY <1>4, <1>6, <1>8, RewriteQueued
<1>10. /\ heard' \in [Hosts -> Macs \cup {None}]
       /\ \A x \in Hosts, j \in Index : arp_table'[j].ip = x =>
             heard'[x] = IF x = ip THEN mac ELSE heard[x]
  BY <1>0, HeardHost
<1>11. sent' = {} \/ sent' = {<<ip, mac>>}
  BY <1>3 DEF Matching, AInv, Queued
<1>12. TableOK'
  <2>1. use' \in [Index -> UseType]
    BY <1>0, <1>3, UseValues DEF TableOK, UseType
  <2>2. sent' \in SUBSET ((Hosts \cup {None}) \X (Macs \cup {None}))
    BY <1>11
  <2> QED BY <1>0, <1>6, <1>7, <1>8, <1>10, <2>1, <2>2 DEF TableOK, UseType, Index, Entry
<1>13. Told'
  <2> SUFFICES ASSUME NEW j \in Index, Stable(j)'
               PROVE  arp_table'[j].mac = heard'[arp_table'[j].ip]
    BY DEF Told, Index
  <2>1. CASE j = i
    BY <1>4, <1>6, <1>10, <2>1
  <2>2. CASE j # i
    <3>1. Stable(j) /\ arp_table[j].state # EMPTY /\ arp_table[j].ip # ip
      BY <1>5, <1>6, <2>2 DEF Stable, StableStates, EMPTY, STABLE, REREQUESTING_1, REREQUESTING_2
    <3> QED BY <1>6, <1>10, <2>2, <3>1 DEF AInv, Entries, Told
  <2> QED BY <2>1, <2>2
<1>14. Sent'
  BY <1>4, <1>6, <1>10, <1>11 DEF Sent
<1> QED BY <1>6, <1>7, <1>9, <1>12, <1>13, <1>14 DEF AInv

\* An ARP message of a host without an entry that is not for us.
LEMMA IgnoredAInv ==
    ASSUME AInv, NEW ip \in Hosts, NEW mac \in Macs, Matching(ip) = {},
           sent' = {}, UNCHANGED <<arp_table, ref, use>>,
           Waiting(hop),
           heard' \in [Hosts -> Macs \cup {None}],
           \A x \in Hosts, j \in Index : arp_table'[j].ip = x =>
                heard'[x] = IF x = ip THEN mac ELSE heard[x],
           UNCHANGED <<etharp_cached_entry, gw, owned>>
    PROVE  AInv'
<1>0. TableOK /\ ip # None
  BY ArpAssumption DEF AInv
<1>1. Entries' /\ Refs' /\ Sent'
  BY DEF AInv, Entries, Refs, Sent, Index, Stable, Pending
<1>2. /\ hop' \in [Packets -> Hosts \cup {None}]
      /\ \A j \in Index : arp_table'[j].q # None =>
            hop'[arp_table'[j].q] = hop[arp_table'[j].q]
  BY <1>0, WaitingHop DEF TableOK
<1>3. Queued'
  BY <1>2 DEF AInv, Queued, Index
<1>4. TableOK'
  BY <1>0, <1>2 DEF TableOK, Index, Pending
<1>5. Told'
  <2> SUFFICES ASSUME NEW j \in Index, Stable(j)
               PROVE  arp_table[j].mac = heard'[arp_table[j].ip]
    BY DEF Told, Index, Stable
  <2>1. arp_table[j].state # EMPTY
    BY DEF Stable, StableStates, EMPTY, STABLE, REREQUESTING_1, REREQUESTING_2
  <2>2. arp_table[j].ip # ip
    BY <2>1 DEF Matching
  <2> QED BY <2>1, <2>2 DEF AInv, Entries, Told
<1> QED BY <1>1, <1>3, <1>4, <1>5 DEF AInv

\* Any ARP message.
LEMMA InputAInv ==
    ASSUME AInv, NEW ip \in Hosts, NEW mac \in Macs, NEW for_us \in BOOLEAN,
           etharp_input(ip, mac, for_us)
    PROVE  AInv'
<1>1. /\ Waiting(hop)
      /\ HeardOf(ip, mac)
      /\ UNCHANGED <<etharp_cached_entry, gw, owned>>
  BY DEF etharp_input, HeardOf
<1>2. /\ heard' \in [Hosts -> Macs \cup {None}]
      /\ \A x \in Hosts, j \in Index : arp_table'[j].ip = x =>
            heard'[x] = IF x = ip THEN mac ELSE heard[x]
  BY <1>1, HeardHost DEF AInv
<1>3. CASE update_arp_entry(find_entry(ip), ip, mac)
  BY <1>1, <1>3, UpdateAInv
<1>4. CASE Matching(ip) = {} /\ sent' = {} /\ UNCHANGED <<arp_table, ref, use>>
  BY <1>1, <1>2, <1>4, IgnoredAInv
<1> QED BY <1>3, <1>4 DEF etharp_input

\* Sending a packet, in its three ways.
LEMMA OutputAInv ==
    ASSUME AInv, NEW p \in Packets, NEW ip \in Hosts \cup {Far}, etharp_output(p, ip)
    PROVE  AInv'
<1>1. /\ Sendable(p) /\ owned' = [owned EXCEPT ![p] = TRUE]
      /\ Heard(<<>>) /\ gw' = gw
  BY DEF etharp_output
<1>2. CASE /\ NextHop(ip) = None /\ ref' = [ref EXCEPT ![p] = 1] /\ sent' = {}
           /\ UNCHANGED <<arp_table, etharp_cached_entry, hop, use>>
  BY <1>1, <1>2, OutputNoRoute
<1>3. CASE \E i \in StableEntry(NextHop(ip)), ok \in BOOLEAN :
              /\ output_to_arp_index(i, NextHop(ip), ok)
              /\ ref' = [ref EXCEPT ![p] = 1]
              /\ hop' = hop
  BY <1>1, <1>3, OutputStable
<1>4. CASE /\ NextHop(ip) # None /\ StableEntry(NextHop(ip)) = {}
           /\ etharp_query(NextHop(ip), p, [ref EXCEPT ![p] = 2])
           /\ Waiting([hop EXCEPT ![p] = NextHop(ip)])
  <2>0. TableOK /\ None \notin Packets
    BY ArpAssumption DEF AInv
  <2>1. PICK h \in Hosts : h = NextHop(ip)
    BY <1>4, <2>0, NextHopType
  <2>2. \A j \in Index : ~(Stable(j) /\ arp_table[j].ip = h)
    BY <1>4, <2>1, NoStableEntry
  <2>3. \A j \in Index : arp_table[j].q # p
    BY <1>1, SendableNotQueued
  <2>4. PICK r : r = [ref EXCEPT ![p] = 2]
    OBVIOUS
  <2>5. PICK g : g = [hop EXCEPT ![p] = h]
    OBVIOUS
  <2>6. Comes(p, h, r, g)
    BY <1>1, <2>0, <2>4, <2>5 DEF TableOK, Comes
  <2>7. etharp_query(h, p, r) /\ Waiting(g)
    BY <1>4, <2>1, <2>4, <2>5
  <2> QED BY <1>1, <2>2, <2>3, <2>6, <2>7, Query
<1> QED BY <1>2, <1>3, <1>4 DEF etharp_output

\* A query without a packet.
LEMMA CheckAInv ==
    ASSUME AInv, NEW ip \in Hosts, dhcp_check(ip)
    PROVE  AInv'
<1>0. TableOK
  BY DEF AInv
<1>1. /\ etharp_query(ip, None, ref) /\ Heard(<<>>) /\ gw' = gw
      /\ owned' = owned /\ Waiting(hop)
  BY DEF dhcp_check
<1>2. \A j \in Index : ~(Stable(j) /\ arp_table[j].ip = ip)
  BY DEF dhcp_check, Matching, Stable, Pending, StableStates, EMPTY, PENDING, STABLE,
         REREQUESTING_1, REREQUESTING_2
<1>3. None \in Packets \cup {None}
  OBVIOUS
<1>4. Comes(None, ip, ref, hop)
  BY <1>0, <1>1 DEF TableOK, Comes
<1> QED BY <1>1, <1>2, <1>3, <1>4, Query

\* The gateway changes; packets that wait keep the next hop they have.
LEMMA GatewayAInv ==
    ASSUME AInv, NEW g \in Gateways \cup {None}, netif_set_gw(g)
    PROVE  AInv'
<1>1. /\ gw' = g /\ sent' = {}
      /\ UNCHANGED <<arp_table, etharp_cached_entry, ref, owned, hop, heard, use>>
  BY DEF netif_set_gw
<1>2. TableOK'
  BY <1>1 DEF AInv, TableOK, Index, Pending
<1>3. Entries' /\ Told' /\ Queued' /\ Refs' /\ Sent'
  BY <1>1 DEF AInv, Entries, Told, Queued, Refs, Sent, Index, Stable, Pending
<1> QED BY <1>2, <1>3 DEF AInv

\* The table one tick later: an entry goes, or keeps all but its age and the
\* stage of its rerequest.
LEMMA TimerTable ==
    ASSUME TableOK, arp_table' = [i \in Index |-> Aged(arp_table[i])], NEW i \in Index
    PROVE  /\ arp_table'[i] \in Entry
           /\ Pending(i)' => arp_table'[i].ctime < ARP_MAXPENDING
           /\ arp_table[i].state # EMPTY /\ Expired(arp_table[i]) => arp_table'[i] = NoEntry
           /\ ~(arp_table[i].state # EMPTY /\ Expired(arp_table[i])) =>
                 /\ arp_table'[i].ip = arp_table[i].ip /\ arp_table'[i].mac = arp_table[i].mac
                 /\ arp_table'[i].q = arp_table[i].q
                 /\ (Stable(i)' <=> Stable(i)) /\ (Pending(i)' <=> Pending(i))
                 /\ (arp_table'[i].state = EMPTY <=> arp_table[i].state = EMPTY)
<1> DEFINE e == arp_table[i]
           f == arp_table'[i]
<1>1. e \in Entry /\ f = Aged(e)
  BY DEF TableOK
<1>2. e.ctime \in 0 .. ARP_MAXAGE - 1 /\ ARP_MAXAGE \in Nat /\ ARP_MAXPENDING \in Nat
  BY <1>1, ArpAssumption DEF Entry
<1>3. (Pending(i) <=> e.state = PENDING) /\ (Pending(i)' <=> f.state = PENDING)
      /\ (Stable(i) <=> e.state \in StableStates) /\ (Stable(i)' <=> f.state \in StableStates)
  BY DEF Pending, Stable, Index
<1>4. CASE e.state = EMPTY
  <2>1. f = e
    BY <1>1, <1>4, AgedIs
  <2> QED BY <1>1, <1>3, <1>4, <2>1 DEF EMPTY, PENDING
<1>5. CASE e.state # EMPTY /\ Expired(e)
  <2>1. f = NoEntry
    BY <1>1, <1>5, AgedIs
  <2>2. NoEntry \in Entry /\ NoEntry.state # PENDING
    BY <1>2, ArpAssumption DEF NoEntry, Entry, EMPTY, PENDING
  <2> QED BY <1>3, <1>5, <2>1, <2>2
<1>6. CASE e.state # EMPTY /\ ~Expired(e)
  <2>1. f = [state |-> IF e.state = REREQUESTING_1 THEN REREQUESTING_2
                       ELSE IF e.state = REREQUESTING_2 THEN STABLE
                       ELSE e.state,
             ip |-> e.ip, mac |-> e.mac, ctime |-> e.ctime + 1, q |-> e.q]
    BY <1>1, <1>6, AgedIs
  <2>2. /\ e.ctime + 1 \in 0 .. ARP_MAXAGE - 1
        /\ e.state = PENDING => e.ctime + 1 < ARP_MAXPENDING
    BY <1>2, <1>6 DEF Expired
  <2>3. /\ f.state \in {EMPTY, PENDING} \cup StableStates
        /\ f.state \in StableStates <=> e.state \in StableStates
        /\ f.state = PENDING <=> e.state = PENDING
        /\ f.state # EMPTY
    BY <1>1, <1>6, <2>1 DEF Entry, StableStates, PENDING, EMPTY, STABLE, REREQUESTING_1,
                            REREQUESTING_2
  <2>4. /\ f.ip = e.ip /\ f.mac = e.mac /\ f.q = e.q /\ f.ctime = e.ctime + 1
    BY <2>1
  <2>5. f \in Entry
    <3> DEFINE s == f.state
    <3>1. f = [state |-> s, ip |-> e.ip, mac |-> e.mac, ctime |-> e.ctime + 1, q |-> e.q]
      BY <2>1
    <3>2. s \in {EMPTY, PENDING} \cup StableStates
      BY <2>3
    <3> HIDE DEF s, f
    <3> QED BY <1>1, <2>2, <3>1, <3>2 DEF Entry
  <2> QED BY <1>3, <1>6, <2>2, <2>3, <2>4, <2>5
<1> QED BY <1>4, <1>5, <1>6

\* The references one tick later.
LEMMA TimerRefs ==
    ASSUME AInv, etharp_tmr
    PROVE  ref' \in [Packets -> 0 .. 2] /\ Refs'
<1> DEFINE goes == {i \in Index : arp_table[i].state # EMPTY /\ Expired(arp_table[i])}
<1>0. TableOK /\ None \notin Packets /\ ref \in [Packets -> 0 .. 2]
  BY ArpAssumption DEF AInv, TableOK
<1>1. /\ ref' = [p \in Packets |->
                    IF \E i \in goes : arp_table[i].q = p THEN pbuf_free(ref, p)[p]
                    ELSE ref[p]]
      /\ arp_table' = [i \in Index |-> Aged(arp_table[i])] /\ owned' = owned
  BY DEF etharp_tmr
<1>2. \A i \in Index : /\ i \in goes => arp_table'[i].q = None
                       /\ i \notin goes => arp_table'[i].q = arp_table[i].q
  BY <1>0, <1>1, TimerTable DEF NoEntry
<1> HIDE DEF goes
<1>3. ASSUME NEW x \in Packets
      PROVE  /\ ref'[x] \in 0 .. 2
             /\ ref'[x] = (IF owned'[x] THEN 1 ELSE 0)
                          + (IF \E j \in Index : arp_table'[j].q = x THEN 1 ELSE 0)
  <2>0. ref[x] = (IF owned[x] THEN 1 ELSE 0)
                 + (IF \E j \in Index : arp_table[j].q = x THEN 1 ELSE 0)
    BY DEF AInv, Refs
  <2>1. CASE \E i \in goes : arp_table[i].q = x
    <3>1. PICK i \in goes : arp_table[i].q = x
      BY <2>1
    <3>2. i \in Index
      BY DEF goes
    <3>0. ref[x] # 0
      BY <2>0, <3>1, <3>2
    <3>3. ref'[x] = ref[x] - 1
      <4>1. ref'[x] = pbuf_free(ref, x)[x]
        BY <1>1, <2>1
      <4>2. pbuf_free(ref, x) = [ref EXCEPT ![x] = IF ref[x] = 0 THEN 0 ELSE ref[x] - 1]
        BY <1>0 DEF pbuf_free
      <4> QED BY <1>0, <3>0, <4>1, <4>2
    <3>4. \A j \in Index : j # i => arp_table[j].q # x
      BY <1>0, <3>1, <3>2 DEF AInv, Queued
    <3>5. ~\E j \in Index : arp_table'[j].q = x
      BY <1>0, <1>2, <3>1, <3>4
    <3>6. \E j \in Index : arp_table[j].q = x
      BY <3>1, <3>2
    <3>7. owned'[x] = owned[x]
      BY <1>1
    <3> QED BY <2>0, <3>3, <3>5, <3>6, <3>7
  <2>2. CASE ~\E i \in goes : arp_table[i].q = x
    <3>1. ref'[x] = ref[x] /\ owned'[x] = owned[x] /\ ref[x] \in 0 .. 2
      BY <1>0, <1>1, <2>2
    <3>2. (\E j \in Index : arp_table'[j].q = x) <=> (\E j \in Index : arp_table[j].q = x)
      BY <1>0, <1>2, <2>2
    <3> QED BY <2>0, <3>1, <3>2
  <2> QED BY <2>1, <2>2
<1>4. ref' \in [Packets -> 0 .. 2]
  <2>1. ref' = [p \in Packets |-> ref'[p]]
    BY <1>1
  <2> QED BY <1>3, <2>1
<1> QED BY <1>3, <1>4 DEF Refs, Index

\* The history of use one tick later.
LEMMA TimerUse ==
    ASSUME TableOK, etharp_tmr, NEW i \in Index
    PROVE  /\ use'[i] \in UseType
           /\ \/ arp_table[i].state # EMPTY /\ Expired(arp_table[i])
              \/ use'[i] = Unsteady
              \/ /\ use[i].used \/ (use[i].steady /\ ~Ageing(i))
                 /\ use'[i] = NextSecond(use[i])
           /\ arp_table[i].state # EMPTY /\ Expired(arp_table[i]) => use'[i] = Unused
<1> DEFINE u == use[i]
<1>1. u \in UseType
  BY DEF TableOK, UseType
<1>2. \/ arp_table[i].state # EMPTY /\ Expired(arp_table[i])
      \/ use'[i] = Unsteady
      \/ /\ use[i].used \/ (use[i].steady /\ ~Ageing(i))
         /\ use'[i] = NextSecond(u)
  BY DEF etharp_tmr
<1>3. arp_table[i].state # EMPTY /\ Expired(arp_table[i]) => use'[i] = Unused
  BY DEF etharp_tmr
<1>4. NextSecond(u) \in UseType
  BY <1>1 DEF NextSecond, UseType
<1> QED BY <1>2, <1>3, <1>4, UseValues

LEMMA TimerAInv ==
    ASSUME AInv, etharp_tmr
    PROVE  AInv'
<1>0. TableOK
  BY DEF AInv
<1>1. /\ arp_table' = [i \in Index |-> Aged(arp_table[i])] /\ sent' = {} /\ Heard(<<>>)
      /\ Waiting(hop)
      /\ UNCHANGED <<etharp_cached_entry, gw, owned>>
  BY DEF etharp_tmr
<1>2. \A i \in Index :
         /\ arp_table'[i] \in Entry
         /\ Pending(i)' => arp_table'[i].ctime < ARP_MAXPENDING
         /\ \/ arp_table'[i] = NoEntry
            \/ /\ arp_table'[i].ip = arp_table[i].ip /\ arp_table'[i].mac = arp_table[i].mac
               /\ arp_table'[i].q = arp_table[i].q
               /\ (Stable(i)' <=> Stable(i)) /\ (Pending(i)' <=> Pending(i))
               /\ (arp_table'[i].state = EMPTY <=> arp_table[i].state = EMPTY)
  BY <1>0, <1>1, TimerTable
<1>3. arp_table' \in [Index -> Entry]
  BY <1>1, <1>2
<1>4. ref' \in [Packets -> 0 .. 2] /\ Refs'
  BY TimerRefs
<1>5. /\ hop' \in [Packets -> Hosts \cup {None}]
      /\ \A j \in Index : arp_table'[j].q # None =>
            hop'[arp_table'[j].q] = hop[arp_table'[j].q]
  BY <1>0, <1>1, <1>3, WaitingHop DEF TableOK
<1>6. /\ heard' \in [Hosts -> Macs \cup {None}]
      /\ \A x \in Hosts, j \in Index : arp_table'[j].ip = x => heard'[x] = heard[x]
  BY <1>0, <1>1, HeardNothing
<1>7. TableOK'
  <2>1. use' \in [Index -> UseType]
    <3>1. use' = [i \in Index |-> use'[i]]
      BY DEF etharp_tmr
    <3>2. \A i \in Index : use'[i] \in UseType
      BY <1>0, TimerUse
    <3> QED BY <3>1, <3>2
  <2>2. sent' \in SUBSET ((Hosts \cup {None}) \X (Macs \cup {None}))
    BY <1>1
  <2> QED BY <1>0, <1>1, <1>2, <1>3, <1>4, <1>5, <1>6, <2>1, <2>2 DEF TableOK, UseType, Index, Entry
<1>8. \A i \in Index : arp_table'[i] = NoEntry =>
         /\ arp_table'[i].state = EMPTY /\ arp_table'[i].ip = None /\ arp_table'[i].q = None
         /\ ~Stable(i)'
  BY DEF NoEntry, Stable, StableStates, EMPTY, STABLE, REREQUESTING_1, REREQUESTING_2, Index
<1>9. Entries'
  <2> SUFFICES ASSUME NEW j \in Index
               PROVE  /\ arp_table'[j].state = EMPTY => arp_table'[j].ip = None
                      /\ arp_table'[j].state # EMPTY => arp_table'[j].ip \in Hosts
                      /\ Stable(j)' => arp_table'[j].mac \in Macs
                      /\ arp_table'[j].q # None => Pending(j)'
                      /\ \A k \in Index :
                            arp_table'[j].ip # None /\ arp_table'[j].ip = arp_table'[k].ip => j = k
    BY DEF Entries, Index
  <2> QED BY <1>2, <1>8 DEF AInv, Entries
<1>10. Told'
  <2> SUFFICES ASSUME NEW j \in Index, Stable(j)'
               PROVE  arp_table'[j].mac = heard'[arp_table'[j].ip]
    BY DEF Told, Index
  <2>1. Stable(j) /\ arp_table[j].state # EMPTY /\ arp_table'[j].ip = arp_table[j].ip
        /\ arp_table'[j].mac = arp_table[j].mac
    BY <1>2, <1>8 DEF Stable, StableStates, EMPTY, STABLE, REREQUESTING_1, REREQUESTING_2
  <2> QED BY <1>6, <2>1 DEF AInv, Entries, Told
<1>11. Queued'
  <2> SUFFICES ASSUME NEW j \in Index, arp_table'[j].q # None
               PROVE  /\ hop'[arp_table'[j].q] = arp_table'[j].ip
                      /\ \A k \in Index : arp_table'[j].q = arp_table'[k].q => j = k
    BY DEF Queued, Index
  <2> QED BY <1>2, <1>5, <1>8 DEF AInv, Queued
<1>12. Sent'
  BY <1>1 DEF Sent
<1> QED BY <1>4, <1>7, <1>9, <1>10, <1>11, <1>12 DEF AInv

-----------------------------------------------------------------------------
\* The invariance of AInv: every operation of etharp.c keeps the table, the
\* references and the histories consistent.
LEMMA TableAInv ==
    ASSUME AInv, NEW P \in SUBSET Packets, TableNext(P)
    PROVE  AInv'
<1>1. ASSUME NEW p \in Packets, NEW ip \in Hosts \cup {Far}, etharp_output(p, ip) PROVE AInv'
  BY <1>1, OutputAInv
<1>2. ASSUME NEW p \in Packets, Release(p) PROVE AInv'
  BY <1>2, ReleaseAInv
<1>3. ASSUME NEW ip \in Hosts, dhcp_check(ip) PROVE AInv'
  BY <1>3, CheckAInv
<1>4. ASSUME NEW g \in Gateways \cup {None}, netif_set_gw(g) PROVE AInv'
  BY <1>4, GatewayAInv
<1>5. ASSUME NEW ip \in Hosts, NEW mac \in Macs, NEW for_us \in BOOLEAN,
             etharp_input(ip, mac, for_us)
      PROVE  AInv'
  BY <1>5, InputAInv
<1>6. CASE etharp_tmr
  BY <1>6, TimerAInv
<1> QED BY <1>1, <1>2, <1>3, <1>4, <1>5, <1>6 DEF TableNext

-----------------------------------------------------------------------------
(* Rerequests                                                              *)

\* The numbers behind Asked.
LEMMA AskedTypes ==
    ASSUME NEW e \in Entry, NEW u \in UseType
    PROVE  /\ e.ctime \in 0 .. ARP_MAXAGE - 1
           /\ u.unicast \in 0 .. MinUnicast /\ u.broadcast \in 0 .. MinBroadcast
           /\ Covered(e, u) \in 0 .. 2
           /\ ARP_AGE_REREQUEST_USED_UNICAST \in Nat /\ ARP_AGE_REREQUEST_USED_BROADCAST \in Nat
           /\ ARP_MAXAGE \in Nat
           /\ ARP_AGE_REREQUEST_USED_UNICAST <= ARP_AGE_REREQUEST_USED_BROADCAST
           /\ ARP_AGE_REREQUEST_USED_BROADCAST < ARP_MAXAGE
           /\ MinUnicast \in Nat /\ MinBroadcast \in Nat
<1>1. /\ e.ctime \in 0 .. ARP_MAXAGE - 1
      /\ u.unicast \in 0 .. MinUnicast /\ u.broadcast \in 0 .. MinBroadcast
  BY DEF Entry, UseType
<1>2. Covered(e, u) \in 0 .. 2
  BY DEF Covered
<1> QED BY <1>1, <1>2, Minimums, ArpAssumption

\* An address just told was not asked for yet.
LEMMA AskedNew ==
    ASSUME NEW e \in Entry, e.state = STABLE, e.ctime = 0
    PROVE  Asked(e, Unused)
<1>1. Unused \in UseType /\ Unused.unicast = 0 /\ Unused.broadcast = 0 /\ ~Unused.used
  BY UseValues DEF Unused
<1>2. Covered(e, Unused) = 0 /\ e.state \notin {REREQUESTING_1, REREQUESTING_2}
  BY <1>1 DEF Covered, STABLE, REREQUESTING_1, REREQUESTING_2
<1>3. ARP_AGE_REREQUEST_USED_BROADCAST = 0 => MinUnicast = 0
  BY ArpAssumption DEF MinUnicast
<1>4. /\ ARP_AGE_REREQUEST_USED_UNICAST \in Nat /\ ARP_AGE_REREQUEST_USED_BROADCAST \in Nat
  BY ArpAssumption
<1> QED BY <1>1, <1>2, <1>3, <1>4 DEF Asked

\* A packet uses the entry e, which becomes f.
LEMMA AskedUsed ==
    ASSUME NEW e \in Entry, NEW u \in UseType, u.steady, Asked(e, u),
           e.state \in StableStates, NEW f \in Entry, f.ctime = e.ctime,
           NEW ucast \in BOOLEAN, NEW bcast \in BOOLEAN,
           bcast <=> e.state = STABLE /\ e.ctime >= ARP_AGE_REREQUEST_USED_BROADCAST,
           ucast <=> /\ e.state = STABLE /\ ~bcast
                     /\ e.ctime >= ARP_AGE_REREQUEST_USED_UNICAST,
           f.state = e.state \/ (f.state = REREQUESTING_1 /\ (ucast \/ bcast))
    PROVE  Asked(f, Used(u, ucast, bcast))
<1> DEFINE v == Used(u, ucast, bcast)
           c == e.ctime
<1>1. v \in UseType
  BY UseValues DEF UseType, Used
<1>2. /\ v.used
      /\ v.unicast = IF ucast THEN Count(u.unicast, MinUnicast) ELSE u.unicast
      /\ v.broadcast = IF bcast THEN Count(u.broadcast, MinBroadcast) ELSE u.broadcast
  BY DEF Used
<1> HIDE DEF v
<1>3. CASE e.state # STABLE
  <2>1. ~ucast /\ ~bcast /\ f.state = e.state /\ e.state \in {REREQUESTING_1, REREQUESTING_2}
    BY <1>3 DEF StableStates
  <2>2. Covered(f, v) = Covered(e, u)
    BY <2>1 DEF Covered, REREQUESTING_1, REREQUESTING_2
  <2> QED BY <1>2, <2>1, <2>2 DEF Asked, v
<1>4. CASE e.state = STABLE /\ c < ARP_AGE_REREQUEST_USED_UNICAST
  <2>1. ~ucast /\ ~bcast /\ f.state = e.state
    BY <1>4, AskedTypes
  <2>2. Covered(f, v) = 0
    BY <1>2, <1>4, <2>1, AskedTypes DEF Covered, STABLE, REREQUESTING_1, REREQUESTING_2
  <2>3. f.state \notin {REREQUESTING_1, REREQUESTING_2}
    BY <1>4, <2>1 DEF STABLE, REREQUESTING_1, REREQUESTING_2
  <2>4. v.unicast \in 0 .. MinUnicast
    BY <1>1 DEF UseType
  <2> QED BY <1>4, <2>2, <2>3, <2>4, AskedTypes DEF Asked, v
<1>5. CASE e.state = STABLE /\ c >= ARP_AGE_REREQUEST_USED_UNICAST
  <2>1. Covered(f, v) \in 0 .. 2 /\ Covered(e, u) \in 0 .. 2
    BY <1>1, AskedTypes
  <2>2. CASE c < ARP_AGE_REREQUEST_USED_BROADCAST
    <3>1. v.unicast = Count(u.unicast, MinUnicast)
      BY <1>2, <1>5, <2>2, AskedTypes
    <3>2. \/ v.unicast = MinUnicast
          \/ 2 * v.unicast >= c - ARP_AGE_REREQUEST_USED_UNICAST + 2
      <4>1. u.unicast = MinUnicast \/ 2 * u.unicast >= c - ARP_AGE_REREQUEST_USED_UNICAST + Covered(e, u)
        BY <2>2 DEF Asked
      <4> QED BY <2>1, <3>1, <4>1, AskedTypes DEF Count
    <3>3. v.unicast \in 0 .. MinUnicast
      BY <1>1 DEF UseType
    <3> QED BY <1>5, <2>1, <2>2, <3>2, <3>3, AskedTypes DEF Asked, v
  <2>3. CASE c >= ARP_AGE_REREQUEST_USED_BROADCAST
    <3>1. v.broadcast = Count(u.broadcast, MinBroadcast) /\ v.unicast = MinUnicast
      BY <1>2, <1>5, <2>3, AskedTypes DEF Asked
    <3>2. \/ v.broadcast = MinBroadcast
          \/ 2 * v.broadcast >= c - ARP_AGE_REREQUEST_USED_BROADCAST - 1 + 2
      <4>1. \/ u.broadcast = MinBroadcast
            \/ 2 * u.broadcast >= c - ARP_AGE_REREQUEST_USED_BROADCAST - 1 + Covered(e, u)
        BY <2>3 DEF Asked
      <4> QED BY <2>1, <3>1, <4>1, AskedTypes DEF Count
    <3>3. v.broadcast \in 0 .. MinBroadcast
      BY <1>1 DEF UseType
    <3> QED BY <1>5, <2>1, <2>3, <3>1, <3>2, <3>3, AskedTypes DEF Asked, v
  <2> QED BY <2>2, <2>3, AskedTypes
<1> QED BY <1>3, <1>4, <1>5, AskedTypes

\* One second of an entry in steady use.  The one that waited for an answer
\* accounts for one second less, the one that was used asked.
LEMMA AskedTick ==
    ASSUME NEW e \in Entry, NEW u \in UseType, Asked(e, u), e.state \in StableStates,
           u.used \/ e.ctime < ARP_AGE_REREQUEST_USED_UNICAST,
           NEW f \in Entry, f.ctime = e.ctime + 1,
           f.state = IF e.state = REREQUESTING_1 THEN REREQUESTING_2
                     ELSE IF e.state = REREQUESTING_2 THEN STABLE ELSE e.state
    PROVE  Asked(f, NextSecond(u))
<1> DEFINE v == NextSecond(u)
           c == e.ctime
           uni == ARP_AGE_REREQUEST_USED_UNICAST
           bro == ARP_AGE_REREQUEST_USED_BROADCAST
<1>1. v \in UseType /\ ~v.used /\ v.unicast = u.unicast /\ v.broadcast = u.broadcast
  BY DEF NextSecond, UseType
<1>2. c >= uni => Covered(f, v) + 1 <= Covered(e, u)
  <2>1. CASE e.state = REREQUESTING_1
    BY <1>1, <2>1 DEF Covered, STABLE, REREQUESTING_1, REREQUESTING_2
  <2>2. CASE e.state = REREQUESTING_2
    BY <1>1, <2>2 DEF Covered, STABLE, REREQUESTING_1, REREQUESTING_2
  <2>3. CASE e.state = STABLE
    <3>1. c >= uni => Covered(e, u) = 2
      BY <2>3, AskedTypes DEF Covered, STABLE, REREQUESTING_1, REREQUESTING_2
    <3>2. Covered(f, v) = 0
      BY <1>1, <2>3 DEF Covered, STABLE, REREQUESTING_1, REREQUESTING_2
    <3> QED BY <3>1, <3>2
  <2> QED BY <2>1, <2>2, <2>3 DEF StableStates
<1>3. c < uni => Covered(f, v) = 0 /\ f.state = STABLE
  BY <1>1, AskedTypes DEF Asked, Covered, StableStates, STABLE, REREQUESTING_1, REREQUESTING_2
<1>4. Covered(f, v) \in 0 .. 2 /\ Covered(e, u) \in 0 .. 2
  BY <1>1, AskedTypes
<1>5. f.state \in {REREQUESTING_1, REREQUESTING_2} => f.ctime >= uni
  BY <1>3, AskedTypes DEF STABLE, REREQUESTING_1, REREQUESTING_2
<1> HIDE DEF v
<1>6. f.ctime < bro => \/ v.unicast = MinUnicast
                       \/ 2 * v.unicast >= f.ctime - uni + Covered(f, v)
  <2> SUFFICES ASSUME f.ctime < bro, v.unicast # MinUnicast
               PROVE  2 * v.unicast >= f.ctime - uni + Covered(f, v)
    OBVIOUS
  <2>1. 2 * u.unicast >= c - uni + Covered(e, u)
    BY <1>1, AskedTypes DEF Asked
  <2>2. 2 * u.unicast >= c + 1 - uni + Covered(f, v)
    BY <1>2, <1>3, <1>4, <2>1, AskedTypes
  <2> QED BY <1>1, <1>4, <2>2, AskedTypes
<1>7. f.ctime >= bro => v.unicast = MinUnicast
  <2>1. CASE c >= bro
    BY <1>1, <2>1 DEF Asked
  <2>2. CASE c < bro /\ f.ctime >= bro
    <3>1. c + 1 = bro
      BY <2>2, AskedTypes
    <3>2. u.unicast = MinUnicast \/ 2 * u.unicast >= c - uni + Covered(e, u)
      BY <2>2 DEF Asked
    <3>3. c >= uni => 2 * u.unicast >= bro - uni \/ u.unicast = MinUnicast
      BY <1>2, <1>4, <3>1, <3>2, AskedTypes
    <3>4. c < uni => bro = uni
      BY <3>1, AskedTypes
    <3>5. bro = uni => MinUnicast = 0
      BY AskedTypes DEF MinUnicast
    <3>6. 2 * MinUnicast <= bro - uni
      BY Minimums
    <3>7. u.unicast = MinUnicast
      BY <3>3, <3>4, <3>5, <3>6, AskedTypes
    <3> QED BY <1>1, <3>7
  <2> QED BY <2>1, <2>2, AskedTypes
<1>8. f.ctime >= bro => \/ v.broadcast = MinBroadcast
                        \/ 2 * v.broadcast >= f.ctime - bro - 1 + Covered(f, v)
  <2> SUFFICES ASSUME f.ctime >= bro, v.broadcast # MinBroadcast
               PROVE  2 * v.broadcast >= f.ctime - bro - 1 + Covered(f, v)
    OBVIOUS
  <2>1. CASE c >= bro
    <3>1. 2 * u.broadcast >= c - bro - 1 + Covered(e, u)
      BY <1>1, <2>1 DEF Asked
    <3> QED BY <1>1, <1>2, <1>4, <2>1, <3>1, AskedTypes
  <2>2. CASE c < bro
    <3>1. Covered(f, v) <= 1
      BY <1>2, <1>3, <1>4, AskedTypes
    <3>2. u.broadcast \in Nat
      BY AskedTypes
    <3> QED BY <1>1, <1>4, <2>2, <3>1, <3>2, AskedTypes
  <2> QED BY <2>1, <2>2, AskedTypes
<1> QED BY <1>5, <1>6, <1>7, <1>8 DEF Asked, v

\* Nothing was used yet.
LEMMA InitRerequests == TableInit => Rerequests
BY DEF TableInit, Rerequests, Unused, NoEntry, Stable, StableStates, EMPTY, STABLE,
       REREQUESTING_1, REREQUESTING_2

\* One entry is rewritten with a history that begins anew.
LEMMA RewriteRerequests ==
    ASSUME AInv, Rerequests, NEW i \in Index, NEW e \in Entry,
           arp_table' = [arp_table EXCEPT ![i] = e], use' = [use EXCEPT ![i] = Unused],
           e.state \in {EMPTY, PENDING} \/ (e.state = STABLE /\ e.ctime = 0)
    PROVE  /\ Rerequests'
           /\ e.state # EMPTY => \A j \in Index : Stable(j) => arp_table'[j].state # EMPTY
<1>1. arp_table \in [Index -> Entry] /\ use \in [Index -> UseType]
  BY DEF AInv, TableOK, UseType
<1>2. /\ arp_table'[i] = e /\ use'[i] = Unused
      /\ \A j \in Index \ {i} : arp_table'[j] = arp_table[j] /\ use'[j] = use[j]
  BY <1>1
<1>3. ~Unused.used
  BY DEF Unused
<1>4. ASSUME NEW j \in Index
      PROVE  /\ use'[j].used => use'[j].steady
             /\ Stable(j)' /\ use'[j].steady => Asked(arp_table'[j], use'[j])
             /\ e.state # EMPTY /\ Stable(j) => arp_table'[j].state # EMPTY
  <2>1. CASE j = i
    <3>1. e.state = STABLE => Asked(e, Unused)
      BY AskedNew DEF STABLE, PENDING, EMPTY
    <3> QED BY <1>2, <1>3, <2>1, <3>1 DEF Stable, StableStates, EMPTY, PENDING, STABLE,
                                          REREQUESTING_1, REREQUESTING_2
  <2>2. CASE j # i
    BY <1>2, <2>2 DEF Rerequests, Stable, StableStates, EMPTY, STABLE, REREQUESTING_1,
                      REREQUESTING_2
  <2> QED BY <2>1, <2>2
<1> QED BY <1>4 DEF Rerequests, Index, Asked, Covered

\* etharp_query() takes an entry that waits or gives it up for another host.
LEMMA QueryRerequests ==
    ASSUME AInv, Rerequests, NEW ip \in Hosts, NEW p \in Packets \cup {None}, NEW r,
           \A j \in Index : ~(Stable(j) /\ arp_table[j].ip = ip), etharp_query(ip, p, r)
    PROVE  Rerequests' /\ \A j \in Index : Stable(j) => arp_table'[j].state # EMPTY
<1> DEFINE n == find_entry(ip)
           new == n \notin Matching(ip)
           d == [state |-> PENDING, ip |-> ip, mac |-> None,
                 ctime |-> IF new THEN 0 ELSE arp_table[n].ctime,
                 q |-> IF p # None THEN p ELSE IF new THEN None ELSE arp_table[n].q]
<1>1. n \in Index /\ arp_table[n] \in Entry
  BY FindEntry DEF AInv, TableOK
<1>2. d \in Entry
  BY <1>1, ArpAssumption DEF Entry
<1>3. PICK i \in Index, e \in Entry : i = n /\ e = d
  BY <1>1, <1>2
<1>4. /\ arp_table' = [arp_table EXCEPT ![i] = e] /\ use' = [use EXCEPT ![i] = Unused]
      /\ e.state = PENDING /\ e.state # EMPTY
  BY <1>3 DEF etharp_query, PENDING, EMPTY
<1> QED BY <1>4, RewriteRerequests

\* An ARP message makes its entry new.
LEMMA UpdateRerequests ==
    ASSUME AInv, Rerequests, NEW ip \in Hosts, NEW mac \in Macs,
           update_arp_entry(find_entry(ip), ip, mac)
    PROVE  Rerequests' /\ \A j \in Index : Stable(j) => arp_table'[j].state # EMPTY
<1> DEFINE d == [state |-> STABLE, ip |-> ip, mac |-> mac, ctime |-> 0, q |-> None]
<1>1. find_entry(ip) \in Index
  BY FindEntry DEF AInv
<1>2. 0 \in 0 .. ARP_MAXAGE - 1 /\ STABLE \in {EMPTY, PENDING} \cup StableStates
  BY ArpAssumption DEF StableStates
<1>3. d \in Entry
  BY <1>2 DEF Entry
<1>4. PICK i \in Index, e \in Entry : i = find_entry(ip) /\ e = d
  BY <1>1, <1>3
<1>5. /\ arp_table' = [arp_table EXCEPT ![i] = e] /\ use' = [use EXCEPT ![i] = Unused]
      /\ e.state = STABLE /\ e.ctime = 0 /\ e.state # EMPTY
  BY <1>4 DEF update_arp_entry, STABLE, EMPTY
<1> QED BY <1>5, RewriteRerequests

\* A packet goes out through the entry i, with the rerequest that is due.
LEMMA OutputRerequests ==
    ASSUME AInv, Rerequests, NEW i \in Index, Stable(i),
           \/ arp_table' = arp_table
           \/ /\ UnicastDue(arp_table[i]) \/ BroadcastDue(arp_table[i])
              /\ arp_table' = [arp_table EXCEPT ![i].state = REREQUESTING_1],
           use' = [use EXCEPT ![i] =
                      Used(use[i], UnicastDue(arp_table[i]), BroadcastDue(arp_table[i]))]
    PROVE  Rerequests' /\ \A j \in Index : Stable(j) => arp_table'[j].state # EMPTY
<1>0. TableOK /\ arp_table \in [Index -> Entry] /\ use \in [Index -> UseType]
  BY DEF AInv, TableOK, UseType
<1>1. PICK e \in Entry, u \in UseType : e = arp_table[i] /\ u = use[i]
  BY <1>0
<1>2. PICK bcast \in BOOLEAN : bcast = BroadcastDue(e)
  BY DEF BroadcastDue
<1>3. PICK ucast \in BOOLEAN : ucast = UnicastDue(e)
  BY DEF UnicastDue
<1>a. /\ bcast <=> e.state = STABLE /\ e.ctime >= ARP_AGE_REREQUEST_USED_BROADCAST
      /\ ucast <=> e.state = STABLE /\ ~bcast /\ e.ctime >= ARP_AGE_REREQUEST_USED_UNICAST
  BY <1>2, <1>3 DEF BroadcastDue, UnicastDue
<1>4. use' = [use EXCEPT ![i] = Used(use[i], ucast, bcast)]
  BY <1>1, <1>2, <1>3
<1>5. \/ arp_table' = arp_table
      \/ (ucast \/ bcast) /\ arp_table' = [arp_table EXCEPT ![i].state = REREQUESTING_1]
  BY <1>1, <1>2, <1>3
<1>6. \A j \in Index :
         /\ arp_table'[j] \in Entry /\ arp_table'[j].ctime = arp_table[j].ctime
         /\ (Stable(j)' = Stable(j)) /\ (arp_table'[j].state = EMPTY) = (arp_table[j].state = EMPTY)
  BY <1>0, <1>4, <1>5, OutputTable, ZenonT(60)
<1>7. /\ arp_table'[i].state = e.state
         \/ (arp_table'[i].state = REREQUESTING_1 /\ (ucast \/ bcast))
      /\ \A j \in Index \ {i} : arp_table'[j] = arp_table[j] /\ use'[j] = use[j]
      /\ use'[i] = Used(u, ucast, bcast)
  BY <1>0, <1>1, <1>4, <1>5 DEF Entry
<1>8. ASSUME NEW j \in Index
      PROVE  /\ use'[j].used => use'[j].steady
             /\ Stable(j)' /\ use'[j].steady => Asked(arp_table'[j], use'[j])
             /\ Stable(j) => arp_table'[j].state # EMPTY
  <2>1. Stable(j) => arp_table'[j].state # EMPTY
    BY <1>6 DEF Stable, StableStates, EMPTY, STABLE, REREQUESTING_1, REREQUESTING_2
  <2>2. CASE j = i /\ ~u.steady
    <3>1. use'[j] = u
      BY <1>7, <2>2 DEF Used
    <3> QED BY <1>1, <2>1, <2>2, <3>1 DEF Rerequests
  <2>3. CASE j = i /\ u.steady
    <3>1. Used(u, ucast, bcast).steady
      BY <2>3 DEF Used
    <3>2. PICK f \in Entry : f = arp_table'[i]
      BY <1>6
    <3>3. e.state \in StableStates /\ Asked(e, u)
      BY <1>1, <2>3 DEF Rerequests, Stable
    <3>4. Asked(f, Used(u, ucast, bcast))
      <4>1. f.ctime = e.ctime /\ (f.state = e.state \/ (f.state = REREQUESTING_1 /\ (ucast \/ bcast)))
        BY <1>1, <1>6, <1>7, <3>2
      <4> QED BY <1>a, <2>3, <3>3, <4>1, AskedUsed
    <3> QED BY <1>7, <2>1, <2>3, <3>1, <3>2, <3>4
  <2>4. CASE j # i
    BY <1>6, <1>7, <2>1, <2>4 DEF Rerequests
  <2> QED BY <2>2, <2>3, <2>4
<1> QED BY <1>8 DEF Rerequests, Index, Asked, Covered

\* A tick.  An entry in steady use that goes has its rerequests.
LEMMA TimerRerequests ==
    ASSUME AInv, Rerequests, etharp_tmr
    PROVE  /\ Rerequests'
           /\ \A i \in Index :
                 Stable(i) /\ arp_table'[i].state = EMPTY /\ use[i].steady /\ use[i].used =>
                    use[i].unicast >= MinUnicast /\ use[i].broadcast >= MinBroadcast
<1>0. /\ TableOK /\ arp_table \in [Index -> Entry] /\ use \in [Index -> UseType]
      /\ arp_table' = [i \in Index |-> Aged(arp_table[i])]
  BY DEF AInv, TableOK, UseType, etharp_tmr
<1>1. ASSUME NEW i \in Index
      PROVE  /\ use'[i].used => use'[i].steady
             /\ Stable(i)' /\ use'[i].steady => Asked(arp_table'[i], use'[i])
             /\ Stable(i) /\ arp_table'[i].state = EMPTY /\ use[i].steady /\ use[i].used =>
                   use[i].unicast >= MinUnicast /\ use[i].broadcast >= MinBroadcast
  <2>1. PICK e \in Entry, u \in UseType : e = arp_table[i] /\ u = use[i]
    BY <1>0
  <2>2. /\ arp_table'[i] \in Entry
        /\ (e.state # EMPTY /\ Expired(e)) => arp_table'[i] = NoEntry
        /\ ~(e.state # EMPTY /\ Expired(e)) => (Stable(i)' <=> Stable(i))
                /\ (arp_table'[i].state = EMPTY <=> arp_table[i].state = EMPTY)
    BY <1>0, <2>1, TimerTable
  <2>3. /\ \/ e.state # EMPTY /\ Expired(e)
           \/ use'[i] = Unsteady
           \/ (u.used \/ (u.steady /\ ~Ageing(i))) /\ use'[i] = NextSecond(u)
        /\ e.state # EMPTY /\ Expired(e) => use'[i] = Unused
    BY <1>0, <2>1, TimerUse
  <2>4. /\ u.used => u.steady
        /\ Stable(i) /\ u.steady => Asked(e, u)
    BY <2>1 DEF Rerequests
  <2>5. CASE e.state # EMPTY /\ Expired(e)
    <3>1. use'[i] = Unused /\ ~Stable(i)' /\ ~Unused.used
      BY <2>2, <2>3, <2>5 DEF NoEntry, Unused, Stable, StableStates, EMPTY, STABLE,
                              REREQUESTING_1, REREQUESTING_2, Index
    <3>2. ASSUME Stable(i), u.steady, u.used
          PROVE  u.unicast >= MinUnicast /\ u.broadcast >= MinBroadcast
      <4>1. Asked(e, u) /\ e.state \in StableStates
        BY <2>1, <2>4, <3>2 DEF Stable
      <4>2. e.state # PENDING
        BY <4>1 DEF StableStates, PENDING, STABLE, REREQUESTING_1, REREQUESTING_2
      <4>3. e.ctime = ARP_MAXAGE - 1
        BY <2>5, <4>2, AskedTypes DEF Expired
      <4>4. Covered(e, u) >= 1
        BY <3>2, <4>3, AskedTypes DEF Covered
      <4>5. /\ u.unicast = MinUnicast
            /\ \/ u.broadcast = MinBroadcast
               \/ 2 * u.broadcast >= e.ctime - ARP_AGE_REREQUEST_USED_BROADCAST - 1 + Covered(e, u)
        BY <4>1, <4>3, AskedTypes DEF Asked
      <4>6. 2 * MinBroadcast <= ARP_MAXAGE - ARP_AGE_REREQUEST_USED_BROADCAST
        BY Minimums
      <4> QED BY <4>3, <4>4, <4>5, <4>6, AskedTypes
    <3> QED BY <2>1, <3>1, <3>2
  <2>6. CASE ~(e.state # EMPTY /\ Expired(e))
    <3>1. ~(Stable(i) /\ arp_table'[i].state = EMPTY)
      BY <2>1, <2>2, <2>6 DEF Stable, StableStates, EMPTY, STABLE, REREQUESTING_1, REREQUESTING_2
    <3>2. CASE use'[i] = Unsteady
      BY <3>1, <3>2 DEF Unsteady
    <3>3. CASE (u.used \/ (u.steady /\ ~Ageing(i))) /\ use'[i] = NextSecond(u)
      <4>1. ~use'[i].used
        BY <3>3 DEF NextSecond
      <4>2. ASSUME Stable(i)' PROVE Asked(arp_table'[i], use'[i])
        <5>1. Stable(i) /\ e.state \in StableStates /\ e.state # EMPTY
          BY <2>1, <2>2, <2>6, <4>2 DEF Stable, StableStates, EMPTY, STABLE, REREQUESTING_1,
                                        REREQUESTING_2
        <5>2. u.steady /\ Asked(e, u)
          BY <2>4, <3>3, <5>1
        <5>3. u.used \/ e.ctime < ARP_AGE_REREQUEST_USED_UNICAST
          BY <2>1, <3>3, <5>1, AskedTypes DEF Ageing
        <5>4. PICK f \in Entry : f = arp_table'[i]
          BY <2>2
        <5>5. /\ f.ctime = e.ctime + 1
              /\ f.state = IF e.state = REREQUESTING_1 THEN REREQUESTING_2
                           ELSE IF e.state = REREQUESTING_2 THEN STABLE ELSE e.state
          BY <1>0, <2>1, <2>6, <5>1, <5>4, AgedIs
        <5>6. Asked(f, NextSecond(u))
          BY <5>1, <5>2, <5>3, <5>5, AskedTick
        <5> QED BY <3>3, <5>4, <5>6
      <4> QED BY <3>1, <4>1, <4>2
    <3> QED BY <2>3, <2>6, <3>2, <3>3
  <2> QED BY <2>5, <2>6
<1> QED BY <1>1 DEF Rerequests, Index, Asked, Covered

\* Every step keeps Rerequests, and takes no entry in steady use away before
\* its host was asked again.
LEMMA TableRerequests ==
    ASSUME AInv, Rerequests, NEW P \in SUBSET Packets, TableNext(P)
    PROVE  /\ Rerequests'
           /\ \A i \in Index :
                 Stable(i) /\ arp_table'[i].state = EMPTY /\ use[i].steady /\ use[i].used =>
                    use[i].unicast >= MinUnicast /\ use[i].broadcast >= MinBroadcast
<1> DEFINE Goal == /\ Rerequests'
                   /\ \A i \in Index :
                        Stable(i) /\ arp_table'[i].state = EMPTY /\ use[i].steady /\ use[i].used =>
                          use[i].unicast >= MinUnicast /\ use[i].broadcast >= MinBroadcast
<1>0. ASSUME UNCHANGED <<arp_table, use>> PROVE Goal
  <2>1. Rerequests'
    BY <1>0 DEF Rerequests, Index, Stable, Asked, Covered
  <2>2. \A i \in Index : Stable(i) => arp_table'[i].state # EMPTY
    BY <1>0 DEF Stable, StableStates, EMPTY, STABLE, REREQUESTING_1, REREQUESTING_2
  <2> QED BY <2>1, <2>2
<1>1. ASSUME NEW p \in Packets, NEW ip \in Hosts \cup {Far}, etharp_output(p, ip) PROVE Goal
  <2>1. CASE UNCHANGED <<arp_table, etharp_cached_entry, hop, use>>
    BY <1>0, <2>1
  <2>2. CASE \E i \in StableEntry(NextHop(ip)), ok \in BOOLEAN :
                output_to_arp_index(i, NextHop(ip), ok)
    <3>1. PICK i \in StableEntry(NextHop(ip)), ok \in BOOLEAN :
             output_to_arp_index(i, NextHop(ip), ok)
      BY <2>2
    <3>2. i \in Index /\ Stable(i)
      BY StableEntryIs
    <3>3. /\ \/ arp_table' = arp_table
             \/ /\ UnicastDue(arp_table[i]) \/ BroadcastDue(arp_table[i])
                /\ arp_table' = [arp_table EXCEPT ![i].state = REREQUESTING_1]
          /\ use' = [use EXCEPT ![i] =
                        Used(use[i], UnicastDue(arp_table[i]), BroadcastDue(arp_table[i]))]
      BY <3>1 DEF output_to_arp_index
    <3> QED BY <3>2, <3>3, OutputRerequests
  <2>3. CASE /\ NextHop(ip) # None /\ StableEntry(NextHop(ip)) = {}
             /\ etharp_query(NextHop(ip), p, [ref EXCEPT ![p] = 2])
    <3>1. PICK h \in Hosts : h = NextHop(ip)
      BY <2>3, NextHopType DEF AInv
    <3>2. \A j \in Index : ~(Stable(j) /\ arp_table[j].ip = h)
      BY <2>3, <3>1, NoStableEntry
    <3>3. PICK r : r = [ref EXCEPT ![p] = 2]
      OBVIOUS
    <3>4. etharp_query(h, p, r)
      BY <2>3, <3>1, <3>3
    <3> QED BY <3>2, <3>4, QueryRerequests
  <2> QED BY <1>1, <2>1, <2>2, <2>3 DEF etharp_output
<1>2. ASSUME NEW p \in Packets, Release(p) PROVE Goal
  BY <1>0, <1>2 DEF Release
<1>3. ASSUME NEW ip \in Hosts, dhcp_check(ip) PROVE Goal
  <2>1. PICK r : r = ref
    OBVIOUS
  <2>2. etharp_query(ip, None, r)
    BY <1>3, <2>1 DEF dhcp_check
  <2>3. \A j \in Index : ~(Stable(j) /\ arp_table[j].ip = ip)
    BY <1>3 DEF dhcp_check, Matching, Stable, Pending, StableStates, EMPTY, PENDING, STABLE,
                REREQUESTING_1, REREQUESTING_2
  <2>4. None \in Packets \cup {None}
    OBVIOUS
  <2> QED BY <2>2, <2>3, <2>4, QueryRerequests
<1>4. ASSUME NEW g \in Gateways \cup {None}, netif_set_gw(g) PROVE Goal
  BY <1>0, <1>4 DEF netif_set_gw
<1>5. ASSUME NEW ip \in Hosts, NEW mac \in Macs, NEW for_us \in BOOLEAN,
             etharp_input(ip, mac, for_us)
      PROVE  Goal
  <2>1. CASE update_arp_entry(find_entry(ip), ip, mac)
    BY <2>1, UpdateRerequests
  <2>2. CASE UNCHANGED <<arp_table, ref, use>>
    BY <1>0, <2>2
  <2> QED BY <1>5, <2>1, <2>2 DEF etharp_input
<1>6. CASE etharp_tmr
  BY <1>6, TimerRerequests
<1> QED BY <1>1, <1>2, <1>3, <1>4, <1>5, <1>6 DEF TableNext

-----------------------------------------------------------------------------
(* The calls of the tasks                                                  *)

\* What a call relies on between two of its steps: its entry is what the last
\* step saw, and it holds the only reference to its packet.
EntryOK(c) ==
    /\ c.pc \in {"rerequest", "send"} => Stable(c.i) /\ arp_table[c.i].ip = NextHop(c.ip)
    /\ c.pc = "rerequest" => UnicastDue(arp_table[c.i]) \/ BroadcastDue(arp_table[c.i])
    /\ c.pc = "recycle" => \A j \in Index : arp_table[j].ip # NextHop(c.ip)
    /\ c.pc = "mark" =>
          \/ arp_table[c.i].ip = NextHop(c.ip)
          \/ /\ arp_table[c.i].state = EMPTY
             /\ \A j \in Index : arp_table[j].ip # NextHop(c.ip)
    /\ c.pc \in {"queue", "put"} => arp_table[c.i].ip = NextHop(c.ip)
    /\ c.pc = "put" => Pending(c.i) /\ c.q = arp_table[c.i].q

CallOK(c) ==
    /\ owned[c.p] /\ ref[c.p] = 1
    /\ NextHop(c.ip) \in Hosts /\ hop[c.p] = NextHop(c.ip)
    /\ EntryOK(c)

CallType == call \in [Tasks -> Call \cup {NoCall}]

Calls ==
    /\ CallType
    /\ \A t \in Tasks : call[t] # NoCall => CallOK(call[t])
    /\ \A t, u \in Tasks : call[t] # NoCall /\ call[t].p = call[u].p => t = u

\* The task t is in its call c.
At(t, c) == AInv /\ Rerequests /\ CallType /\ call[t] = c /\ CallOK(c)

\* A step leaves the packets of P alone that are not in the table.
Keeps(P) ==
    \A x \in P : (\A j \in Index : arp_table[j].q # x) =>
        ref'[x] = ref[x] /\ owned'[x] = owned[x] /\ hop'[x] = hop[x]

\* A step of t, in a call for the packet p, was right.
Done(t, p) ==
    /\ AInv' /\ Rerequests' /\ CallType'
    /\ \A u \in Tasks \ {t} : call'[u] = call[u]
    /\ call'[t] # NoCall => call'[t].p = p /\ CallOK(call[t])'
    /\ Keeps(Packets \ {p})

\* A call has a packet, no call has none.
LEMMA CallIs ==
    ASSUME NEW c \in Call
    PROVE  /\ c.p \in Packets /\ c.p # None /\ c.ip \in Hosts \cup {Far} /\ c.i \in Index
           /\ c.q \in Packets \cup {None} /\ c.pc \in Steps /\ c.pc # "idle" /\ c # NoCall
BY ArpAssumption DEF Call, NoCall, Steps, Using

\* The calls after a step of t.
LEMMA Gone ==
    ASSUME CallType, NEW t \in Tasks, NEW d \in Call \cup {NoCall}, Goto(t, d)
    PROVE  CallType' /\ call'[t] = d /\ \A u \in Tasks \ {t} : call'[u] = call[u]
BY DEF CallType, Goto, Tasks

\* The packet of a call is not in the table.
LEMMA InHandNotQueued ==
    ASSUME AInv, NEW p \in Packets, owned[p], ref[p] = 1
    PROVE  \A i \in Index : arp_table[i].q # p
BY DEF AInv, Refs

\* The entry that has the next hop's address is in use.
LEMMA HasEntry ==
    ASSUME AInv, NEW ip \in Hosts, NEW i \in Index, arp_table[i].ip = ip
    PROVE  arp_table[i].state # EMPTY /\ i \in Matching(ip)
BY ArpAssumption DEF AInv, Entries, Matching

\* A step that changes neither the table nor a reference.
LEMMA LookAInv ==
    ASSUME AInv, UNCHANGED <<arp_table, gw, ref, owned, hop>>, sent' = {},
           heard' \in [Hosts -> Macs \cup {None}],
           \A x \in Hosts, j \in Index : arp_table'[j].ip = x => heard'[x] = heard[x],
           etharp_cached_entry' \in Index, use' \in [Index -> UseType]
    PROVE  AInv'
<1>1. TableOK'
  BY DEF AInv, TableOK, Index, Pending, UseType, Entry
<1>2. Entries' /\ Queued' /\ Refs' /\ Sent'
  BY DEF AInv, Entries, Queued, Refs, Sent, Index, Stable, Pending
<1>3. Told'
  <2> SUFFICES ASSUME NEW j \in Index, Stable(j)
               PROVE  arp_table[j].mac = heard'[arp_table[j].ip]
    BY DEF Told, Index, Stable
  <2>1. arp_table[j].state # EMPTY
    BY DEF Stable, StableStates, EMPTY, STABLE, REREQUESTING_1, REREQUESTING_2
  <2> QED BY <2>1 DEF AInv, Entries, Told
<1> QED BY <1>1, <1>2, <1>3 DEF AInv

\* Nor how an entry is used.
LEMMA SameRerequests ==
    ASSUME Rerequests, UNCHANGED <<arp_table, use>>
    PROVE  Rerequests'
BY DEF Rerequests, Index, Stable, Asked, Covered

\* The beginning of a call: the packet is in the task's hand.
LEMMA BeginDone ==
    ASSUME AInv, Rerequests, CallType, NEW t \in Tasks, call[t] = NoCall,
           NEW p \in Packets, NEW ip \in Hosts \cup {Far}, begin(t, p, ip)
    PROVE  Done(t, p)
<1>0. TableOK /\ NextHop(ip) \in Hosts \cup {None} /\ None \notin Hosts
  BY NextHopType, ArpAssumption DEF AInv
<1>1. /\ owned' = [owned EXCEPT ![p] = TRUE] /\ ref' = [ref EXCEPT ![p] = 1]
      /\ hop' = [hop EXCEPT ![p] = NextHop(ip)] /\ sent' = {}
      /\ UNCHANGED <<arp_table, etharp_cached_entry, gw, heard, use>>
  BY DEF begin
<1>2. \A j \in Index : arp_table[j].q # p
  BY SendableNotQueued DEF begin
<1>3. /\ owned' \in [Packets -> BOOLEAN] /\ ref' \in [Packets -> 0 .. 2]
      /\ hop' \in [Packets -> Hosts \cup {None}]
      /\ owned'[p] /\ ref'[p] = 1 /\ hop'[p] = NextHop(ip)
      /\ \A x \in Packets \ {p} : ref'[x] = ref[x] /\ owned'[x] = owned[x] /\ hop'[x] = hop[x]
  BY <1>0, <1>1 DEF TableOK
<1>4. AInv'
  <2>1. TableOK'
    BY <1>0, <1>1, <1>3 DEF TableOK, Index, Pending, Entry
  <2>2. Entries' /\ Told' /\ Sent'
    BY <1>1 DEF AInv, Entries, Told, Sent, Index, Stable, Pending
  <2>3. \A j \in Index : arp_table[j].q # None => arp_table[j].q \in Packets \ {p}
    BY <1>0, <1>2 DEF TableOK, Entry
  <2>4. Queued'
    BY <1>1, <1>3, <2>3 DEF AInv, Queued, Index
  <2>5. Refs'
    BY <1>1, <1>2, <1>3 DEF AInv, Refs, Index
  <2> QED BY <2>1, <2>2, <2>4, <2>5 DEF AInv
<1>5. Rerequests'
  BY <1>1, SameRerequests
<1>6. PICK d : /\ Goto(t, d)
               /\ d = IF NextHop(ip) = None THEN NoCall
                      ELSE [pc |-> "cached", p |-> p, ip |-> ip, i |-> 0, q |-> None]
  BY DEF begin
<1>7. d \in Call \cup {NoCall}
  BY <1>6, ArpAssumption DEF Call, Steps, Index
<1>8. CallType' /\ call'[t] = d /\ \A u \in Tasks \ {t} : call'[u] = call[u]
  BY <1>6, <1>7, Gone
<1>9. d # NoCall => d.p = p /\ CallOK(call[t])'
  <2> SUFFICES ASSUME d # NoCall PROVE d.p = p /\ CallOK(call[t])'
    OBVIOUS
  <2>1. d.p = p /\ d.pc = "cached" /\ d.ip = ip /\ NextHop(ip) \in Hosts
    BY <1>0, <1>6
  <2>2. NextHop(ip)' = NextHop(ip)
    BY <1>1 DEF NextHop
  <2> QED BY <1>3, <1>8, <2>1, <2>2 DEF CallOK, EntryOK, NextHop
<1> QED BY <1>3, <1>4, <1>5, <1>8, <1>9 DEF Done, Keeps

\* A step of the call c that leads to d.
LEMMA StepDone ==
    ASSUME NEW t \in Tasks, NEW c \in Call, At(t, c), NEW d \in Call \cup {NoCall}, Goto(t, d),
           AInv', Rerequests', Keeps(Packets \ {c.p}), gw' = gw,
           d # NoCall => /\ d.p = c.p /\ d.ip = c.ip /\ EntryOK(d)'
                         /\ ref'[c.p] = ref[c.p] /\ owned'[c.p] = owned[c.p]
                         /\ hop'[c.p] = hop[c.p]
    PROVE  Done(t, c.p)
<1>1. CallType' /\ call'[t] = d /\ \A u \in Tasks \ {t} : call'[u] = call[u]
  BY Gone DEF At
<1>2. d # NoCall => CallOK(call[t])'
  <2>1. EntryOK(d)' => EntryOK(call[t])'
    BY <1>1 DEF EntryOK
  <2> QED BY <1>1, <2>1 DEF At, CallOK, NextHop
<1> QED BY <1>1, <1>2 DEF Done

\* A step that only looks.
LEMMA LookDone ==
    ASSUME NEW t \in Tasks, NEW c \in Call, At(t, c), NEW d \in Call \cup {NoCall}, Goto(t, d),
           UNCHANGED <<arp_table, gw, ref, owned, hop, heard>>, sent' = {},
           etharp_cached_entry' \in Index, use' \in [Index -> UseType], Rerequests',
           d # NoCall => d.p = c.p /\ d.ip = c.ip /\ EntryOK(d)
    PROVE  Done(t, c.p)
<1>1. AInv'
  BY LookAInv DEF At, AInv, TableOK
<1>2. EntryOK(d) => EntryOK(d)'
  BY DEF EntryOK, Stable, Pending, NextHop, Index
<1>3. Keeps(Packets \ {c.p})
  BY DEF Keeps
<1> QED BY <1>1, <1>2, <1>3, StepDone

\* A stable entry of the next hop.
LEMMA FoundDone ==
    ASSUME NEW t \in Tasks, NEW c \in Call, At(t, c), NEW i \in Index, found(t, i),
           UNCHANGED <<arp_table, gw, ref, owned, hop, heard>>, sent' = {}
    PROVE  Done(t, c.p)
<1>0. AInv /\ TableOK /\ Rerequests /\ call[t] = c
  BY DEF At, AInv
<1>1. PICK due \in BOOLEAN : due = (BroadcastDue(arp_table[i]) \/ UnicastDue(arp_table[i]))
  OBVIOUS
<1>2. /\ Stable(i) /\ arp_table[i].ip = NextHop(c.ip)
      /\ use' = IF due THEN use ELSE [use EXCEPT ![i] = Used(use[i], FALSE, FALSE)]
      /\ etharp_cached_entry' = i
  BY <1>0, <1>1 DEF found, dst_addr
<1>3. PICK s \in Steps : s = IF due THEN "rerequest" ELSE "send"
  BY DEF Steps, Using
<1>4. PICK d : d = [c EXCEPT !.pc = s, !.i = i]
  OBVIOUS
<1>5. Goto(t, d)
  BY <1>0, <1>1, <1>3, <1>4 DEF found
<1>6. d \in Call /\ d.pc = s /\ d.p = c.p /\ d.ip = c.ip /\ d.i = i
  BY <1>4 DEF Call
<1>7. EntryOK(d)
  BY <1>1, <1>2, <1>3, <1>6 DEF EntryOK
<1>8. use' \in [Index -> UseType] /\ Rerequests'
  <2>1. CASE due
    BY <1>0, <1>2, <2>1, SameRerequests DEF TableOK, UseType
  <2>2. CASE ~due
    <3>1. UnicastDue(arp_table[i]) = FALSE /\ BroadcastDue(arp_table[i]) = FALSE
      BY <1>1, <2>2 DEF UnicastDue, BroadcastDue
    <3>2. use' = [use EXCEPT ![i] =
                     Used(use[i], UnicastDue(arp_table[i]), BroadcastDue(arp_table[i]))]
      BY <1>2, <2>2, <3>1
    <3>3. Rerequests'
      BY <1>0, <1>2, <3>2, OutputRerequests
    <3>4. use' \in [Index -> UseType]
      BY <1>0, <1>2, <2>2, OutputTable
    <3> QED BY <3>3, <3>4
  <2> QED BY <2>1, <2>2
<1> QED BY <1>2, <1>5, <1>6, <1>7, <1>8, LookDone

\* It is another one.
LEMMA NotFoundDone ==
    ASSUME NEW t \in Tasks, NEW c \in Call, At(t, c), NEW i, NEW n \in Nat, not_found(t, i, n),
           UNCHANGED <<arp_table, gw, ref, owned, hop, heard>>, sent' = {}
    PROVE  Done(t, c.p)
<1>0. TableOK /\ Rerequests /\ call[t] = c /\ UNCHANGED <<etharp_cached_entry, use>>
  BY DEF At, AInv, not_found
<1>1. PICK s \in Steps, j \in Index :
         Goto(t, [c EXCEPT !.pc = s, !.i = j]) /\ s \in {"search", "scan"}
  <2>1. 0 \in Index
    BY ArpAssumption DEF Index
  <2>2. "search" \in Steps /\ "scan" \in Steps
    BY DEF Steps
  <2>3. CASE n \in Index
    BY <1>0, <2>2, <2>3 DEF not_found
  <2>4. CASE n \notin Index
    BY <1>0, <2>1, <2>2, <2>4 DEF not_found
  <2> QED BY <2>3, <2>4
<1>2. PICK d : d = [c EXCEPT !.pc = s, !.i = j]
  OBVIOUS
<1>3. d \in Call /\ d.pc = s /\ d.p = c.p /\ d.ip = c.ip /\ d.i = j
  BY <1>2 DEF Call
<1>4. EntryOK(d)
  BY <1>1, <1>3 DEF EntryOK
<1>5. Rerequests' /\ use' \in [Index -> UseType] /\ etharp_cached_entry' \in Index
  BY <1>0, SameRerequests DEF TableOK, UseType
<1> QED BY <1>1, <1>2, <1>3, <1>4, <1>5, LookDone

\* The rerequest of the entry.
LEMMA RerequestDone ==
    ASSUME NEW t \in Tasks, NEW c \in Call, At(t, c), NEW ok \in BOOLEAN, rerequest(t, ok)
    PROVE  Done(t, c.p)
<1>0. AInv /\ TableOK /\ Rerequests /\ call[t] = c /\ c.pc = "rerequest" /\ c.i \in Index
  BY CallIs DEF At, AInv, rerequest
<1>1. PICK i \in Index : i = c.i
  BY <1>0
<1>2. /\ Stable(i) /\ arp_table[i].ip = NextHop(c.ip)
      /\ UnicastDue(arp_table[i]) \/ BroadcastDue(arp_table[i])
  BY <1>0, <1>1 DEF At, CallOK, EntryOK
<1>3. /\ \/ arp_table' = arp_table
         \/ arp_table' = [arp_table EXCEPT ![i].state = REREQUESTING_1]
      /\ use' = [use EXCEPT ![i] =
                    Used(use[i], UnicastDue(arp_table[i]), BroadcastDue(arp_table[i]))]
      /\ sent' = {} /\ UNCHANGED <<etharp_cached_entry, gw, ref, owned, hop, heard>>
  BY <1>0, <1>1 DEF rerequest
<1>4. Rerequests'
  BY <1>0, <1>2, <1>3, OutputRerequests
<1>5. /\ arp_table' \in [Index -> Entry] /\ use' \in [Index -> UseType]
      /\ \A j \in Index :
            /\ arp_table'[j].ip = arp_table[j].ip /\ arp_table'[j].mac = arp_table[j].mac
            /\ arp_table'[j].q = arp_table[j].q /\ arp_table'[j].ctime = arp_table[j].ctime
            /\ Stable(j)' = Stable(j) /\ Pending(j)' = Pending(j)
            /\ (arp_table'[j].state = EMPTY) = (arp_table[j].state = EMPTY)
  <2>1. PICK ucast \in BOOLEAN, bcast \in BOOLEAN :
           use' = [use EXCEPT ![i] = Used(use[i], ucast, bcast)]
    BY <1>3 DEF UnicastDue, BroadcastDue
  <2> QED BY <1>0, <1>2, <1>3, <2>1, OutputTable, ZenonT(60)
<1>6. AInv'
  <2>1. TableOK'
    BY <1>0, <1>3, <1>5 DEF TableOK, UseType, Index, Entry
  <2>2. Entries' /\ Told'
    BY <1>0, <1>3, <1>5 DEF AInv, Entries, Told, Index
  <2>3. Queued' /\ Refs' /\ Sent'
    BY <1>0, <1>3, <1>5 DEF AInv, Queued, Refs, Sent, Index
  <2> QED BY <2>1, <2>2, <2>3 DEF AInv
<1>7. PICK d : d = [c EXCEPT !.pc = "send"]
  OBVIOUS
<1>8. Goto(t, d)
  BY <1>0, <1>7 DEF rerequest
<1>9. d \in Call /\ d.pc = "send" /\ d.p = c.p /\ d.ip = c.ip /\ d.i = i
  <2>1. "send" \in Steps
    BY DEF Steps, Using
  <2> QED BY <1>1, <1>7, <2>1 DEF Call
<1>10. EntryOK(d)'
  BY <1>2, <1>3, <1>5, <1>9 DEF EntryOK, NextHop
<1>11. Keeps(Packets \ {c.p})
  BY <1>3 DEF Keeps
<1> QED BY <1>3, <1>4, <1>6, <1>8, <1>9, <1>10, <1>11, StepDone

\* The packet goes out to the entry's hardware address.
LEMMA SendDone ==
    ASSUME NEW t \in Tasks, NEW c \in Call, At(t, c), send(t)
    PROVE  Done(t, c.p)
<1>0. /\ AInv /\ TableOK /\ Rerequests /\ call[t] = c /\ c.pc = "send" /\ c.i \in Index
      /\ c.p \in Packets /\ c.p # None
  BY CallIs DEF At, AInv, send
<1>1. PICK i \in Index, p \in Packets : i = c.i /\ p = c.p
  BY <1>0
<1>2. /\ Stable(i) /\ arp_table[i].ip = hop[p] /\ hop[p] \in Hosts
      /\ \A j \in Index : arp_table[j].q # p
  <2>1. Stable(i) /\ arp_table[i].ip = hop[p] /\ hop[p] \in Hosts /\ owned[p] /\ ref[p] = 1
    BY <1>0, <1>1 DEF At, CallOK, EntryOK
  <2> QED BY <1>0, <2>1, InHandNotQueued
<1>3. /\ sent' = {<<hop[p], arp_table[i].mac>>} /\ hop' = [hop EXCEPT ![p] = None]
      /\ UNCHANGED <<arp_table, etharp_cached_entry, gw, ref, owned, heard, use>>
  BY <1>0, <1>1 DEF send
<1>4. arp_table[i].mac \in Macs /\ arp_table[i].mac = heard[hop[p]]
  BY <1>0, <1>2 DEF AInv, Entries, Told
<1>5. /\ hop' \in [Packets -> Hosts \cup {None}]
      /\ \A x \in Packets \ {p} : hop'[x] = hop[x]
  BY <1>0, <1>3 DEF TableOK
<1>6. AInv'
  <2>1. sent' \in SUBSET ((Hosts \cup {None}) \X (Macs \cup {None})) /\ Sent'
    BY <1>2, <1>3, <1>4 DEF Sent
  <2>2. TableOK'
    BY <1>0, <1>3, <1>5, <2>1 DEF TableOK, Index, Pending, Entry
  <2>3. Entries' /\ Told' /\ Refs'
    BY <1>0, <1>3 DEF AInv, Entries, Told, Refs, Index, Stable, Pending
  <2>4. \A j \in Index : arp_table[j].q # None => arp_table[j].q \in Packets \ {p}
    BY <1>0, <1>2 DEF TableOK, Entry
  <2>5. Queued'
    BY <1>0, <1>3, <1>5, <2>4 DEF AInv, Queued, Index
  <2> QED BY <2>1, <2>2, <2>3, <2>5 DEF AInv
<1>7. Rerequests'
  BY <1>0, <1>3, SameRerequests
<1>8. Goto(t, NoCall) /\ NoCall \in Call \cup {NoCall}
  BY DEF send
<1>9. Keeps(Packets \ {c.p})
  BY <1>1, <1>3, <1>5 DEF Keeps
<1> QED BY <1>3, <1>6, <1>7, <1>8, <1>9, StepDone

\* etharp_find_entry() in one piece.
LEMMA ScanDone ==
    ASSUME NEW t \in Tasks, NEW c \in Call, At(t, c), ~raced, scan(t)
    PROVE  Done(t, c.p)
<1>0. AInv /\ TableOK /\ Rerequests /\ call[t] = c /\ dst_addr(t) = NextHop(c.ip)
  BY DEF At, AInv, dst_addr
<1>1. PICK h \in Hosts : h = NextHop(c.ip)
  BY DEF At, CallOK
<1>2. h # None
  BY ArpAssumption
<1>3. PICK i \in Index : i = find_entry(h)
  BY <1>0, FindEntry
<1>4. PICK s \in Steps : s = IF i \in Matching(h) \/ arp_table[i].state = EMPTY
                             THEN "mark" ELSE "recycle"
  BY DEF Steps, Using
<1>5. PICK d : d = [c EXCEPT !.pc = s, !.i = i]
  OBVIOUS
<1>6. Goto(t, d)
  BY <1>0, <1>1, <1>2, <1>3, <1>4, <1>5 DEF scan
<1>7. d \in Call /\ d.pc = s /\ d.p = c.p /\ d.ip = c.ip /\ d.i = i
  BY <1>5 DEF Call
<1>8. EntryOK(d)
  <2>1. CASE i \in Matching(h)
    <3>1. s = "mark" /\ arp_table[i].ip = h
      BY <1>4, <2>1 DEF Matching
    <3> QED BY <1>1, <1>7, <3>1 DEF EntryOK
  <2>2. CASE i \notin Matching(h)
    <3>1. Matching(h) = {}
      BY <1>0, <1>3, <2>2, FindEntry
    <3>2. \A j \in Index : arp_table[j].ip # h
      BY <1>0, <3>1, HasEntry
    <3>3. (s = "mark" /\ arp_table[i].state = EMPTY) \/ s = "recycle"
      BY <1>4, <2>2
    <3> QED BY <1>1, <1>7, <3>2, <3>3 DEF EntryOK
  <2> QED BY <2>1, <2>2
<1>9. sent' = {} /\ UNCHANGED <<arp_table, etharp_cached_entry, gw, ref, owned, hop, heard, use>>
  BY DEF scan
<1>10. Rerequests' /\ use' \in [Index -> UseType] /\ etharp_cached_entry' \in Index
  BY <1>0, <1>9, SameRerequests DEF TableOK, UseType
<1> QED BY <1>6, <1>7, <1>8, <1>9, <1>10, LookDone

\* etharp_free_entry().
LEMMA RecycleDone ==
    ASSUME NEW t \in Tasks, NEW c \in Call, At(t, c), recycle(t)
    PROVE  Done(t, c.p)
<1>0. /\ AInv /\ TableOK /\ Rerequests /\ call[t] = c /\ c.pc = "recycle" /\ c.i \in Index
      /\ c.p \in Packets /\ None \notin Packets
  BY CallIs, ArpAssumption DEF At, AInv, recycle
<1>1. PICK i \in Index, p \in Packets : i = c.i /\ p = c.p
  BY <1>0
<1>2. PICK e \in Entry : e = NoEntry
  <2>1. NoEntry \in Entry
    BY ArpAssumption DEF NoEntry, Entry
  <2> QED BY <2>1
<1>3. e.state = EMPTY /\ e.ip = None /\ e.q = None
  BY <1>2 DEF NoEntry
<1>4. e.state # PENDING /\ e.state \notin StableStates
  BY <1>3 DEF StableStates, PENDING, EMPTY, STABLE, REREQUESTING_1, REREQUESTING_2
<1>5. /\ arp_table' = [arp_table EXCEPT ![i] = e] /\ ref' = pbuf_free(ref, arp_table[i].q)
      /\ use' = [use EXCEPT ![i] = Unused] /\ Waiting(hop) /\ Heard(<<>>) /\ sent' = {}
      /\ UNCHANGED <<etharp_cached_entry, gw, owned>>
  BY <1>0, <1>1, <1>2 DEF recycle
<1>6. /\ arp_table' \in [Index -> Entry] /\ arp_table'[i] = e
      /\ \A j \in Index \ {i} : arp_table'[j] = arp_table[j]
  BY <1>0, <1>5 DEF TableOK
<1>7. /\ hop' \in [Packets -> Hosts \cup {None}]
      /\ \A j \in Index : arp_table'[j].q # None => hop'[arp_table'[j].q] = hop[arp_table'[j].q]
      /\ \A x \in Packets : (\A j \in Index : arp_table[j].q # x) => hop'[x] = hop[x]
  BY <1>0, <1>5, <1>6, WaitingHop DEF TableOK
<1>8. AInv'
  <2>1. RefsAfter(None, arp_table[i].q, e.q)
    BY <1>3, <1>5 DEF RefsAfter
  <2>2. /\ heard' \in [Hosts -> Macs \cup {None}]
        /\ \A x \in Hosts, j \in Index : arp_table'[j].ip = x => heard'[x] = heard[x]
    BY <1>0, <1>5, HeardNothing
  <2>3. use' \in [Index -> UseType]
    BY <1>0, <1>5, UseValues DEF TableOK, UseType
  <2>4. None \in Packets \cup {None}
    OBVIOUS
  <2>5. \A j \in Index : arp_table'[j].q # None =>
           hop'[arp_table'[j].q] = IF arp_table'[j].q = None THEN e.ip ELSE hop[arp_table'[j].q]
    BY <1>7
  <2>6. /\ e.q # None => e.state = PENDING
        /\ e.ip # None => \A j \in Index \ {i} : arp_table[j].ip # e.ip
        /\ \A j \in Index : None # None => arp_table[j].q # None
        /\ e.q = None
    BY <1>3
  <2> QED BY <1>0, <1>3, <1>4, <1>5, <1>7, <2>1, <2>2, <2>3, <2>4, <2>5, <2>6, Rewrite, ZenonT(60)
<1>9. Rerequests'
  BY <1>0, <1>3, <1>5, RewriteRerequests
<1>10. Keeps(Packets) /\ \A j \in Index : arp_table[j].q # p
  <2>1. \A j \in Index : arp_table[j].q # p
    BY <1>0, <1>1, InHandNotQueued DEF At, CallOK
  <2>2. \A x \in Packets : x # arp_table[i].q => ref'[x] = ref[x]
    BY <1>0, <1>5 DEF TableOK, pbuf_free
  <2> QED BY <1>5, <1>7, <2>1, <2>2 DEF Keeps
<1>11. PICK d : d = [c EXCEPT !.pc = "mark"]
  OBVIOUS
<1>12. Goto(t, d)
  BY <1>0, <1>11 DEF recycle
<1>13. d \in Call /\ d.pc = "mark" /\ d.p = c.p /\ d.ip = c.ip /\ d.i = i
  <2>1. "mark" \in Steps
    BY DEF Steps, Using
  <2> QED BY <1>1, <1>11, <2>1 DEF Call
<1>14. EntryOK(d)'
  <2>1. NextHop(c.ip)' = NextHop(c.ip) /\ NextHop(c.ip) \in Hosts
    BY <1>5 DEF NextHop, At, CallOK
  <2>2. \A j \in Index : arp_table'[j].ip # NextHop(c.ip)
    <3>1. \A j \in Index : arp_table[j].ip # NextHop(c.ip)
      BY <1>0 DEF At, CallOK, EntryOK
    <3>2. None # NextHop(c.ip)
      BY <2>1, ArpAssumption
    <3> QED BY <1>3, <1>6, <3>1, <3>2
  <2> QED BY <1>3, <1>6, <1>13, <2>1, <2>2 DEF EntryOK, Index
<1>15. Keeps(Packets \ {c.p}) /\ ref'[c.p] = ref[c.p] /\ owned'[c.p] = owned[c.p]
       /\ hop'[c.p] = hop[c.p]
  BY <1>1, <1>10 DEF Keeps
<1> QED BY <1>5, <1>8, <1>9, <1>12, <1>13, <1>14, <1>15, StepDone

\* The entry becomes pending unless it was one of the next hop already.
LEMMA MarkDone ==
    ASSUME NEW t \in Tasks, NEW c \in Call, At(t, c), mark(t)
    PROVE  Done(t, c.p)
<1>0. /\ AInv /\ TableOK /\ Rerequests /\ call[t] = c /\ c.pc = "mark" /\ c.i \in Index
      /\ dst_addr(t) = NextHop(c.ip)
  BY CallIs DEF At, AInv, mark, dst_addr
<1>1. PICK i \in Index, h \in Hosts : i = c.i /\ h = NextHop(c.ip)
  BY <1>0 DEF At, CallOK
<1>2. /\ sent' = {} /\ Heard(<<>>)
      /\ UNCHANGED <<etharp_cached_entry, gw, ref, owned, hop>>
  BY DEF mark
<1>3. /\ heard' \in [Hosts -> Macs \cup {None}]
      /\ \A x \in Hosts, j \in Index : arp_table'[j].ip = x => heard'[x] = heard[x]
  BY <1>0, <1>2, HeardNothing
<1>4. PICK d : d = [c EXCEPT !.pc = "queue"]
  OBVIOUS
<1>5. Goto(t, d)
  BY <1>0, <1>4 DEF mark
<1>6. d \in Call /\ d.pc = "queue" /\ d.p = c.p /\ d.ip = c.ip /\ d.i = i
  <2>1. "queue" \in Steps
    BY DEF Steps, Using
  <2> QED BY <1>1, <1>4, <2>1 DEF Call
<1>7. Keeps(Packets \ {c.p})
  BY <1>2 DEF Keeps
<1>8. NextHop(c.ip)' = h
  BY <1>1, <1>2 DEF NextHop
<1>9. CASE arp_table[i].state = EMPTY
  <2>1. \A j \in Index : arp_table[j].ip # h
    <3>1. arp_table[i].ip # h
      BY <1>0, <1>9, HasEntry
    <3> QED BY <1>0, <1>1, <3>1 DEF At, CallOK, EntryOK
  <2>2. PICK e \in Entry : e = [state |-> PENDING, ip |-> h, mac |-> None, ctime |-> 0, q |-> None]
    <3>1. [state |-> PENDING, ip |-> h, mac |-> None, ctime |-> 0, q |-> None] \in Entry
      BY ArpAssumption DEF Entry
    <3> QED BY <3>1
  <2>4. arp_table' = [arp_table EXCEPT ![i] = e] /\ use' = [use EXCEPT ![i] = Unused]
    BY <1>0, <1>1, <1>9, <2>2 DEF mark
  <2>5. e.state = PENDING /\ e.ip = h /\ e.q = None /\ e.ctime = 0
    BY <2>2
  <2>6. e.state # EMPTY /\ e.state \notin StableStates
    BY <2>5 DEF StableStates, PENDING, EMPTY, STABLE, REREQUESTING_1, REREQUESTING_2
  <2>7. arp_table[i].q = None
    BY <1>0, <1>9 DEF AInv, Entries, Pending, PENDING, EMPTY
  <2>8. AInv'
    <3>1. PICK n \in Packets \cup {None} : n = None
      OBVIOUS
    <3>2. RefsAfter(n, arp_table[i].q, e.q)
      BY <1>2, <2>5, <2>7, <3>1 DEF RefsAfter, pbuf_free
    <3>3. use' \in [Index -> UseType] /\ hop' \in [Packets -> Hosts \cup {None}]
      BY <1>0, <1>2, <2>4, UseValues DEF TableOK, UseType
    <3>4. \A j \in Index : arp_table'[j].q # None =>
             hop'[arp_table'[j].q] = IF arp_table'[j].q = n THEN e.ip ELSE hop[arp_table'[j].q]
      BY <1>2, <3>1
    <3>5. /\ e.q # None => e.state = PENDING
          /\ e.state = PENDING => e.ctime < ARP_MAXPENDING
          /\ e.ip # None => \A j \in Index \ {i} : arp_table[j].ip # e.ip
          /\ \A j \in Index : n # None => arp_table[j].q # n
          /\ e.state = EMPTY => e.ip = None
          /\ e.state # EMPTY => e.ip \in Hosts
          /\ e.q = n
      BY <2>1, <2>5, <2>6, <3>1, ArpAssumption
    <3>6. AInv /\ sent' = {} /\ UNCHANGED <<etharp_cached_entry, gw>>
      BY <1>0, <1>2
    <3>7. arp_table' = [arp_table EXCEPT ![i] = e]
      BY <2>4
    <3> QED BY <1>3, <2>6, <3>7, <3>2, <3>3, <3>4, <3>5, <3>6, Rewrite
  <2>9. Rerequests'
    BY <1>0, <2>4, <2>5, RewriteRerequests
  <2>10. EntryOK(d)'
    <3>1. arp_table'[i].ip = h
      BY <1>0, <2>4, <2>5 DEF TableOK
    <3> QED BY <1>6, <1>8, <3>1 DEF EntryOK
  <2> QED BY <1>2, <1>5, <1>6, <1>7, <2>8, <2>9, <2>10, StepDone
<1>10. CASE arp_table[i].state # EMPTY
  <2>1. UNCHANGED <<arp_table, use>>
    BY <1>0, <1>1, <1>10 DEF mark
  <2>2. arp_table[i].ip = h
    BY <1>0, <1>1, <1>10 DEF At, CallOK, EntryOK
  <2>3. AInv'
    BY <1>0, <1>2, <1>3, <2>1, LookAInv DEF TableOK, UseType
  <2>4. Rerequests'
    BY <1>0, <2>1, SameRerequests
  <2>5. EntryOK(d)'
    BY <1>6, <1>8, <2>1, <2>2 DEF EntryOK
  <2> QED BY <1>2, <1>5, <1>6, <1>7, <2>3, <2>4, <2>5, StepDone
<1> QED BY <1>9, <1>10

\* The entry of the next hop is stable or pending.
LEMMA QueueDone ==
    ASSUME NEW t \in Tasks, NEW c \in Call, At(t, c), queue(t)
    PROVE  Done(t, c.p)
<1>0. AInv /\ TableOK /\ Rerequests /\ call[t] = c /\ c.pc = "queue" /\ c.i \in Index
  BY CallIs DEF At, AInv, queue
<1>1. PICK i \in Index, h \in Hosts : i = c.i /\ h = NextHop(c.ip)
  BY <1>0 DEF At, CallOK
<1>2. arp_table[i].ip = h /\ arp_table[i].q \in Packets \cup {None} /\ (Stable(i) \/ Pending(i))
  <2>1. arp_table[i].ip = h
    BY <1>0, <1>1 DEF At, CallOK, EntryOK
  <2>2. arp_table[i].state # EMPTY
    BY <1>0, <2>1, HasEntry
  <2> QED BY <1>0, <2>1, <2>2 DEF TableOK, Entry, Stable, Pending
<1>3. /\ sent' = {} /\ etharp_cached_entry' \in Index
      /\ UNCHANGED <<arp_table, gw, ref, owned, hop, heard, use>>
  BY <1>0 DEF queue, TableOK
<1>4. Rerequests' /\ use' \in [Index -> UseType]
  BY <1>0, <1>3, SameRerequests DEF TableOK, UseType
<1>5. "send" \in Steps /\ "put" \in Steps
  BY DEF Steps, Using
<1>6. CASE Stable(i)
  <2>1. PICK d : d = [c EXCEPT !.pc = "send"]
    OBVIOUS
  <2>2. Goto(t, d)
    BY <1>0, <1>1, <1>6, <2>1 DEF queue
  <2>3. d \in Call /\ d.pc = "send" /\ d.p = c.p /\ d.ip = c.ip /\ d.i = i
    BY <1>1, <1>5, <2>1 DEF Call
  <2>4. EntryOK(d)
    BY <1>1, <1>2, <1>6, <2>3 DEF EntryOK
  <2> QED BY <1>3, <1>4, <2>2, <2>3, <2>4, LookDone
<1>7. CASE ~Stable(i)
  <2>1. PICK d : d = [c EXCEPT !.pc = "put", !.q = arp_table[i].q]
    OBVIOUS
  <2>2. Goto(t, d)
    BY <1>0, <1>1, <1>2, <1>7, <2>1 DEF queue
  <2>3. /\ d \in Call /\ d.pc = "put" /\ d.p = c.p /\ d.ip = c.ip /\ d.i = i
        /\ d.q = arp_table[i].q
    BY <1>1, <1>2, <1>5, <2>1 DEF Call
  <2>4. EntryOK(d)
    BY <1>1, <1>2, <1>7, <2>3 DEF EntryOK
  <2> QED BY <1>3, <1>4, <2>2, <2>3, <2>4, LookDone
<1> QED BY <1>6, <1>7

\* The packet takes its place in the pending entry.
LEMMA PutDone ==
    ASSUME NEW t \in Tasks, NEW c \in Call, At(t, c), put(t)
    PROVE  Done(t, c.p)
<1>0. /\ AInv /\ TableOK /\ Rerequests /\ call[t] = c /\ c.pc = "put" /\ c.i \in Index
      /\ c.p \in Packets /\ None \notin Packets
  BY CallIs, ArpAssumption DEF At, AInv, put
<1>1. PICK i \in Index, p \in Packets : i = c.i /\ p = c.p
  BY <1>0
<1>2. PICK o \in Entry : o = arp_table[i]
  BY <1>0 DEF TableOK
<1>3. /\ o.state = PENDING /\ o.ip = hop[p] /\ hop[p] \in Hosts /\ c.q = o.q
      /\ owned[p] = TRUE /\ ref[p] = 1
  <2>1. owned[p] \in BOOLEAN
    BY <1>0 DEF TableOK
  <2> QED BY <1>0, <1>1, <1>2, <2>1 DEF At, CallOK, EntryOK, Pending
<1>4. \A j \in Index : arp_table[j].q # p
  BY <1>0, <1>3, InHandNotQueued
<1>5. PICK e \in Entry : e = [state |-> PENDING, ip |-> o.ip, mac |-> o.mac,
                              ctime |-> o.ctime, q |-> p]
  <2>1. [state |-> PENDING, ip |-> o.ip, mac |-> o.mac, ctime |-> o.ctime, q |-> p] \in Entry
    BY DEF Entry
  <2> QED BY <2>1
<1>6. [o EXCEPT !.q = p] = e
  BY <1>3, <1>5 DEF Entry
<1>7. /\ arp_table' = [arp_table EXCEPT ![i] = e]
      /\ ref' = pbuf_free([ref EXCEPT ![p] = 2], o.q)
      /\ sent' = {} /\ Waiting(hop) /\ UNCHANGED <<etharp_cached_entry, gw, owned, heard, use>>
  <2>1. [ref EXCEPT ![p] = ref[p] + 1] = [ref EXCEPT ![p] = 2]
    BY <1>3
  <2>2. arp_table' = [arp_table EXCEPT ![i] = [o EXCEPT !.q = p]]
    BY <1>0, <1>1, <1>2 DEF put, TableOK
  <2>3. ref' = pbuf_free([ref EXCEPT ![p] = ref[p] + 1], o.q)
    BY <1>0, <1>1, <1>3 DEF put
  <2>4. sent' = {} /\ Waiting(hop) /\ UNCHANGED <<etharp_cached_entry, gw, owned, heard, use>>
    BY DEF put
  <2> QED BY <1>6, <2>1, <2>2, <2>3, <2>4
<1>8. e.state = PENDING /\ e.ip = o.ip /\ e.q = p /\ e.ctime = o.ctime
  BY <1>5
<1>9. e.state # EMPTY /\ e.state \notin StableStates
  BY <1>8 DEF StableStates, PENDING, EMPTY, STABLE, REREQUESTING_1, REREQUESTING_2
<1>10. /\ arp_table' \in [Index -> Entry] /\ arp_table'[i] = e
       /\ \A j \in Index \ {i} : arp_table'[j] = arp_table[j]
  BY <1>0, <1>7 DEF TableOK
<1>11. /\ hop' \in [Packets -> Hosts \cup {None}]
       /\ \A j \in Index : arp_table'[j].q # None => hop'[arp_table'[j].q] = hop[arp_table'[j].q]
       /\ \A x \in Packets : (\A j \in Index : arp_table[j].q # x) => hop'[x] = hop[x]
  BY <1>0, <1>7, <1>10, WaitingHop DEF TableOK
<1>12. AInv'
  <2>1. RefsAfter(p, arp_table[i].q, e.q)
    <3>1. owned' = [owned EXCEPT ![p] = TRUE]
      BY <1>0, <1>3, <1>7 DEF TableOK
    <3>2. arp_table[i].q = o.q /\ e.q = p /\ p # o.q /\ p # None
      BY <1>0, <1>2, <1>4, <1>8
    <3> QED BY <1>7, <3>1, <3>2 DEF RefsAfter
  <2>2. use' \in [Index -> UseType] /\ heard' \in [Hosts -> Macs \cup {None}]
    BY <1>0, <1>7 DEF TableOK, UseType
  <2>3. \A x \in Hosts, j \in Index : arp_table'[j].ip = x => heard'[x] = heard[x]
    BY <1>7
  <2>4. \A j \in Index : arp_table'[j].q # None =>
           hop'[arp_table'[j].q] = IF arp_table'[j].q = p THEN e.ip ELSE hop[arp_table'[j].q]
    BY <1>3, <1>8, <1>11
  <2>5. /\ e.state = PENDING => e.ctime < ARP_MAXPENDING
        /\ e.ip # None => \A j \in Index \ {i} : arp_table[j].ip # e.ip
        /\ e.state = EMPTY => e.ip = None
        /\ e.state # EMPTY => e.ip \in Hosts
        /\ e.q # None => e.state = PENDING
        /\ e.q = p \/ (p = None /\ e.q = arp_table[i].q)
        /\ arp_table[i].ip = e.ip \/ e.q = p
    BY <1>0, <1>2, <1>3, <1>8, <1>9 DEF AInv, Entries, TableOK, Pending
  <2>6. /\ \A j \in Index : p # None => arp_table[j].q # p
        /\ UNCHANGED <<etharp_cached_entry, gw>>
    BY <1>4, <1>7
  <2>7. p \in Packets \cup {None}
    OBVIOUS
  <2> QED BY <1>0, <1>7, <1>9, <1>11, <2>1, <2>2, <2>3, <2>4, <2>5, <2>6, <2>7, Rewrite
<1>13. Rerequests'
  <2>1. \A j \in Index : Stable(j)' => arp_table'[j] = arp_table[j] /\ Stable(j)
    BY <1>8, <1>9, <1>10 DEF Stable
  <2> QED BY <1>0, <1>7, <2>1 DEF Rerequests, Index, Asked, Covered
<1>14. Goto(t, NoCall) /\ NoCall \in Call \cup {NoCall}
  BY DEF put
<1>15. Keeps(Packets \ {c.p})
  <2>1. \A x \in Packets \ {p} : x # o.q => ref'[x] = ref[x]
    BY <1>0, <1>7 DEF TableOK, pbuf_free
  <2> QED BY <1>1, <1>2, <1>7, <1>11, <2>1 DEF Keeps
<1> QED BY <1>7, <1>12, <1>13, <1>14, <1>15, StepDone

-----------------------------------------------------------------------------
(* Steps of other threads                                                  *)

\* A packet that is not in the table keeps its next hop.
LEMMA WaitingNot ==
    ASSUME NEW h, Waiting(h), NEW x \in Packets, \A j \in Index : arp_table[j].q # x
    PROVE  hop'[x] = h[x]
BY DEF Waiting

\* And its references.
LEMMA FreedNot ==
    ASSUME NEW r \in [Packets -> 0 .. 2], NEW q, NEW x \in Packets, x # q
    PROVE  pbuf_free(r, q)[x] = r[x]
BY DEF pbuf_free

LEMMA QueryKeeps ==
    ASSUME TableOK, NEW ip, NEW p, NEW r \in [Packets -> 0 .. 2], etharp_query(ip, p, r),
           NEW x \in Packets, \A j \in Index : arp_table[j].q # x
    PROVE  ref'[x] = r[x]
<1>1. find_entry(ip) \in Index
  BY FindEntry
<1>2. PICK q : q = arp_table[find_entry(ip)].q
  OBVIOUS
<1>3. x # q
  BY <1>1, <1>2
<1>4. ref' = r \/ ref' = pbuf_free(r, q)
  BY <1>2 DEF etharp_query
<1> QED BY <1>3, <1>4, FreedNot

\* The tcpip thread leaves the packets alone that the tasks have in hand.
LEMMA TableKeeps ==
    ASSUME AInv, NEW P \in SUBSET Packets, TableNext(P)
    PROVE  Keeps(Packets \ P)
<1>0. TableOK /\ ref \in [Packets -> 0 .. 2] /\ owned \in [Packets -> BOOLEAN]
      /\ hop \in [Packets -> Hosts \cup {None}]
  BY DEF AInv, TableOK
<1> SUFFICES ASSUME NEW x \in Packets \ P, \A j \in Index : arp_table[j].q # x
             PROVE  ref'[x] = ref[x] /\ owned'[x] = owned[x] /\ hop'[x] = hop[x]
  BY DEF Keeps
<1>1. ASSUME NEW p \in P, NEW ip \in Hosts \cup {Far}, etharp_output(p, ip)
      PROVE  ref'[x] = ref[x] /\ owned'[x] = owned[x] /\ hop'[x] = hop[x]
  <2>1. owned'[x] = owned[x] /\ p # x
    BY <1>0, <1>1 DEF etharp_output
  <2>2. CASE ref' = [ref EXCEPT ![p] = 1] /\ hop' = hop
    BY <1>0, <2>1, <2>2
  <2>3. CASE /\ etharp_query(NextHop(ip), p, [ref EXCEPT ![p] = 2])
             /\ Waiting([hop EXCEPT ![p] = NextHop(ip)])
    <3>1. PICK r, h, n : r = [ref EXCEPT ![p] = 2] /\ h = [hop EXCEPT ![p] = n] /\ n = NextHop(ip)
      OBVIOUS
    <3>2. etharp_query(n, p, r) /\ Waiting(h)
      BY <2>3, <3>1
    <3>3. r \in [Packets -> 0 .. 2] /\ r[x] = ref[x] /\ h[x] = hop[x]
      BY <1>0, <2>1, <3>1
    <3>4. ref'[x] = r[x]
      BY <1>0, <3>2, <3>3, QueryKeeps
    <3>5. hop'[x] = h[x]
      BY <3>2, WaitingNot
    <3> QED BY <2>1, <3>3, <3>4, <3>5
  <2> QED BY <1>1, <2>2, <2>3 DEF etharp_output
<1>2. ASSUME NEW p \in P, Release(p)
      PROVE  ref'[x] = ref[x] /\ owned'[x] = owned[x] /\ hop'[x] = hop[x]
  <2>1. ref' = pbuf_free(ref, p) /\ owned' = [owned EXCEPT ![p] = FALSE] /\ hop' = hop /\ p # x
    BY <1>2 DEF Release
  <2> QED BY <1>0, <2>1, FreedNot
<1>3. ASSUME NEW ip \in Hosts, dhcp_check(ip)
      PROVE  ref'[x] = ref[x] /\ owned'[x] = owned[x] /\ hop'[x] = hop[x]
  <2>1. etharp_query(ip, None, ref) /\ Waiting(hop) /\ owned' = owned
    BY <1>3 DEF dhcp_check
  <2>2. hop'[x] = hop[x]
    BY <2>1, WaitingNot
  <2>3. ref'[x] = ref[x]
    BY <1>0, <2>1, QueryKeeps
  <2> QED BY <2>1, <2>2, <2>3
<1>4. ASSUME NEW g \in Gateways \cup {None}, netif_set_gw(g)
      PROVE  ref'[x] = ref[x] /\ owned'[x] = owned[x] /\ hop'[x] = hop[x]
  BY <1>4 DEF netif_set_gw
<1>5. ASSUME NEW ip \in Hosts, NEW mac \in Macs, NEW for_us \in BOOLEAN,
             etharp_input(ip, mac, for_us)
      PROVE  ref'[x] = ref[x] /\ owned'[x] = owned[x] /\ hop'[x] = hop[x]
  <2>1. Waiting(hop) /\ owned' = owned
    BY <1>5 DEF etharp_input
  <2>2. hop'[x] = hop[x]
    BY <2>1, WaitingNot
  <2>3. find_entry(ip) \in Index
    BY <1>0, FindEntry
  <2>4. PICK q : q = arp_table[find_entry(ip)].q
    OBVIOUS
  <2>5. ref' = ref \/ ref' = pbuf_free(ref, q)
    BY <1>5, <2>4 DEF etharp_input, update_arp_entry
  <2>6. x # q
    BY <2>3, <2>4
  <2>7. ref'[x] = ref[x]
    BY <1>0, <2>5, <2>6, FreedNot
  <2> QED BY <2>1, <2>2, <2>7
<1>6. CASE etharp_tmr
  <2>1. Waiting(hop) /\ owned' = owned
    BY <1>6 DEF etharp_tmr
  <2>2. hop'[x] = hop[x]
    BY <2>1, WaitingNot
  <2>3. ref'[x] = ref[x]
    BY <1>6 DEF etharp_tmr
  <2> QED BY <2>1, <2>2, <2>3
<1> QED BY <1>1, <1>2, <1>3, <1>4, <1>5, <1>6 DEF TableNext

\* What a call relies on stays unless the step is a race.
LEMMA KeptCall ==
    ASSUME NEW u \in Tasks, NEW c \in Call, call[u] = c, CallOK(c), call'[u] = c,
           ~Disturbed(u), ref'[c.p] = ref[c.p], owned'[c.p] = owned[c.p], hop'[c.p] = hop[c.p]
    PROVE  CallOK(call[u])'
<1>1. c.pc # "idle" /\ c.i \in Index
  BY CallIs
<1>2. NextHop(c.ip)' = NextHop(c.ip) /\ dst_addr(u) = NextHop(c.ip)
  BY <1>1 DEF Disturbed, NextHop, dst_addr
<1>3. c.pc \in Using => arp_table'[c.i] = arp_table[c.i]
  BY DEF Disturbed
<1>4. c.pc \in {"recycle", "mark"} /\ (\A j \in Index : arp_table[j].ip # NextHop(c.ip)) =>
         \A j \in Index : arp_table'[j].ip # NextHop(c.ip)
  BY <1>2 DEF Disturbed
<1>5. EntryOK(c)'
  <2>0. EntryOK(c)
    BY DEF CallOK
  <2>1. CASE c.pc \in {"rerequest", "send"}
    BY <1>2, <1>3, <2>0, <2>1 DEF EntryOK, Using, Stable
  <2>2. CASE c.pc \in {"recycle", "mark"}
    BY <1>2, <1>3, <1>4, <2>0, <2>2 DEF EntryOK, Using, Index
  <2>3. CASE c.pc \in {"queue", "put"}
    BY <1>2, <1>3, <2>0, <2>3 DEF EntryOK, Using, Pending
  <2>4. CASE c.pc \notin {"rerequest", "send", "recycle", "mark", "queue", "put"}
    BY <2>4 DEF EntryOK
  <2> QED BY <2>1, <2>2, <2>3, <2>4
<1>6. CallOK(c)'
  BY <1>2, <1>5 DEF CallOK
<1> QED BY <1>6 DEF CallOK, EntryOK

-----------------------------------------------------------------------------
(* All threads together                                                    *)

TInv == AInv /\ Rerequests /\ Calls

\* Nothing is promised after a race.
RInv == ~raced => TInv

\* Every step of a task, in a call or at its beginning, is right.
LEMMA TaskDone ==
    ASSUME TInv, ~raced, NEW t \in Tasks, Task(t)
    PROVE  \E p \in Packets : /\ Done(t, p)
                              /\ call[t] # NoCall => p = call[t].p
                              /\ call[t] = NoCall => p \notin InHand
<1>0. AInv /\ Rerequests /\ CallType /\ call[t] \in Call \cup {NoCall}
  BY DEF TInv, Calls, CallType
<1>1. CASE call[t] = NoCall
  <2>1. call[t].pc = "idle"
    BY <1>1 DEF NoCall
  <2>2. PICK p \in Packets, ip \in Peers(t) : begin(t, p, ip)
    BY <2>1 DEF Task, cached, search, rerequest, send, scan, recycle, mark, queue, put
  <2>3. ip \in Hosts \cup {Far}
    BY PeersAssumption DEF Peers
  <2>4. Done(t, p)
    BY <1>0, <1>1, <2>2, <2>3, BeginDone
  <2> QED BY <1>1, <2>2, <2>4 DEF begin
<1>2. CASE call[t] # NoCall
  <2>1. PICK c \in Call : c = call[t]
    BY <1>0, <1>2
  <2>2. At(t, c) /\ c.p \in Packets /\ c.pc # "idle" /\ c.i \in Index
    BY <1>0, <1>2, <2>1, CallIs DEF At, TInv, Calls
  <2> SUFFICES Done(t, c.p)
    BY <1>2, <2>1, <2>2
  <2>3. CASE cached(t)
    <3>1. /\ found(t, etharp_cached_entry) \/ not_found(t, etharp_cached_entry, 0)
          /\ sent' = {} /\ UNCHANGED <<arp_table, gw, ref, owned, hop, heard>>
      BY <2>3 DEF cached
    <3>2. PICK n \in Index : n = etharp_cached_entry
      BY <1>0 DEF AInv, TableOK
    <3>3. CASE found(t, n)
      BY <2>2, <3>1, <3>3, FoundDone
    <3>4. CASE not_found(t, n, 0)
      BY <2>2, <3>1, <3>4, NotFoundDone
    <3> QED BY <3>1, <3>2, <3>3, <3>4
  <2>4. CASE search(t)
    <3>1. /\ found(t, c.i) \/ not_found(t, c.i, c.i + 1)
          /\ sent' = {} /\ UNCHANGED <<arp_table, gw, ref, owned, hop, heard>>
      BY <2>1, <2>4 DEF search
    <3>2. PICK n \in Index, m \in Nat : n = c.i /\ m = c.i + 1
      BY <2>2 DEF Index
    <3>3. CASE found(t, n)
      BY <2>2, <3>1, <3>3, FoundDone
    <3>4. CASE not_found(t, n, m)
      BY <2>2, <3>1, <3>4, NotFoundDone
    <3> QED BY <3>1, <3>2, <3>3, <3>4
  <2>5. CASE \E ok \in BOOLEAN : rerequest(t, ok)
    BY <2>2, <2>5, RerequestDone
  <2>6. CASE send(t)
    BY <2>2, <2>6, SendDone
  <2>7. CASE scan(t)
    BY <2>2, <2>7, ScanDone
  <2>8. CASE recycle(t)
    BY <2>2, <2>8, RecycleDone
  <2>9. CASE mark(t)
    BY <2>2, <2>9, MarkDone
  <2>10. CASE queue(t)
    BY <2>2, <2>10, QueueDone
  <2>11. CASE put(t)
    BY <2>2, <2>11, PutDone
  <2>12. ~\E p \in Packets, ip \in Peers(t) : begin(t, p, ip)
    BY <2>1, <2>2 DEF begin
  <2> QED BY <2>3, <2>4, <2>5, <2>6, <2>7, <2>8, <2>9, <2>10, <2>11, <2>12 DEF Task
<1> QED BY <1>1, <1>2

\* A step of a task that is no race.
LEMMA TaskTInv ==
    ASSUME TInv, ~raced, NEW t \in Tasks, Task(t), ~raced'
    PROVE  TInv'
<1>1. PICK p \in Packets : /\ Done(t, p)
                           /\ call[t] # NoCall => p = call[t].p
                           /\ call[t] = NoCall => p \notin InHand
  BY TaskDone
<1>2. /\ AInv' /\ Rerequests' /\ CallType'
      /\ \A u \in Tasks \ {t} : call'[u] = call[u]
      /\ call'[t] # NoCall => call'[t].p = p /\ CallOK(call[t])'
      /\ Keeps(Packets \ {p})
  BY <1>1 DEF Done
<1>3. AInv /\ CallType /\ \A u \in Tasks : call[u] # NoCall => CallOK(call[u])
  BY DEF TInv, Calls
<1>4. \A u \in Tasks \ {t} : ~Disturbed(u)
  BY DEF Task, RacedBy
<1>5. \A u \in Tasks \ {t} : call[u].p # p
  BY <1>1 DEF TInv, Calls, InHand
<1>6. ASSUME NEW u \in Tasks \ {t}, call[u] # NoCall PROVE CallOK(call[u])'
  <2>1. PICK c \in Call : c = call[u]
    BY <1>3, <1>6 DEF CallType
  <2>2. c.p \in Packets \ {p} /\ CallOK(c)
    BY <1>3, <1>5, <1>6, <2>1, CallIs
  <2>3. \A j \in Index : arp_table[j].q # c.p
    BY <1>3, <2>2, InHandNotQueued DEF CallOK
  <2>4. ref'[c.p] = ref[c.p] /\ owned'[c.p] = owned[c.p] /\ hop'[c.p] = hop[c.p]
    BY <1>2, <2>2, <2>3 DEF Keeps
  <2>5. call'[u] = c
    BY <1>2, <2>1
  <2> QED BY <1>4, <2>1, <2>2, <2>4, <2>5, KeptCall
<1>7. Calls'
  <2>1. \A u \in Tasks : call'[u] # NoCall => CallOK(call[u])'
    BY <1>2, <1>6
  <2>2. \A v, u \in Tasks : call'[v] # NoCall /\ call'[v].p = call'[u].p => v = u
    <3>1. NoCall.p = None /\ p # None
      BY ArpAssumption DEF NoCall
    <3>2. \A v \in Tasks : call[v] # NoCall => call[v].p # None
      BY <1>3, CallIs DEF CallType
    <3>3. \A v, u \in Tasks : call[v] # NoCall /\ call[v].p = call[u].p => v = u
      BY DEF TInv, Calls
    <3> QED BY <1>2, <1>5, <3>1, <3>2, <3>3
  <2> QED BY <1>2, <2>1, <2>2 DEF Calls, Tasks
<1> QED BY <1>2, <1>7 DEF TInv

\* A step that leaves the calls and their packets alone.
LEMMA OtherTInv ==
    ASSUME TInv, AInv', Rerequests', call' = call, Keeps({x \in InHand : x \in Packets}),
           \A u \in Tasks : call[u] # NoCall => ~Disturbed(u)
    PROVE  TInv'
<1>1. AInv /\ CallType /\ \A u \in Tasks : call[u] # NoCall => CallOK(call[u])
  BY DEF TInv, Calls
<1>2. ASSUME NEW u \in Tasks, call[u] # NoCall PROVE CallOK(call[u])'
  <2>1. PICK c \in Call : c = call[u]
    BY <1>1, <1>2 DEF CallType
  <2>2. c.p \in Packets /\ c.p \in InHand /\ CallOK(c) /\ call'[u] = c
    BY <1>1, <1>2, <2>1, CallIs DEF InHand
  <2>3. \A j \in Index : arp_table[j].q # c.p
    BY <1>1, <2>2, InHandNotQueued DEF CallOK
  <2>4. ref'[c.p] = ref[c.p] /\ owned'[c.p] = owned[c.p] /\ hop'[c.p] = hop[c.p]
    BY <2>2, <2>3 DEF Keeps
  <2>5. ~Disturbed(u)
    BY <1>2
  <2> QED BY <2>1, <2>2, <2>4, <2>5, KeptCall
<1>3. Calls'
  BY <1>2 DEF TInv, Calls, CallType, Tasks
<1> QED BY <1>3 DEF TInv

\* Every step but a race keeps the table, the references, the histories and
\* what the calls rely on.
LEMMA NextRInv == RInv /\ [Next]_vars => RInv'
<1> SUFFICES ASSUME TInv, ~raced, [Next]_vars, ~raced' PROVE TInv'
  <2>1. [Next]_vars /\ ~raced' => ~raced
    BY DEF Next, vars, tcpip_thread, netif_set_addr, Task, RacedBy
  <2> QED BY <2>1 DEF RInv
<1>0. AInv /\ Rerequests
  BY DEF TInv
<1>1. CASE tcpip_thread
  <2>1. PICK P \in SUBSET Packets : P = Packets \ InHand
    OBVIOUS
  <2>2. TableNext(P) /\ call' = call /\ RacedBy("tcpip_thread")
    BY <1>1, <2>1 DEF tcpip_thread
  <2>3. AInv' /\ Rerequests' /\ Keeps(Packets \ P)
    BY <1>0, <2>2, TableAInv, TableRerequests, TableKeeps
  <2>4. {x \in InHand : x \in Packets} \subseteq Packets \ P
    BY <2>1
  <2>5. Keeps({x \in InHand : x \in Packets})
    BY <2>3, <2>4 DEF Keeps
  <2>6. \A u \in Tasks : ~Disturbed(u)
    BY <2>2 DEF RacedBy, Tasks
  <2> QED BY <2>2, <2>3, <2>5, <2>6, OtherTInv
<1>2. CASE netif_set_addr
  <2>1. PICK g \in Gateways \cup {None} : netif_set_gw(g)
    BY <1>2 DEF netif_set_addr
  <2>2. call' = call /\ RacedBy("dhcpTask") /\ call["dhcpTask"].pc = "idle"
    BY <1>2 DEF netif_set_addr
  <2>3. AInv'
    BY <1>0, <2>1, GatewayAInv
  <2>4. Rerequests'
    BY <1>0, <2>1, SameRerequests DEF netif_set_gw
  <2>5. Keeps({x \in InHand : x \in Packets})
    BY <2>1 DEF Keeps, netif_set_gw
  <2>6. \A u \in Tasks : call[u] # NoCall => ~Disturbed(u)
    <3>1. call["dhcpTask"] = NoCall
      BY <2>2, CallIs DEF TInv, Calls, CallType, Tasks
    <3> QED BY <2>2, <3>1 DEF RacedBy
  <2> QED BY <2>2, <2>3, <2>4, <2>5, <2>6, OtherTInv
<1>3. ASSUME NEW t \in Tasks, Task(t) PROVE TInv'
  BY <1>3, TaskTInv
<1>4. CASE UNCHANGED vars
  <2>1. UNCHANGED <<arp_table, etharp_cached_entry, gw, ref, owned, hop, heard, sent, use, call>>
    BY <1>4 DEF vars, tableVars
  <2>2. TableOK'
    BY <1>0, <2>1 DEF AInv, TableOK, Index, Pending, Entry
  <2>3. Entries' /\ Told' /\ Queued' /\ Refs' /\ Sent'
    BY <1>0, <2>1 DEF AInv, Entries, Told, Queued, Refs, Sent, Index, Stable, Pending
  <2>4. AInv' /\ Rerequests'
    BY <1>0, <2>1, <2>2, <2>3, SameRerequests DEF AInv
  <2>5. Keeps({x \in InHand : x \in Packets})
    BY <2>1 DEF Keeps
  <2>6. \A u \in Tasks : call[u] # NoCall => ~Disturbed(u)
    BY <2>1 DEF Disturbed
  <2> QED BY <2>1, <2>4, <2>5, <2>6, OtherTInv
<1> QED BY <1>1, <1>2, <1>3, <1>4 DEF Next

LEMMA RInvAlways == Spec => []RInv
<1>1. Init => RInv
  <2> SUFFICES ASSUME Init PROVE TInv
    BY DEF RInv
  <2>1. AInv /\ Rerequests
    BY InitAInv, InitRerequests DEF Init
  <2>2. Calls
    BY DEF Init, Calls, CallType, Tasks
  <2> QED BY <2>1, <2>2 DEF TInv
<1> QED BY <1>1, NextRInv, PTL DEF Spec

\* etharp_output(), etharp_query(), etharp_update_arp_entry(): unless a call
\* was disturbed, every packet goes to the hardware address its next hop told
\* last, whichever entry is cached, recycled or waited on, in whichever thread,
\* and no host ever has two entries.
THEOREM RightHostAlways == Spec => []RightHost
<1>1. RInv => RightHost
  <2> SUFFICES ASSUME RInv, ~raced PROVE RightHost
    BY DEF RightHost
  <2>1. None \notin Hosts /\ None \notin Macs
    BY ArpAssumption
  <2>2. AInv
    BY DEF RInv, TInv
  <2> QED BY <2>1, <2>2 DEF AInv, Entries, Sent, RightHost
<1> QED BY <1>1, RInvAlways, PTL

\* etharp_query(), etharp_free_entry(), etharp_update_arp_entry(): unless a
\* call was disturbed, the references to a packet are its sender's and that of
\* the one pending entry it waits on, for any number of entries and packets.
THEOREM NoPbufLeakAlways == Spec => []NoPbufLeak
<1>1. RInv => NoPbufLeak
  <2> SUFFICES ASSUME RInv, ~raced, NEW p \in Packets
               PROVE  ref[p] = (IF owned[p] THEN 1 ELSE 0)
                          + Cardinality({i \in Index : Pending(i) /\ arp_table[i].q = p})
    BY DEF NoPbufLeak
  <2> DEFINE W == {i \in Index : Pending(i) /\ arp_table[i].q = p}
  <2>0. AInv
    BY DEF RInv, TInv
  <2>1. p # None
    BY ArpAssumption
  <2>2. ref[p] = (IF owned[p] THEN 1 ELSE 0)
                 + (IF \E i \in Index : arp_table[i].q = p THEN 1 ELSE 0)
    BY <2>0 DEF AInv, Refs
  <2>3. CASE \E i \in Index : arp_table[i].q = p
    <3>1. PICK i \in Index : arp_table[i].q = p
      BY <2>3
    <3>2. W = {i}
      BY <2>0, <2>1, <3>1 DEF AInv, Entries, Queued
    <3>3. Cardinality(W) = 1
      BY <3>2, FS_Singleton
    <3> QED BY <2>2, <2>3, <3>3
  <2>4. CASE ~\E i \in Index : arp_table[i].q = p
    <3>1. W = {}
      BY <2>4
    <3>2. Cardinality(W) = 0
      BY <3>1, FS_EmptySet
    <3> QED BY <2>2, <2>4, <3>2
  <2> QED BY <2>3, <2>4
<1> QED BY <1>1, RInvAlways, PTL

\* Among the steps of a task only etharp_free_entry() empties an entry.
LEMMA TaskEmpties ==
    ASSUME TInv, NEW t \in Tasks, Task(t), call' = call, NEW i \in Index, Stable(i)
    PROVE  arp_table'[i].state # EMPTY
<1>0. /\ arp_table \in [Index -> Entry] /\ call[t] \in Call \cup {NoCall}
      /\ call \in [Tasks -> Call \cup {NoCall}]
      /\ arp_table[i].state # EMPTY
  BY DEF TInv, AInv, TableOK, Calls, CallType, Stable, StableStates, EMPTY, STABLE,
         REREQUESTING_1, REREQUESTING_2
<1>1. call[t].pc # "idle" => call[t] \in Call /\ call[t].i \in Index
  BY <1>0, CallIs DEF NoCall
<1>2. CASE arp_table' = arp_table
  BY <1>0, <1>2
<1>3. CASE \E ok \in BOOLEAN : rerequest(t, ok)
  <2>1. PICK n \in Index : n = call[t].i
    BY <1>1, <1>3 DEF rerequest
  <2>2. \/ arp_table' = arp_table
        \/ arp_table' = [arp_table EXCEPT ![n].state = REREQUESTING_1]
    BY <1>3, <2>1 DEF rerequest
  <2> QED BY <1>0, <2>2 DEF Entry, EMPTY, REREQUESTING_1
<1>4. CASE recycle(t)
  <2>1. call[t].pc = "recycle" /\ call'[t] = [call[t] EXCEPT !.pc = "mark"]
    BY <1>0, <1>4 DEF recycle, Goto
  <2>2. call'[t].pc = "mark"
    BY <1>1, <2>1 DEF Call
  <2> QED BY <2>1, <2>2
<1>5. CASE mark(t)
  <2>1. PICK n \in Index : n = call[t].i
    BY <1>1, <1>5 DEF mark
  <2>2. \/ arp_table' = arp_table
        \/ /\ arp_table[n].state = EMPTY
           /\ \E e : arp_table' = [arp_table EXCEPT ![n] = e]
    BY <1>5, <2>1 DEF mark
  <2> QED BY <1>0, <2>2
<1>6. CASE put(t)
  <2>1. PICK n \in Index : n = call[t].i
    BY <1>1, <1>6 DEF put
  <2>2. arp_table' = [arp_table EXCEPT ![n].q = call[t].p]
    BY <1>6, <2>1 DEF put
  <2> QED BY <1>0, <2>2 DEF Entry
<1> QED BY <1>2, <1>3, <1>4, <1>5, <1>6 DEF Task, begin, cached, search, send, scan, queue

\* etharp_output_to_arp_index() and etharp_tmr(): whatever the ages are, the
\* entry of a host that is sent to in every second of its last age does not
\* expire before it was tried to ask the host again, once in two seconds, first
\* directly and then by broadcast, unless a call was disturbed.
THEOREM SteadyUseAlways == Spec => SteadyUse
<1>1. ASSUME RInv, [Next]_vars, ~raced, call' = call, NEW i \in Index,
             Stable(i), arp_table'[i].state = EMPTY, use[i].steady, use[i].used
      PROVE  use[i].unicast >= MinUnicast /\ use[i].broadcast >= MinBroadcast
  <2>0. TInv /\ AInv /\ Rerequests
    BY <1>1 DEF RInv, TInv
  <2>1. CASE tcpip_thread
    <3>1. PICK P \in SUBSET Packets : TableNext(P)
      BY <2>1 DEF tcpip_thread
    <3> QED BY <1>1, <2>0, <3>1, TableRerequests
  <2>2. arp_table' # arp_table
    BY <1>1 DEF Stable, StableStates, EMPTY, STABLE, REREQUESTING_1, REREQUESTING_2
  <2>3. ~netif_set_addr /\ ~UNCHANGED vars
    BY <2>2 DEF netif_set_addr, netif_set_gw, vars, tableVars
  <2>4. ~\E t \in Tasks : Task(t)
    BY <1>1, <2>0, TaskEmpties
  <2> QED BY <1>1, <2>1, <2>3, <2>4 DEF Next
<1>2. RInv /\ [Next]_vars =>
        [(~raced /\ UNCHANGED call) =>
           \A i \in Index :
              (/\ Stable(i) /\ arp_table'[i].state = EMPTY
               /\ use[i].steady /\ use[i].used)
              => use[i].unicast >= MinUnicast /\ use[i].broadcast >= MinBroadcast]_vars
  BY <1>1
<1> QED BY <1>2, RInvAlways, PTL DEF Spec, SteadyUse

\* etharp.c:797 asserts the core lock: only a call of dhcpTask, or the gateway
\* it sets, both without the lock, can disturb a call or be disturbed.
THEOREM LockSuffices ==
    Spec => [][call["dhcpTask"].pc = "idle" /\ gw' = gw => (raced' => raced)]_vars
<1>1. ASSUME [Next]_vars, call["dhcpTask"].pc = "idle", gw' = gw PROVE raced' => raced
  <2>1. ~Disturbed("dhcpTask")
    BY <1>1 DEF Disturbed, Using
  <2>2. CASE tcpip_thread
    <3>1. call["tcp_srv"].pc = "idle"
      BY <2>2 DEF tcpip_thread, CoreLocked
    <3>2. ~Disturbed("tcp_srv")
      BY <3>1 DEF Disturbed, Using
    <3> QED BY <2>1, <2>2, <3>2 DEF tcpip_thread, RacedBy, Tasks
  <2>3. CASE netif_set_addr
    BY <1>1, <2>3 DEF netif_set_addr, netif_set_gw
  <2>4. CASE Task("tcp_srv")
    BY <2>1, <2>4 DEF Task, RacedBy, Tasks
  <2>5. CASE Task("dhcpTask")
    <3>1. arp_table' = arp_table
      BY <1>1, <2>5 DEF Task, begin, cached, search, rerequest, send, scan, recycle, mark, queue, put
    <3>2. ~Disturbed("tcp_srv")
      BY <1>1, <3>1 DEF Disturbed
    <3> QED BY <2>5, <3>2 DEF Task, RacedBy, Tasks
  <2>6. CASE UNCHANGED vars
    BY <2>6 DEF vars
  <2> QED BY <1>1, <2>2, <2>3, <2>4, <2>5, <2>6 DEF Next, Tasks
<1>2. [Next]_vars => [call["dhcpTask"].pc = "idle" /\ gw' = gw => (raced' => raced)]_vars
  BY <1>1
<1> QED BY <1>2, PTL DEF Spec

-----------------------------------------------------------------------------
(* Types, also after a race                                                *)

Young(i) == Pending(i) => arp_table[i].ctime < ARP_MAXPENDING

\* One entry of the table is rewritten.
LEMMA RewriteType ==
    ASSUME TableOK, NEW i \in Index, NEW e \in Entry, arp_table' = [arp_table EXCEPT ![i] = e],
           e.state = PENDING => e.ctime < ARP_MAXPENDING
    PROVE  arp_table' \in [Index -> Entry] /\ \A j \in Index : Young(j)'
<1>1. /\ arp_table' \in [Index -> Entry] /\ arp_table'[i] = e
      /\ \A j \in Index \ {i} : arp_table'[j] = arp_table[j]
  BY DEF TableOK
<1>2. \A j \in Index : arp_table[j].state = PENDING => arp_table[j].ctime < ARP_MAXPENDING
  BY DEF TableOK, Pending
<1> QED BY <1>1, <1>2 DEF Young, Pending

\* The state after a step whose parts are typed.
LEMMA TypeParts ==
    ASSUME arp_table' \in [Index -> Entry], \A j \in Index : Young(j)',
           etharp_cached_entry' \in Index, gw' \in Gateways \cup {None},
           ref' \in [Packets -> 0 .. 2], owned' \in [Packets -> BOOLEAN],
           hop' \in [Packets -> Hosts \cup {None}], heard' \in [Hosts -> Macs \cup {None}],
           sent' \in SUBSET ((Hosts \cup {None}) \X (Macs \cup {None})),
           use' \in [Index -> UseType]
    PROVE  TableOK'
BY DEF TableOK, Young, UseType, Index, Entry

\* What is typed before a step.
LEMMA TypeBefore ==
    ASSUME TableOK
    PROVE  /\ arp_table \in [Index -> Entry] /\ \A j \in Index : Young(j)
           /\ etharp_cached_entry \in Index /\ gw \in Gateways \cup {None}
           /\ ref \in [Packets -> 0 .. 2] /\ owned \in [Packets -> BOOLEAN]
           /\ hop \in [Packets -> Hosts \cup {None}] /\ heard \in [Hosts -> Macs \cup {None}]
           /\ sent \in SUBSET ((Hosts \cup {None}) \X (Macs \cup {None}))
           /\ use \in [Index -> UseType]
           /\ {} \in SUBSET ((Hosts \cup {None}) \X (Macs \cup {None}))
BY DEF TableOK, Young, UseType

\* A table that stays.
LEMMA SameType ==
    ASSUME TableOK, arp_table' = arp_table
    PROVE  arp_table' \in [Index -> Entry] /\ \A j \in Index : Young(j)'
BY DEF TableOK, Young, Pending

\* pbuf_free() gives a reference back, if there is one.
LEMMA FreeType ==
    ASSUME NEW r \in [Packets -> 0 .. 2], NEW q
    PROVE  pbuf_free(r, q) \in [Packets -> 0 .. 2] /\ \A x \in Packets : pbuf_free(r, q)[x] <= r[x]
<1>1. CASE q = None
  BY <1>1 DEF pbuf_free
<1>2. CASE q # None
  <2>1. PICK f : f = pbuf_free(r, q)
    OBVIOUS
  <2>2. f = [r EXCEPT ![q] = IF r[q] = 0 THEN 0 ELSE r[q] - 1]
    BY <1>2, <2>1 DEF pbuf_free
  <2>3. \A x \in Packets : f[x] \in 0 .. 2 /\ f[x] <= r[x]
    BY <2>2
  <2>4. f \in [Packets -> 0 .. 2]
    BY <2>2, <2>3
  <2> QED BY <2>1, <2>3, <2>4
<1> QED BY <1>1, <1>2

\* etharp_query() by the tcpip thread.
LEMMA QueryType ==
    ASSUME TableOK, NEW ip \in Hosts \cup {None}, NEW p \in Packets \cup {None},
           NEW r \in [Packets -> 0 .. 2], etharp_query(ip, p, r),
           \A i \in Matching(ip) : ~Stable(i)
    PROVE  /\ arp_table' \in [Index -> Entry] /\ \A j \in Index : Young(j)'
           /\ ref' \in [Packets -> 0 .. 2] /\ \A x \in Packets : ref'[x] <= r[x]
           /\ use' \in [Index -> UseType]
           /\ sent' \in SUBSET ((Hosts \cup {None}) \X (Macs \cup {None}))
           /\ etharp_cached_entry' \in Index
<1>1. PICK n \in Index : n = find_entry(ip)
  BY FindEntry
<1>2. PICK o \in Entry : o = arp_table[n]
  BY TypeBefore
<1>3. PICK new \in BOOLEAN : new = (n \notin Matching(ip))
  OBVIOUS
<1>4. ~new => o.state = PENDING /\ o.ctime < ARP_MAXPENDING
  <2>1. ASSUME ~new PROVE o.state = PENDING
    BY <1>2, <1>3, <2>1 DEF Matching, Stable, Entry
  <2> QED BY <1>2, <2>1, TypeBefore DEF Young, Pending
<1>5. PICK e : e = [state |-> PENDING, ip |-> ip, mac |-> None,
                    ctime |-> IF new THEN 0 ELSE o.ctime,
                    q |-> IF p # None THEN p ELSE IF new THEN None ELSE o.q]
  OBVIOUS
<1>6. e \in Entry /\ e.ctime < ARP_MAXPENDING
  BY <1>4, <1>5, ArpAssumption DEF Entry
<1>7. arp_table' = [arp_table EXCEPT ![n] = e]
  BY <1>1, <1>2, <1>3, <1>5 DEF etharp_query
<1>8. arp_table' \in [Index -> Entry] /\ \A j \in Index : Young(j)'
  BY <1>6, <1>7, RewriteType
<1>9. ref' \in [Packets -> 0 .. 2] /\ \A x \in Packets : ref'[x] <= r[x]
  <2>1. PICK q : ref' = r \/ ref' = pbuf_free(r, q)
    BY DEF etharp_query
  <2> QED BY <2>1, FreeType
<1>10. use' \in [Index -> UseType] /\ etharp_cached_entry' \in Index
  BY <1>1, TypeBefore, UseValues DEF etharp_query
<1> QED BY <1>8, <1>9, <1>10 DEF etharp_query

\* Every operation of the tcpip thread keeps the types, and gives a packet
\* that a task has in hand no reference.
LEMMA TableType ==
    ASSUME TableOK, NEW P \in SUBSET Packets, TableNext(P)
    PROVE  TableOK' /\ \A x \in Packets \ P : ref'[x] <= ref[x]
<1> DEFINE Goal == TableOK' /\ \A x \in Packets \ P : ref'[x] <= ref[x]
<1>0. \A x \in Packets : ref[x] \in 0 .. 2
  BY TypeBefore
<1>1. ASSUME NEW p \in P, NEW ip \in Hosts \cup {Far}, etharp_output(p, ip) PROVE Goal
  <2>1. /\ owned' = [owned EXCEPT ![p] = TRUE] /\ Heard(<<>>) /\ gw' = gw /\ p \in Packets
    BY <1>1 DEF etharp_output
  <2>2. /\ heard' \in [Hosts -> Macs \cup {None}]
        /\ owned' \in [Packets -> BOOLEAN] /\ gw' \in Gateways \cup {None}
    BY <2>1, TypeBefore, HeardNothing
  <2>3. PICK h \in Hosts \cup {None} : h = NextHop(ip)
    BY NextHopType
  <2>4. ASSUME ref' = [ref EXCEPT ![p] = 1], hop' = hop
        PROVE  /\ ref' \in [Packets -> 0 .. 2] /\ hop' \in [Packets -> Hosts \cup {None}]
               /\ \A x \in Packets \ P : ref'[x] <= ref[x]
    BY <1>0, <2>1, <2>4, TypeBefore
  <2>5. CASE /\ ref' = [ref EXCEPT ![p] = 1] /\ sent' = {}
             /\ UNCHANGED <<arp_table, etharp_cached_entry, hop, use>>
    BY <2>2, <2>4, <2>5, SameType, TypeBefore, TypeParts
  <2>6. ASSUME NEW i \in StableEntry(h), NEW ok \in BOOLEAN, output_to_arp_index(i, h, ok),
               ref' = [ref EXCEPT ![p] = 1], hop' = hop
        PROVE  Goal
    <3>1. i \in Index /\ Stable(i) /\ etharp_cached_entry' = i /\ sent' = {<<h, arp_table[i].mac>>}
      BY <2>6, StableEntryIs DEF output_to_arp_index
    <3>2. PICK ucast \in BOOLEAN, bcast \in BOOLEAN :
             use' = [use EXCEPT ![i] = Used(use[i], ucast, bcast)]
      BY <2>6 DEF output_to_arp_index, UnicastDue, BroadcastDue
    <3>3. \/ arp_table' = arp_table
          \/ arp_table' = [arp_table EXCEPT ![i].state = REREQUESTING_1]
      BY <2>6 DEF output_to_arp_index
    <3>4. /\ arp_table' \in [Index -> Entry] /\ use' \in [Index -> UseType]
          /\ \A j \in Index : Pending(j)' = Pending(j) /\ arp_table'[j].ctime = arp_table[j].ctime
      BY <3>1, <3>2, <3>3, OutputTable
    <3>5. \A j \in Index : Young(j)'
      BY <3>4, TypeBefore DEF Young
    <3>6. sent' \in SUBSET ((Hosts \cup {None}) \X (Macs \cup {None}))
      BY <3>1, TypeBefore DEF Entry
    <3> QED BY <2>2, <2>4, <2>6, <3>1, <3>4, <3>5, <3>6, TypeParts
  <2>7. CASE /\ StableEntry(h) = {} /\ etharp_query(h, p, [ref EXCEPT ![p] = 2])
             /\ Waiting([hop EXCEPT ![p] = h])
    <3>1. PICK r, g : r = [ref EXCEPT ![p] = 2] /\ g = [hop EXCEPT ![p] = h]
      OBVIOUS
    <3>2. /\ r \in [Packets -> 0 .. 2] /\ g \in [Packets -> Hosts \cup {None}]
          /\ \A x \in Packets \ P : r[x] = ref[x]
      BY <2>1, <3>1, TypeBefore
    <3>3. etharp_query(h, p, r) /\ Waiting(g)
      BY <2>7, <3>1
    <3>4. \A i \in Matching(h) : ~Stable(i)
      BY <2>7, NoStableEntry DEF Matching
    <3>5. p \in Packets \cup {None}
      BY <2>1
    <3>6. /\ arp_table' \in [Index -> Entry] /\ \A j \in Index : Young(j)'
          /\ ref' \in [Packets -> 0 .. 2] /\ \A x \in Packets : ref'[x] <= r[x]
          /\ use' \in [Index -> UseType]
          /\ sent' \in SUBSET ((Hosts \cup {None}) \X (Macs \cup {None}))
          /\ etharp_cached_entry' \in Index
      BY <3>2, <3>3, <3>4, <3>5, QueryType
    <3>7. hop' \in [Packets -> Hosts \cup {None}]
      BY <3>2, <3>3, <3>6, WaitingHop
    <3>8. \A x \in Packets \ P : ref'[x] <= ref[x]
      BY <3>2, <3>6
    <3> QED BY <2>2, <3>6, <3>7, <3>8, TypeParts
  <2> QED BY <1>1, <2>3, <2>5, <2>6, <2>7 DEF etharp_output
<1>2. ASSUME NEW p \in P, Release(p) PROVE Goal
  <2>1. /\ ref' = pbuf_free(ref, p) /\ owned' = [owned EXCEPT ![p] = FALSE] /\ sent' = {}
        /\ UNCHANGED <<arp_table, etharp_cached_entry, gw, hop, heard, use>>
    BY <1>2 DEF Release
  <2>2. ref' \in [Packets -> 0 .. 2] /\ \A x \in Packets : ref'[x] <= ref[x]
    BY <2>1, TypeBefore, FreeType
  <2>3. owned' \in [Packets -> BOOLEAN]
    BY <2>1, TypeBefore
  <2> QED BY <2>1, <2>2, <2>3, SameType, TypeBefore, TypeParts
<1>3. ASSUME NEW ip \in Hosts, dhcp_check(ip) PROVE Goal
  <2>1. /\ etharp_query(ip, None, ref) /\ Waiting(hop) /\ Heard(<<>>)
        /\ UNCHANGED <<gw, owned>>
    BY <1>3 DEF dhcp_check
  <2>2. \A i \in Matching(ip) : ~Stable(i)
    BY <1>3 DEF dhcp_check, Stable, Pending, StableStates, PENDING, STABLE, REREQUESTING_1,
                REREQUESTING_2
  <2>3. None \in Packets \cup {None} /\ ip \in Hosts \cup {None} /\ ref \in [Packets -> 0 .. 2]
    BY TypeBefore
  <2>4. /\ arp_table' \in [Index -> Entry] /\ \A j \in Index : Young(j)'
        /\ ref' \in [Packets -> 0 .. 2] /\ \A x \in Packets : ref'[x] <= ref[x]
        /\ use' \in [Index -> UseType]
        /\ sent' \in SUBSET ((Hosts \cup {None}) \X (Macs \cup {None}))
        /\ etharp_cached_entry' \in Index
    BY <2>1, <2>2, <2>3, QueryType
  <2>5. hop' \in [Packets -> Hosts \cup {None}]
    BY <2>1, <2>4, TypeBefore, WaitingHop
  <2>6. heard' \in [Hosts -> Macs \cup {None}]
    BY <2>1, HeardNothing
  <2> QED BY <2>1, <2>4, <2>5, <2>6, TypeBefore, TypeParts
<1>4. ASSUME NEW g \in Gateways \cup {None}, netif_set_gw(g) PROVE Goal
  BY <1>0, <1>4, SameType, TypeBefore, TypeParts DEF netif_set_gw
<1>5. ASSUME NEW ip \in Hosts, NEW mac \in Macs, NEW for_us \in BOOLEAN,
             etharp_input(ip, mac, for_us)
      PROVE  Goal
  <2>1. Waiting(hop) /\ HeardOf(ip, mac) /\ UNCHANGED <<etharp_cached_entry, gw, owned>>
    BY <1>5 DEF etharp_input, HeardOf
  <2>2. heard' \in [Hosts -> Macs \cup {None}]
    BY <2>1, HeardHost
  <2>3. ASSUME arp_table' \in [Index -> Entry]
        PROVE  hop' \in [Packets -> Hosts \cup {None}]
    BY <2>1, <2>3, TypeBefore, WaitingHop
  <2>4. CASE sent' = {} /\ UNCHANGED <<arp_table, ref, use>>
    BY <1>0, <2>1, <2>2, <2>3, <2>4, SameType, TypeBefore, TypeParts
  <2>5. CASE update_arp_entry(find_entry(ip), ip, mac)
    <3>1. PICK n \in Index : n = find_entry(ip)
      BY FindEntry
    <3>2. PICK e : e = [state |-> STABLE, ip |-> ip, mac |-> mac, ctime |-> 0, q |-> None]
      OBVIOUS
    <3>3. e \in Entry /\ e.state # PENDING
      <4>1. 0 \in 0 .. ARP_MAXAGE - 1 /\ STABLE \in {EMPTY, PENDING} \cup StableStates
        BY ArpAssumption DEF StableStates
      <4> QED BY <3>2, <4>1 DEF Entry, STABLE, PENDING
    <3>4. /\ arp_table' = [arp_table EXCEPT ![n] = e]
          /\ use' = [use EXCEPT ![n] = Unused] /\ ref' = pbuf_free(ref, arp_table[n].q)
          /\ \/ sent' = {}
             \/ arp_table[n].q # None /\ sent' = {<<hop[arp_table[n].q], mac>>}
      BY <2>5, <3>1, <3>2 DEF update_arp_entry
    <3>5. arp_table' \in [Index -> Entry] /\ \A j \in Index : Young(j)'
      BY <3>3, <3>4, RewriteType
    <3>6. ref' \in [Packets -> 0 .. 2] /\ \A x \in Packets : ref'[x] <= ref[x]
      BY <3>4, TypeBefore, FreeType
    <3>7. use' \in [Index -> UseType]
      BY <3>4, TypeBefore, UseValues
    <3>8. sent' \in SUBSET ((Hosts \cup {None}) \X (Macs \cup {None}))
      <4>1. arp_table[n].q \in Packets \cup {None}
        BY TypeBefore DEF Entry
      <4> QED BY <3>4, <4>1, TypeBefore
    <3> QED BY <2>1, <2>2, <2>3, <3>5, <3>6, <3>7, <3>8, TypeBefore, TypeParts
  <2> QED BY <1>5, <2>4, <2>5 DEF etharp_input
<1>6. CASE etharp_tmr
  <2>1. /\ arp_table' = [i \in Index |-> Aged(arp_table[i])] /\ sent' = {} /\ Heard(<<>>)
        /\ Waiting(hop) /\ UNCHANGED <<etharp_cached_entry, gw, owned>>
    BY <1>6 DEF etharp_tmr
  <2>2. \A i \in Index : /\ arp_table'[i] \in Entry
                         /\ Pending(i)' => arp_table'[i].ctime < ARP_MAXPENDING
    BY <2>1, TimerTable
  <2>3. arp_table' \in [Index -> Entry] /\ \A i \in Index : Young(i)'
    BY <2>1, <2>2 DEF Young
  <2>4. hop' \in [Packets -> Hosts \cup {None}] /\ heard' \in [Hosts -> Macs \cup {None}]
    BY <2>1, <2>3, TypeBefore, WaitingHop, HeardNothing
  <2>5. use' \in [Index -> UseType]
    <3>1. use' = [i \in Index |-> use'[i]]
      BY <1>6 DEF etharp_tmr
    <3>2. \A i \in Index : use'[i] \in UseType
      BY <1>6, TimerUse
    <3> QED BY <3>1, <3>2
  <2>6. ref' \in [Packets -> 0 .. 2] /\ \A x \in Packets : ref'[x] <= ref[x]
    <3>1. ref' = [x \in Packets |-> ref'[x]]
      BY <1>6 DEF etharp_tmr
    <3>2. ASSUME NEW x \in Packets PROVE ref'[x] \in 0 .. 2 /\ ref'[x] <= ref[x]
      <4>1. ref'[x] = ref[x] \/ ref'[x] = pbuf_free(ref, x)[x]
        BY <1>6 DEF etharp_tmr
      <4> QED BY <1>0, <4>1, TypeBefore, FreeType
    <3> QED BY <3>1, <3>2
  <2> QED BY <2>1, <2>3, <2>4, <2>5, <2>6, TypeBefore, TypeParts
<1> QED BY <1>1, <1>2, <1>3, <1>4, <1>5, <1>6 DEF TableNext

\* The tasks have packets of their own in hand, with no other reference.
Hands ==
    /\ \A t \in Tasks : call[t] # NoCall => ref[call[t].p] <= 1
    /\ \A t, u \in Tasks : call[t] # NoCall /\ call[t].p = call[u].p => t = u

\* A step of a task in its call c keeps the types, and gives a packet other
\* than c's no reference, c's only at the end.
LEMMA TaskType ==
    ASSUME TypeOK, NEW t \in Tasks, NEW c \in Call, call[t] = c, ref[c.p] <= 1,
           \/ cached(t) \/ search(t) \/ send(t) \/ scan(t) \/ recycle(t)
           \/ mark(t) \/ queue(t) \/ put(t) \/ \E ok \in BOOLEAN : rerequest(t, ok)
    PROVE  /\ TableOK'
           /\ \E d \in Call \cup {NoCall} :
                 /\ Goto(t, d) /\ (d # NoCall => d.p = c.p)
                 /\ \A x \in Packets : x # c.p \/ d # NoCall => ref'[x] <= ref[x]
<1> DEFINE Goal == /\ TableOK'
                   /\ \E d \in Call \cup {NoCall} :
                         /\ Goto(t, d) /\ (d # NoCall => d.p = c.p)
                         /\ \A x \in Packets : x # c.p \/ d # NoCall => ref'[x] <= ref[x]
<1>0. /\ TableOK /\ CallType
      /\ \A x \in Packets : ref[x] \in 0 .. 2
  BY TypeBefore DEF TypeOK, CallType
<1>1. PICK i \in Index, p \in Packets : i = c.i /\ p = c.p
  BY CallIs
<1>2. ASSUME NEW s \in Steps
      PROVE  /\ [c EXCEPT !.pc = s] \in Call /\ [c EXCEPT !.pc = s].p = p
             /\ \A j \in Index : /\ [c EXCEPT !.pc = s, !.i = j] \in Call
                                 /\ [c EXCEPT !.pc = s, !.i = j].p = p
             /\ \A q \in Packets \cup {None} : /\ [c EXCEPT !.pc = s, !.q = q] \in Call
                                               /\ [c EXCEPT !.pc = s, !.q = q].p = p
  BY <1>1 DEF Call
<1>3. /\ "rerequest" \in Steps /\ "send" \in Steps /\ "search" \in Steps /\ "scan" \in Steps
      /\ "recycle" \in Steps /\ "mark" \in Steps /\ "queue" \in Steps /\ "put" \in Steps
  BY DEF Steps, Using
<1>4. ASSUME ref' = ref, NEW d \in Call \cup {NoCall}, Goto(t, d), d # NoCall => d.p = p
      PROVE  \E z \in Call \cup {NoCall} :
                 /\ Goto(t, z) /\ (z # NoCall => z.p = c.p)
                 /\ \A x \in Packets : x # c.p \/ z # NoCall => ref'[x] <= ref[x]
  BY <1>0, <1>1, <1>4
<1>5. dst_addr(t) \in Hosts \cup {None}
  BY <1>0, CallIs, NextHopType DEF dst_addr
<1>6. CASE cached(t) \/ search(t)
  <2>1. PICK n \in Index, m \in Nat : found(t, n) \/ not_found(t, n, m)
    BY <1>0, <1>1, <1>6, TypeBefore DEF cached, search, Index
  <2>2. sent' = {} /\ UNCHANGED <<arp_table, gw, ref, owned, hop, heard>>
    BY <1>6 DEF cached, search
  <2>3. CASE found(t, n)
    <3>1. PICK s \in Steps : Goto(t, [c EXCEPT !.pc = s, !.i = n])
      BY <1>3, <2>3 DEF found
    <3>2. use' \in [Index -> UseType] /\ etharp_cached_entry' \in Index
      <4>1. use' = use \/ use' = [use EXCEPT ![n] = Used(use[n], FALSE, FALSE)]
        BY <2>3 DEF found
      <4> QED BY <1>0, <2>2, <2>3, <4>1, TypeBefore, OutputTable DEF found
    <3>3. TableOK'
      BY <1>0, <2>2, <3>2, SameType, TypeBefore, TypeParts
    <3> QED BY <1>2, <1>4, <2>2, <3>1, <3>3
  <2>4. CASE not_found(t, n, m)
    <3>1. PICK s \in Steps, j \in Index : Goto(t, [c EXCEPT !.pc = s, !.i = j])
      <4>1. 0 \in Index
        BY ArpAssumption DEF Index
      <4>2. CASE m \in Index
        BY <1>3, <2>4, <4>2 DEF not_found
      <4>3. CASE m \notin Index
        BY <1>3, <2>4, <4>1, <4>3 DEF not_found
      <4> QED BY <4>2, <4>3
    <3>2. TableOK'
      BY <1>0, <2>2, <2>4, SameType, TypeBefore, TypeParts DEF not_found
    <3> QED BY <1>2, <1>4, <2>2, <3>1, <3>2
  <2> QED BY <2>1, <2>3, <2>4
<1>7. CASE \E ok \in BOOLEAN : rerequest(t, ok)
  <2>1. /\ sent' = {} /\ UNCHANGED <<etharp_cached_entry, gw, ref, owned, hop, heard>>
        /\ Goto(t, [c EXCEPT !.pc = "send"])
    BY <1>7 DEF rerequest
  <2>2. \/ arp_table' = arp_table
        \/ arp_table' = [arp_table EXCEPT ![i].state = REREQUESTING_1]
    BY <1>1, <1>7 DEF rerequest
  <2>3. PICK ucast \in BOOLEAN, bcast \in BOOLEAN :
           use' = [use EXCEPT ![i] = Used(use[i], ucast, bcast)]
    BY <1>1, <1>7 DEF rerequest, UnicastDue, BroadcastDue
  <2>4. /\ arp_table' \in [Index -> Entry] /\ use' \in [Index -> UseType]
        /\ \A j \in Index : /\ arp_table'[j].ctime = arp_table[j].ctime
                            /\ \/ arp_table'[j].state = arp_table[j].state
                               \/ arp_table'[j].state = REREQUESTING_1
    BY <1>0, <2>2, <2>3, OutputTable
  <2>5. \A j \in Index : Young(j)'
    BY <1>0, <2>4, TypeBefore DEF Young, Pending, PENDING, REREQUESTING_1
  <2>6. TableOK'
    BY <1>0, <2>1, <2>4, <2>5, TypeBefore, TypeParts
  <2> QED BY <1>2, <1>3, <1>4, <2>1, <2>6
<1>8. CASE send(t)
  <2>1. /\ sent' = {<<hop[p], arp_table[i].mac>>} /\ hop' = [hop EXCEPT ![p] = None]
        /\ UNCHANGED <<arp_table, etharp_cached_entry, gw, ref, owned, heard, use>>
        /\ Goto(t, NoCall)
    BY <1>1, <1>8 DEF send
  <2>2. hop' \in [Packets -> Hosts \cup {None}]
    BY <1>0, <2>1, TypeBefore
  <2>3. sent' \in SUBSET ((Hosts \cup {None}) \X (Macs \cup {None}))
    BY <1>0, <2>1, TypeBefore DEF Entry
  <2>4. TableOK'
    BY <1>0, <2>1, <2>2, <2>3, SameType, TypeBefore, TypeParts
  <2> QED BY <1>4, <2>1, <2>4
<1>9. CASE scan(t)
  <2>1. /\ sent' = {}
        /\ UNCHANGED <<arp_table, etharp_cached_entry, gw, ref, owned, hop, heard, use>>
    BY <1>9 DEF scan
  <2>2. PICK n \in Index, s \in Steps :
           Goto(t, NoCall) \/ Goto(t, [c EXCEPT !.pc = s, !.i = n])
    <3>1. find_entry(dst_addr(t)) \in Index
      BY <1>0, FindEntry
    <3>2. PICK n \in Index : Goto(t, IF dst_addr(t) = None THEN NoCall
                  ELSE [c EXCEPT !.pc = IF \/ n \in Matching(dst_addr(t))
                                           \/ arp_table[n].state = EMPTY
                                        THEN "mark" ELSE "recycle",
                                 !.i = n])
      BY <1>9, <3>1 DEF scan
    <3>3. PICK s \in Steps : s = IF \/ n \in Matching(dst_addr(t))
                                    \/ arp_table[n].state = EMPTY
                                 THEN "mark" ELSE "recycle"
      BY <1>3
    <3>4. Goto(t, NoCall) \/ Goto(t, [c EXCEPT !.pc = s, !.i = n])
      BY <3>2, <3>3
    <3> QED BY <3>4
  <2>3. TableOK'
    BY <1>0, <2>1, SameType, TypeBefore, TypeParts
  <2> QED BY <1>2, <1>4, <2>1, <2>2, <2>3
<1>10. CASE recycle(t)
  <2>1. /\ arp_table' = [arp_table EXCEPT ![i] = NoEntry] /\ ref' = pbuf_free(ref, arp_table[i].q)
        /\ use' = [use EXCEPT ![i] = Unused] /\ Waiting(hop) /\ Heard(<<>>) /\ sent' = {}
        /\ UNCHANGED <<etharp_cached_entry, gw, owned>>
        /\ Goto(t, [c EXCEPT !.pc = "mark"])
    BY <1>1, <1>10 DEF recycle
  <2>2. NoEntry \in Entry /\ NoEntry.state # PENDING
    BY ArpAssumption DEF NoEntry, Entry, EMPTY, PENDING
  <2>3. arp_table' \in [Index -> Entry] /\ \A j \in Index : Young(j)'
    BY <1>0, <2>1, <2>2, RewriteType
  <2>4. ref' \in [Packets -> 0 .. 2] /\ \A x \in Packets : ref'[x] <= ref[x]
    BY <1>0, <2>1, TypeBefore, FreeType
  <2>5. hop' \in [Packets -> Hosts \cup {None}] /\ heard' \in [Hosts -> Macs \cup {None}]
    BY <1>0, <2>1, <2>3, TypeBefore, WaitingHop, HeardNothing
  <2>6. use' \in [Index -> UseType]
    BY <1>0, <2>1, TypeBefore, UseValues
  <2>7. TableOK'
    BY <1>0, <2>1, <2>3, <2>4, <2>5, <2>6, TypeBefore, TypeParts
  <2> QED BY <1>1, <1>2, <1>3, <2>1, <2>4, <2>7
<1>11. CASE mark(t)
  <2>1. /\ sent' = {} /\ Heard(<<>>) /\ UNCHANGED <<etharp_cached_entry, gw, ref, owned, hop>>
        /\ Goto(t, [c EXCEPT !.pc = "queue"])
    BY <1>11 DEF mark
  <2>2. PICK e : e = [state |-> PENDING, ip |-> dst_addr(t), mac |-> None,
                      ctime |-> 0, q |-> None]
    OBVIOUS
  <2>3. e \in Entry /\ e.ctime < ARP_MAXPENDING
    BY <1>5, <2>2, ArpAssumption DEF Entry
  <2>4. \/ UNCHANGED <<arp_table, use>>
        \/ /\ arp_table' = [arp_table EXCEPT ![i] = e]
           /\ use' = [use EXCEPT ![i] = Unused]
    BY <1>1, <1>11, <2>2 DEF mark
  <2>5. arp_table' \in [Index -> Entry] /\ \A j \in Index : Young(j)'
    BY <1>0, <2>3, <2>4, RewriteType, SameType
  <2>6. use' \in [Index -> UseType]
    BY <1>0, <2>4, TypeBefore, UseValues
  <2>7. heard' \in [Hosts -> Macs \cup {None}]
    BY <1>0, <2>1, HeardNothing
  <2>8. TableOK'
    BY <1>0, <2>1, <2>5, <2>6, <2>7, TypeBefore, TypeParts
  <2> QED BY <1>2, <1>3, <1>4, <2>1, <2>8
<1>12. CASE queue(t)
  <2>1. sent' = {} /\ UNCHANGED <<arp_table, gw, ref, owned, hop, heard, use>>
    BY <1>12 DEF queue
  <2>2. etharp_cached_entry' \in Index
    BY <1>0, <1>1, <1>12, TypeBefore DEF queue
  <2>3. TableOK'
    BY <1>0, <2>1, <2>2, SameType, TypeBefore, TypeParts
  <2>4. PICK q \in Packets \cup {None} : q = arp_table[i].q
    BY <1>0, TypeBefore DEF Entry
  <2>5. \/ Goto(t, [c EXCEPT !.pc = "send"])
        \/ Goto(t, [c EXCEPT !.pc = "put", !.q = q])
        \/ Goto(t, NoCall)
    BY <1>1, <1>12, <2>4 DEF queue
  <2> QED BY <1>2, <1>3, <1>4, <2>1, <2>3, <2>5
<1>13. CASE put(t)
  <2>1. /\ arp_table' = [arp_table EXCEPT ![i].q = p]
        /\ ref' = pbuf_free([ref EXCEPT ![p] = ref[p] + 1], c.q)
        /\ sent' = {} /\ Waiting(hop) /\ UNCHANGED <<etharp_cached_entry, gw, owned, heard, use>>
        /\ Goto(t, NoCall)
    BY <1>1, <1>13 DEF put
  <2>2. PICK r : r = [ref EXCEPT ![p] = ref[p] + 1]
    OBVIOUS
  <2>3. r \in [Packets -> 0 .. 2] /\ \A x \in Packets \ {p} : r[x] = ref[x]
    <3>1. ref[p] + 1 \in 0 .. 2
      BY <1>0, <1>1
    <3> QED BY <1>0, <2>2, <3>1, TypeBefore
  <2>4. ref' \in [Packets -> 0 .. 2] /\ \A x \in Packets : ref'[x] <= r[x]
    BY <2>1, <2>2, <2>3, FreeType
  <2>5. PICK o \in Entry : o = arp_table[i]
    BY <1>0, TypeBefore
  <2>6. PICK e : e = [o EXCEPT !.q = p]
    OBVIOUS
  <2>7. e \in Entry /\ e.state = o.state /\ e.ctime = o.ctime
    BY <2>6 DEF Entry
  <2>8. arp_table' = [arp_table EXCEPT ![i] = e]
    BY <1>0, <2>1, <2>5, <2>6, TypeBefore
  <2>9. o.state = PENDING => o.ctime < ARP_MAXPENDING
    BY <1>0, <2>5, TypeBefore DEF Young, Pending
  <2>10. arp_table' \in [Index -> Entry] /\ \A j \in Index : Young(j)'
    BY <1>0, <2>7, <2>8, <2>9, RewriteType
  <2>11. hop' \in [Packets -> Hosts \cup {None}]
    BY <1>0, <2>1, <2>10, TypeBefore, WaitingHop
  <2>12. TableOK'
    BY <1>0, <2>1, <2>4, <2>10, <2>11, TypeBefore, TypeParts
  <2> QED BY <1>1, <2>1, <2>3, <2>4, <2>12
<1> QED BY <1>6, <1>7, <1>8, <1>9, <1>10, <1>11, <1>12, <1>13

\* The task t, in a call for the packet p, has gone on.
LEMMA HandsAfter ==
    ASSUME Hands, CallType, NEW t \in Tasks, NEW p \in Packets, NEW d,
           call'[t] = d, \A u \in Tasks \ {t} : call'[u] = call[u] /\ call[u].p # p,
           d # NoCall => d.p = p /\ ref'[p] <= 1,
           \A x \in Packets : ref[x] \in 0 .. 2 /\ ref'[x] \in 0 .. 2,
           \A x \in Packets \ {p} : ref'[x] <= ref[x]
    PROVE  Hands'
<1>1. NoCall.p = None /\ p # None
  BY ArpAssumption DEF NoCall
<1>2. \A u \in Tasks : call[u] # NoCall => call[u].p \in Packets /\ call[u].p # None
  BY CallIs DEF CallType
<1>3. ASSUME NEW u \in Tasks, call'[u] # NoCall PROVE ref'[call'[u].p] <= 1
  <2>1. CASE u = t
    BY <1>3, <2>1
  <2>2. CASE u # t
    <3>1. PICK x \in Packets \ {p} : x = call[u].p
      BY <1>2, <1>3, <2>2
    <3>2. ref[x] <= 1 /\ call'[u].p = x
      BY <1>3, <2>2, <3>1 DEF Hands
    <3> QED BY <3>2
  <2> QED BY <2>1, <2>2
<1>4. ASSUME NEW u \in Tasks, NEW v \in Tasks, call'[u] # NoCall, call'[u].p = call'[v].p
      PROVE  u = v
  BY <1>1, <1>2, <1>4 DEF Hands
<1> QED BY <1>3, <1>4 DEF Hands, Tasks

\* So does the beginning of a call.
LEMMA BeginType ==
    ASSUME TypeOK, Hands, NEW t \in Tasks,
           NEW p \in Packets, NEW ip \in Hosts \cup {Far}, begin(t, p, ip)
    PROVE  TableOK' /\ CallType' /\ Hands'
<1>0. /\ TableOK /\ CallType /\ NextHop(ip) \in Hosts \cup {None}
      /\ \A x \in Packets : ref[x] \in 0 .. 2
  BY TypeBefore, NextHopType DEF TypeOK, CallType
<1>1. /\ owned' = [owned EXCEPT ![p] = TRUE] /\ ref' = [ref EXCEPT ![p] = 1]
      /\ hop' = [hop EXCEPT ![p] = NextHop(ip)] /\ sent' = {} /\ p \notin InHand
      /\ UNCHANGED <<arp_table, etharp_cached_entry, gw, heard, use>>
  BY DEF begin
<1>2. /\ owned' \in [Packets -> BOOLEAN] /\ ref' \in [Packets -> 0 .. 2]
      /\ hop' \in [Packets -> Hosts \cup {None}]
      /\ ref'[p] = 1 /\ \A x \in Packets \ {p} : ref'[x] = ref[x]
  BY <1>0, <1>1, TypeBefore
<1>3. TableOK'
  BY <1>0, <1>1, <1>2, SameType, TypeBefore, TypeParts
<1>4. PICK d : /\ Goto(t, d)
               /\ d = IF NextHop(ip) = None THEN NoCall
                      ELSE [pc |-> "cached", p |-> p, ip |-> ip, i |-> 0, q |-> None]
  BY DEF begin
<1>5. d \in Call \cup {NoCall} /\ (d # NoCall => d.p = p)
  BY <1>4, ArpAssumption DEF Call, Steps, Index
<1>6. CallType' /\ call'[t] = d /\ \A u \in Tasks \ {t} : call'[u] = call[u]
  BY <1>0, <1>4, <1>5, Gone
<1>7. \A u \in Tasks : call[u].p # p
  BY <1>1 DEF InHand
<1>8. \A u \in Tasks : call[u] # NoCall => call[u].p \in Packets
  BY <1>0, CallIs DEF CallType
<1>9. Hands'
  BY <1>0, <1>2, <1>5, <1>6, <1>7, <1>8, HandsAfter
<1> QED BY <1>3, <1>6, <1>9

\* And every step of a task.
LEMMA TaskTypes ==
    ASSUME TypeOK, Hands, NEW t \in Tasks, Task(t)
    PROVE  TableOK' /\ CallType' /\ Hands'
<1>0. TableOK /\ CallType /\ \A x \in Packets : ref[x] \in 0 .. 2
  BY TypeBefore DEF TypeOK, CallType
<1>1. CASE \E p \in Packets, ip \in Peers(t) : begin(t, p, ip)
  <2>1. Peers(t) \subseteq Hosts \cup {Far}
    BY PeersAssumption DEF Peers
  <2> QED BY <1>1, <2>1, BeginType
<1>2. CASE \/ cached(t) \/ search(t) \/ send(t) \/ scan(t) \/ recycle(t)
           \/ mark(t) \/ queue(t) \/ put(t) \/ \E ok \in BOOLEAN : rerequest(t, ok)
  <2>1. call[t].pc # "idle"
    BY <1>2 DEF cached, search, send, scan, recycle, mark, queue, put, rerequest
  <2>2. PICK c \in Call : c = call[t]
    BY <1>0, <2>1 DEF CallType, NoCall
  <2>3. c.p \in Packets /\ c # NoCall
    BY CallIs
  <2>4. ref[c.p] <= 1 /\ \A u \in Tasks \ {t} : call[u].p # c.p
    BY <2>2, <2>3 DEF Hands
  <2>5. TableOK'
    BY <1>2, <2>2, <2>4, TaskType
  <2>6. PICK d \in Call \cup {NoCall} :
           /\ Goto(t, d) /\ (d # NoCall => d.p = c.p)
           /\ \A x \in Packets : x # c.p \/ d # NoCall => ref'[x] <= ref[x]
    BY <1>2, <2>2, <2>4, TaskType
  <2>7. CallType' /\ call'[t] = d /\ \A u \in Tasks \ {t} : call'[u] = call[u]
    BY <1>0, <2>6, Gone
  <2>8. \A x \in Packets : ref'[x] \in 0 .. 2
    BY <2>5 DEF TableOK
  <2>9. d # NoCall => ref'[c.p] <= 1
    BY <1>0, <2>3, <2>4, <2>6, <2>8
  <2>10. Hands'
    BY <1>0, <2>3, <2>4, <2>6, <2>7, <2>8, <2>9, HandsAfter
  <2> QED BY <2>5, <2>7, <2>10
<1> QED BY <1>1, <1>2 DEF Task

LEMMA NextTypeOK == TypeOK /\ Hands /\ [Next]_vars => TypeOK' /\ Hands'
<1> SUFFICES ASSUME TypeOK, Hands, [Next]_vars PROVE TypeOK' /\ Hands'
  OBVIOUS
<1>0. /\ TableOK /\ CallType /\ raced \in BOOLEAN
      /\ \A x \in Packets : ref[x] \in 0 .. 2
  BY TypeBefore DEF TypeOK, CallType
<1>1. raced' \in BOOLEAN
  BY <1>0, Zenon DEF Next, vars, tcpip_thread, netif_set_addr, Task, RacedBy
<1>2. ASSUME call' = call, TableOK', \A x \in Packets : x \in InHand => ref'[x] <= ref[x]
      PROVE  CallType' /\ Hands'
  <2>1. \A u \in Tasks : call[u] # NoCall => call[u].p \in Packets /\ call[u].p \in InHand
    BY <1>0, CallIs DEF CallType, InHand
  <2>2. \A x \in Packets : ref'[x] \in 0 .. 2
    BY <1>2 DEF TableOK
  <2>3. \A u \in Tasks : call[u] # NoCall => ref'[call[u].p] <= 1
    BY <1>0, <1>2, <2>1, <2>2 DEF Hands
  <2> QED BY <1>0, <1>2, <2>3 DEF Hands, CallType, Tasks
<1>3. CASE tcpip_thread
  <2>1. PICK P \in SUBSET Packets : P = Packets \ InHand
    OBVIOUS
  <2>2. TableNext(P) /\ call' = call
    BY <1>3, <2>1 DEF tcpip_thread
  <2>3. TableOK' /\ \A x \in Packets \ P : ref'[x] <= ref[x]
    BY <1>0, <2>2, TableType
  <2> QED BY <1>1, <1>2, <2>1, <2>2, <2>3 DEF TypeOK, CallType
<1>4. CASE netif_set_addr
  <2>1. PICK g \in Gateways \cup {None} : netif_set_gw(g)
    BY <1>4 DEF netif_set_addr
  <2>2. call' = call
    BY <1>4 DEF netif_set_addr
  <2>3. TableNext({})
    BY <2>1 DEF TableNext
  <2>4. TableOK' /\ \A x \in Packets \ {} : ref'[x] <= ref[x]
    BY <1>0, <2>3, TableType
  <2> QED BY <1>1, <1>2, <2>2, <2>4 DEF TypeOK, CallType
<1>5. ASSUME NEW t \in Tasks, Task(t) PROVE TypeOK' /\ Hands'
  BY <1>1, <1>5, TaskTypes DEF TypeOK, CallType
<1>6. CASE UNCHANGED vars
  <2>1. UNCHANGED <<arp_table, etharp_cached_entry, gw, ref, owned, hop, heard, sent, use, call>>
    BY <1>6 DEF vars, tableVars
  <2>2. TableOK'
    BY <1>0, <2>1, SameType, TypeBefore, TypeParts
  <2> QED BY <1>0, <1>1, <1>2, <2>1, <2>2 DEF TypeOK, CallType
<1> QED BY <1>3, <1>4, <1>5, <1>6 DEF Next

\* etharp_tmr(), etharp_query() and the calls of the tasks, in whatever way
\* they interfere: the table is well formed also after a race.  No entry gets
\* as old as ARP_MAXAGE and no pending one as old as ARP_MAXPENDING, a call
\* stays inside the table, and no reference count leaves 0..2.
THEOREM TypeCorrect == Spec => []TypeOK
<1>1. Init => TypeOK /\ Hands
  <2> SUFFICES ASSUME Init PROVE TypeOK /\ Hands
    OBVIOUS
  <2>1. TableOK
    BY InitAInv DEF Init, AInv
  <2> QED BY <2>1 DEF Init, TypeOK, Hands
<1> QED BY <1>1, NextTypeOK, PTL DEF Spec

=============================================================================
