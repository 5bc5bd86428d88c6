---------------------------- MODULE PhyLinkProofs ----------------------------
(***************************************************************************)
(* Proofs about PhyLink for every number of bus addresses and wherever the *)
(* PHY answers: nobody is told of a link that never was (UpWasSeen), and   *)
(* main and eth_poll are not told of a loss that was not (NoFalseDown).    *)
(*                                                                         *)
(* Neither is inductive.  What is in MACMIIDR matters to every caller that *)
(* waits for it, whoever put it there: Seen says that bit 2 in it, the bit *)
(* that means "link" in BSR and half of "10 Mbit" in PHYSCSR, implies a    *)
(* link during the call of each of them.  That needs Nested: a call of     *)
(* eth_poll during one of dhcpTask began after it.  NoFalseDown needs that *)
(* nobody disturbs main or eth_poll (Turns), and that the latch is clear   *)
(* and stays clear from the first read of BSR on (Fresh).                  *)
(***************************************************************************)
EXTENDS PhyLink, TLAPS

\* Who is inside a call: main alone before the scheduler starts, the tasks
\* after it; before main there is nobody.
Turns ==
    /\ \A t \in Callers : asked[t] => pc[t] # "idle"
    /\ pc["main"] # "idle" => phase = "main"
    /\ pc["poll"] # "idle" \/ pc["dhcp"] # "idle" => phase = "tasks"
    /\ phase \in {"scan", "scanned"} => \A t \in Callers : ret[t] = NONE

\* A link there is now is one during every call, and a link seen by a call of
\* eth_poll is one during the call of dhcpTask that it interrupted.
Nested ==
    /\ \A t \in Callers : pc[t] # "idle" /\ link => upSome[t]
    /\ pc["poll"] # "idle" /\ pc["dhcp"] # "idle" /\ upSome["poll"] => upSome["dhcp"]

\* What a caller has read so far of a link, and what it may read next.
Seen ==
    DevAddr = PhyAddr =>
        \A t \in Callers :
            /\ pc[t] \in {"BCR", "PHYSCSR"} => upSome[t]
            /\ asked[t] /\ 2 \in MACMIIDR => upSome[t]

\* While the link stays up, main and eth_poll read a clear latch after the
\* first read of BSR.
Fresh ==
    DevAddr = PhyAddr =>
        \A t \in {"main", "poll"} : upAll[t] /\ pc[t] # "idle" =>
            /\ link
            /\ asked[t] \/ pc[t] # "BSR" => ~low
            /\ asked[t] /\ pc[t] = "BSR2" => 2 \in MACMIIDR

PInv == TypeOK /\ Turns /\ Nested /\ Seen /\ Fresh /\ UpWasSeen /\ NoFalseDown

-----------------------------------------------------------------------------

\* What the bus delivers is a set of bits, and bit 2 of BSR and BCR means a link.
LEMMA RegisterType ==
    ASSUME TypeOK, NEW reg \in {"BSR", "BSR2", "BCR", "PHYSCSR"}
    PROVE  /\ Register(reg) \in SUBSET (0 .. 15)
           /\ DevAddr = PhyAddr /\ reg # "PHYSCSR" /\ 2 \in Register(reg) => link
           /\ DevAddr = PhyAddr /\ reg \in {"BSR", "BSR2"} =>
                  (2 \in Register(reg) <=> link /\ ~low)
<1>1. \A m \in Modes : \A x \in m : x \in 0 .. 15
  BY DEF Modes
<1>2. \A x \in mode \cup (IF link THEN {12} ELSE {}) : x \in 0 .. 15
  <2>1. mode \in Modes
    BY DEF TypeOK
  <2> QED BY <1>1, <2>1
<1>3. (\A x \in bcr : x \in 0 .. 15) /\ 2 \notin bcr
  <2>1. bcr \in SUBSET {8, 12, 13}
    BY DEF TypeOK
  <2> QED BY <2>1
<1>4. DevAddr # PhyAddr => Register(reg) = 0 .. 15
  BY Zenon DEF Register
<1>5. DevAddr = PhyAddr /\ reg \in {"BSR", "BSR2"} =>
          Register(reg) = IF link /\ ~low THEN {2} ELSE {}
  BY Zenon DEF Register
<1>6. DevAddr = PhyAddr /\ reg = "BCR" => Register(reg) = bcr
  BY Zenon DEF Register
<1>7. DevAddr = PhyAddr /\ reg = "PHYSCSR" =>
          Register(reg) = mode \cup (IF link THEN {12} ELSE {})
  BY Zenon DEF Register
<1>8. \A x \in Register(reg) : x \in 0 .. 15
  BY <1>2, <1>3, <1>4, <1>5, <1>6, <1>7
<1>9. DevAddr = PhyAddr /\ reg \in {"BSR", "BSR2"} => (2 \in Register(reg) <=> link /\ ~low)
  BY <1>5 DEF TypeOK
<1>10. DevAddr = PhyAddr /\ reg # "PHYSCSR" /\ 2 \in Register(reg) => link
  BY <1>3, <1>6, <1>9
<1> QED BY <1>8, <1>9, <1>10

\* A step of Evaluate: where it goes on and which answers say that there is a link.
LEMMA EvaluateIs ==
    ASSUME NEW reg \in {"BSR", "BSR2", "BCR", "PHYSCSR"}, NEW val
    PROVE  /\ Evaluate(reg, val)[1] \in {"idle", "BSR2", "BCR", "PHYSCSR"}
           /\ Evaluate(reg, val)[2] \in Statuses
           /\ reg = "BSR" => Evaluate(reg, val)[1] = "BSR2"
           /\ reg = "BSR2" =>
                  Evaluate(reg, val)[1] = IF 2 \in val THEN "BCR" ELSE "idle"
           /\ reg = "BSR2" /\ 2 \notin val => ~IsUp(Evaluate(reg, val)[2])
           /\ reg \in {"BCR", "PHYSCSR"} => Evaluate(reg, val)[1] \in {"idle", "PHYSCSR"}
           /\ reg \in {"BCR", "PHYSCSR"} /\ Evaluate(reg, val)[1] = "idle" =>
                  IsUp(Evaluate(reg, val)[2])
<1> DEFINE Up == {FULLDUPLEX_100, HALFDUPLEX_100, FULLDUPLEX_10, HALFDUPLEX_10, AUTONEGO_NOTDONE}
<1>1. Strapped(val) \in Up /\ Negotiated(val) \in Up /\ AUTONEGO_NOTDONE \in Up
  <2>1. Strapped(val) \in Up
    BY DEF Strapped
  <2>2. Negotiated(val) \in Up
    BY DEF Negotiated
  <2> QED BY <2>1, <2>2
<1>2. \A x \in Up : x \in Statuses /\ IsUp(x)
  BY DEF Statuses, IsUp, FULLDUPLEX_100, HALFDUPLEX_100, FULLDUPLEX_10, HALFDUPLEX_10,
         AUTONEGO_NOTDONE, LINK_DOWN, NONE
<1>3. NONE \in Statuses /\ LINK_DOWN \in Statuses /\ ~IsUp(LINK_DOWN)
  BY DEF Statuses, IsUp, LINK_DOWN
<1> HIDE DEF Up
<1>4. CASE reg = "BSR"
  <2>1. Evaluate(reg, val) = <<"BSR2", NONE>>
    BY <1>4, Zenon DEF Evaluate
  <2> QED BY <1>3, <1>4, <2>1
<1>5. CASE reg = "BSR2"
  <2>1. Evaluate(reg, val) = IF 2 \notin val THEN <<"idle", LINK_DOWN>> ELSE <<"BCR", NONE>>
    BY <1>5, Zenon DEF Evaluate
  <2> QED BY <1>3, <1>5, <2>1
<1>6. CASE reg = "BCR"
  <2>1. Evaluate(reg, val) =
            IF 12 \notin val THEN <<"idle", Strapped(val)>> ELSE <<"PHYSCSR", NONE>>
    BY <1>6, Zenon DEF Evaluate
  <2> QED BY <1>1, <1>2, <1>3, <1>6, <2>1
<1>7. CASE reg = "PHYSCSR"
  <2>1. Evaluate(reg, val) =
            <<"idle", IF 12 \notin val THEN AUTONEGO_NOTDONE ELSE Negotiated(val)>>
    BY <1>7, Zenon DEF Evaluate
  <2> QED BY <1>1, <1>2, <1>7, <2>1
<1> QED BY <1>4, <1>5, <1>6, <1>7

-----------------------------------------------------------------------------

\* Before the scan of the bus nobody has asked.
LEMMA InitPInv == Init => PInv
<1> SUFFICES ASSUME Init PROVE PInv
  OBVIOUS
<1>1. TypeOK
  BY PhyLinkAssumption DEF Init, TypeOK, Callers, Statuses
<1>2. Turns /\ Nested /\ Seen /\ Fresh
  BY DEF Init, Turns, Nested, Seen, Fresh, Callers
<1>3. UpWasSeen /\ NoFalseDown
  BY DEF Init, UpWasSeen, NoFalseDown, IsUp, Callers
<1> QED BY <1>1, <1>2, <1>3 DEF PInv

\* The link comes up.
LEMMA LinkUpPInv ==
    ASSUME PInv, NEW m \in Modes, LinkUp(m)
    PROVE  PInv'
<1> USE DEF PInv, LinkUp
<1>1. TypeOK'
  BY DEF TypeOK, Callers, initVars
<1>2. Turns' /\ Nested'
  BY DEF TypeOK, Turns, Nested, Callers, initVars
<1>3. Seen'
  BY DEF TypeOK, Seen, Callers, initVars
<1>4. Fresh'
  BY DEF TypeOK, Fresh, Callers, initVars
<1>5. UpWasSeen' /\ NoFalseDown'
  BY DEF TypeOK, UpWasSeen, NoFalseDown, IsUp, Callers, initVars
<1> QED BY <1>1, <1>2, <1>3, <1>4, <1>5

\* The link is lost.
LEMMA LinkLostPInv ==
    ASSUME PInv, LinkLost
    PROVE  PInv'
<1> USE DEF PInv, LinkLost
<1>1. TypeOK'
  BY DEF TypeOK, Callers, initVars
<1>2. Turns' /\ Nested'
  BY DEF TypeOK, Turns, Nested, Callers, initVars
<1>3. Seen'
  BY DEF TypeOK, Seen, Callers, initVars
<1>4. Fresh'
  BY DEF TypeOK, Fresh, Callers, initVars
<1>5. UpWasSeen' /\ NoFalseDown'
  BY DEF TypeOK, UpWasSeen, NoFalseDown, IsUp, Callers, initVars
<1> QED BY <1>1, <1>2, <1>3, <1>4, <1>5

\* The steps of main outside of a call: nobody asks and, until the scan is over,
\* nobody has an answer.
LEMMA BootPInv ==
    ASSUME PInv, ScanRead \/ ScanEnd \/ EthInitDone \/ StartScheduler
    PROVE  PInv'
<1> USE DEF PInv, phyVars, callVars, initVars
<1>1. UNCHANGED <<phyVars, MACMIIDR, callVars>>
  BY DEF ScanRead, ScanEnd, EthInitDone, StartScheduler
<1>2. TypeOK'
  <2>1. /\ phase' \in {"scan", "scanned", "main", "tasks", "failed"}
        /\ addr' \in 0 .. LAN8742_MAX_DEV_ADDR + 1
        /\ DevAddr' \in 0 .. LAN8742_MAX_DEV_ADDR + 1
        /\ status' \in {OK, READ_ERROR, ADDRESS_ERROR}
    BY PhyLinkAssumption
       DEF ScanRead, ScanEnd, EthInitDone, StartScheduler, TypeOK, OK, READ_ERROR, ADDRESS_ERROR
  <2> QED BY <1>1, <2>1 DEF TypeOK
<1>3. \A t \in Callers : pc[t] = "idle" /\ ~asked[t]
  BY DEF ScanRead, ScanEnd, EthInitDone, StartScheduler, TypeOK, Turns, Callers
<1>4. DevAddr' = DevAddr \/ \A t \in Callers : ret[t] = NONE
  BY DEF ScanRead, ScanEnd, EthInitDone, StartScheduler, Turns
<1>5. Turns'
  BY <1>1, <1>3 DEF ScanRead, ScanEnd, EthInitDone, StartScheduler, TypeOK, Turns, Callers
<1>6. Nested' /\ Seen' /\ Fresh'
  BY <1>1, <1>3 DEF Nested, Seen, Fresh, Callers
<1>7. UpWasSeen'
  BY <1>1, <1>4 DEF UpWasSeen, IsUp
<1>8. NoFalseDown'
  BY <1>1, <1>4 DEF NoFalseDown, IsUp, Callers
<1> QED BY <1>2, <1>5, <1>6, <1>7, <1>8

\* A call begins: its history is that of this moment.
LEMMA CallPInv ==
    ASSUME PInv, NEW t \in Callers, Call(t)
    PROVE  PInv'
<1> USE DEF PInv, Call, MayRun, phyVars, initVars
<1>1. TypeOK'
  BY DEF TypeOK, Callers
<1>2. Turns' /\ Nested'
  BY DEF TypeOK, Turns, Nested, Callers
<1>3. Seen'
  BY DEF TypeOK, Turns, Seen, Callers
<1>4. Fresh'
  BY DEF TypeOK, Turns, Fresh, Callers
<1>5. UpWasSeen' /\ NoFalseDown'
  BY DEF TypeOK, UpWasSeen, NoFalseDown, IsUp, Callers
<1> QED BY <1>1, <1>2, <1>3, <1>4, <1>5

\* A register is read into MACMIIDR, also under the eyes of dhcpTask.
LEMMA AskPInv ==
    ASSUME PInv, NEW t \in Callers, Ask(t)
    PROVE  PInv'
<1> USE DEF PInv, initVars
<1>0. pc[t] \in {"BSR", "BSR2", "BCR", "PHYSCSR"}
  BY DEF Ask, TypeOK
<1>1. TypeOK'
  BY <1>0, RegisterType DEF Ask, TypeOK, Callers
<1>2. Turns' /\ Nested'
  BY DEF Ask, TypeOK, Turns, Nested, Callers
<1>3. Seen'
  <2> SUFFICES ASSUME DevAddr = PhyAddr, NEW u \in Callers,
                      asked'[u], 2 \in MACMIIDR'
               PROVE  upSome[u]
    BY DEF Ask, Seen
  <2>1. pc[u] # "idle"
    BY <1>0 DEF Ask, TypeOK, Turns
  <2>2. CASE pc[t] # "PHYSCSR"
    <3>1. link
      BY <1>0, <2>2, RegisterType DEF Ask
    <3> QED BY <2>1, <3>1 DEF Nested
  <2>3. CASE pc[t] = "PHYSCSR"
    <3>1. upSome[t]
      BY <2>3 DEF Seen
    <3>2. u = t \/ (t = "poll" /\ u = "dhcp")
      BY <2>1, <2>3 DEF Ask, MayRun, Turns, Callers
    <3> QED BY <2>1, <2>3, <3>1, <3>2 DEF Nested
  <2> QED BY <2>2, <2>3
<1>4. Fresh'
  <2> SUFFICES ASSUME DevAddr = PhyAddr, NEW u \in {"main", "poll"},
                      upAll[u], pc[u] # "idle"
               PROVE  /\ link
                      /\ asked'[u] \/ pc[u] # "BSR" => ~low'
                      /\ asked'[u] /\ pc[u] = "BSR2" => 2 \in MACMIIDR'
    BY DEF Ask, Fresh
  <2>1. u = t
    BY DEF Ask, MayRun, Turns, Callers
  <2>2. link
    BY DEF Fresh
  <2>3. ~low'
    <3>1. CASE pc[t] \in {"BSR", "BSR2"}
      BY <3>1 DEF Ask, TypeOK
    <3>2. CASE pc[t] \notin {"BSR", "BSR2"}
      BY <2>1, <3>2 DEF Ask, TypeOK, Fresh
    <3> QED BY <3>1, <3>2
  <2>4. pc[t] = "BSR2" => 2 \in MACMIIDR'
    BY <1>0, <2>1, <2>2, RegisterType DEF Ask, Fresh
  <2> QED BY <2>1, <2>2, <2>3, <2>4
<1>5. UpWasSeen' /\ NoFalseDown'
  BY DEF Ask, TypeOK, UpWasSeen, NoFalseDown, IsUp, Callers
<1> QED BY <1>1, <1>2, <1>3, <1>4, <1>5

\* The caller takes what is in MACMIIDR, or an error.
LEMMA TakePInv ==
    ASSUME PInv, NEW t \in Callers, Take(t)
    PROVE  PInv'
<1> USE DEF PInv, phyVars, initVars
<1> DEFINE e == Evaluate(pc[t], MACMIIDR)
<1>0. pc[t] \in {"BSR", "BSR2", "BCR", "PHYSCSR"} /\ asked[t] /\ MayRun(t)
  BY DEF Take, TypeOK, Turns
<1>1. /\ e[1] \in {"idle", "BSR2", "BCR", "PHYSCSR"} /\ e[2] \in Statuses
      /\ pc[t] = "BSR" => e[1] = "BSR2"
      /\ pc[t] = "BSR2" => e[1] = IF 2 \in MACMIIDR THEN "BCR" ELSE "idle"
      /\ pc[t] = "BSR2" /\ 2 \notin MACMIIDR => ~IsUp(e[2])
      /\ pc[t] \in {"BCR", "PHYSCSR"} => e[1] \in {"idle", "PHYSCSR"}
      /\ pc[t] \in {"BCR", "PHYSCSR"} /\ e[1] = "idle" => IsUp(e[2])
  BY <1>0, EvaluateIs
<1>2. /\ UNCHANGED <<phyVars, phase, initVars, MACMIIDR, upSome, upAll>>
      /\ asked' = [asked EXCEPT ![t] = FALSE]
      /\ \/ /\ pc' = [pc EXCEPT ![t] = e[1]] /\ ret' = [ret EXCEPT ![t] = e[2]]
            /\ err' = err
         \/ /\ pc' = [pc EXCEPT ![t] = "idle"] /\ ret' = [ret EXCEPT ![t] = READ_ERROR]
            /\ err' = [err EXCEPT ![t] = TRUE]
  BY DEF Take
<1> HIDE DEF e
<1>3. READ_ERROR \in Statuses /\ ~IsUp(READ_ERROR)
  BY DEF Statuses, READ_ERROR, IsUp, LINK_DOWN
<1>4. TypeOK'
  <2>1. pc' \in [Callers -> {"idle", "BSR", "BSR2", "BCR", "PHYSCSR"}]
    BY <1>1, <1>2 DEF TypeOK
  <2>2. ret' \in [Callers -> Statuses]
    BY <1>1, <1>2, <1>3 DEF TypeOK
  <2>3. asked' \in [Callers -> BOOLEAN] /\ err' \in [Callers -> BOOLEAN]
    BY <1>2 DEF TypeOK
  <2> QED BY <1>2, <2>1, <2>2, <2>3 DEF TypeOK
<1>5. Turns' /\ Nested'
  BY <1>0, <1>1, <1>2 DEF TypeOK, Turns, Nested, MayRun, Callers
<1>6. Seen'
  BY <1>0, <1>1, <1>2 DEF TypeOK, Seen
<1>7. Fresh'
  <2> SUFFICES ASSUME DevAddr = PhyAddr, NEW u \in {"main", "poll"},
                      upAll[u], pc'[u] # "idle"
               PROVE  /\ link
                      /\ asked'[u] \/ pc'[u] # "BSR" => ~low
                      /\ asked'[u] /\ pc'[u] = "BSR2" => 2 \in MACMIIDR
    BY <1>2 DEF Fresh
  <2>1. CASE u = t
    BY <1>0, <1>1, <1>2, <2>1 DEF TypeOK, Fresh
  <2>2. CASE u # t
    BY <1>2, <2>2 DEF TypeOK, Fresh, Callers
  <2> QED BY <2>1, <2>2
<1>8. UpWasSeen'
  <2> SUFFICES ASSUME DevAddr = PhyAddr, NEW u \in Callers, pc'[u] = "idle", IsUp(ret'[u])
               PROVE  upSome[u]
    BY <1>2 DEF UpWasSeen, IsUp
  <2>1. CASE u = t
    <3>1. pc' = [pc EXCEPT ![t] = e[1]] /\ ret' = [ret EXCEPT ![t] = e[2]]
      BY <1>2, <1>3, <2>1 DEF TypeOK
    <3>2. e[1] = "idle" /\ IsUp(e[2])
      BY <2>1, <3>1 DEF TypeOK
    <3>3. pc[t] \in {"BCR", "PHYSCSR"}
      BY <1>0, <1>1, <3>2
    <3> QED BY <2>1, <3>3 DEF Seen
  <2>2. CASE u # t
    BY <1>2, <2>2 DEF TypeOK, UpWasSeen
  <2> QED BY <2>1, <2>2
<1>9. NoFalseDown'
  <2> SUFFICES ASSUME DevAddr = PhyAddr, NEW u \in {"main", "poll"},
                      pc'[u] = "idle", upAll[u], ~err'[u], ret'[u] # NONE
               PROVE  IsUp(ret'[u])
    BY <1>2 DEF NoFalseDown, IsUp
  <2>1. CASE u = t
    <3>1. pc' = [pc EXCEPT ![t] = e[1]] /\ ret' = [ret EXCEPT ![t] = e[2]]
      BY <1>2, <2>1 DEF TypeOK
    <3>2. e[1] = "idle" /\ ret'[u] = e[2]
      BY <2>1, <3>1 DEF TypeOK
    <3>3. pc[t] = "BSR2" => 2 \in MACMIIDR
      BY <1>0, <2>1 DEF Fresh
    <3> QED BY <1>0, <1>1, <3>2, <3>3
  <2>2. CASE u # t
    BY <1>2, <2>2 DEF TypeOK, NoFalseDown, Callers
  <2> QED BY <2>1, <2>2
<1> QED BY <1>4, <1>5, <1>6, <1>7, <1>8, <1>9

\* Every step keeps the invariant.
LEMMA NextPInv == PInv /\ [Next]_vars => PInv'
<1> SUFFICES ASSUME PInv, [Next]_vars PROVE PInv'
  OBVIOUS
<1>1. CASE \E m \in Modes : LinkUp(m)
  BY <1>1, LinkUpPInv
<1>2. CASE LinkLost
  BY <1>2, LinkLostPInv
<1>3. CASE ScanRead \/ ScanEnd \/ EthInitDone \/ StartScheduler
  BY <1>3, BootPInv
<1>4. CASE \E t \in Callers : Call(t) \/ Ask(t) \/ Take(t)
  BY <1>4, CallPInv, AskPInv, TakePInv
<1>5. CASE UNCHANGED vars
  BY <1>5 DEF vars, phyVars, initVars, callVars, PInv, TypeOK, Turns, Nested, Seen,
              Fresh, UpWasSeen, NoFalseDown, IsUp
<1> QED BY <1>1, <1>2, <1>3, <1>4, <1>5 DEF Next

\* The invariant holds in every reachable state.
LEMMA PhyInvariance == Spec => []PInv
BY InitPInv, NextPInv, PTL DEF Spec

-----------------------------------------------------------------------------

\* The types of LAN8742.c and of the PHY's registers are kept.
THEOREM TypeCorrect == Spec => []TypeOK
<1>1. PInv => TypeOK
  BY DEF PInv
<1> QED BY <1>1, PhyInvariance, PTL

\* ETH_IsLinkUp() never answers yes to a caller during whose call there was no
\* link, also when another caller's register came into MACMIIDR meanwhile.
THEOREM UpWasSeenAlways == Spec => []UpWasSeen
<1>1. PInv => UpWasSeen
  BY DEF PInv
<1> QED BY <1>1, PhyInvariance, PTL

\* LAN8742_GetLinkState() reads BSR twice: a loss of the link before the call is
\* not reported to main or to eth_poll as a loss during it.
THEOREM NoFalseDownAlways == Spec => []NoFalseDown
<1>1. PInv => NoFalseDown
  BY DEF PInv
<1> QED BY <1>1, PhyInvariance, PTL
=============================================================================
