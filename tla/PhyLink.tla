------------------------------- MODULE PhyLink -------------------------------
(***************************************************************************)
(* How the program learns about the link: ETH_Init() looks for the LAN8742 *)
(* on the MDIO bus, then main, dhcpTask and eth_poll ask ETH_IsLinkUp(),   *)
(* which reads up to four registers of the PHY.                            *)
(*                                                                         *)
(* The link changes at any time.  eth_poll has a higher priority than      *)
(* dhcpTask and may come between any two steps of it, also between the     *)
(* moment the MAC has read a register into its data register and the       *)
(* moment dhcpTask takes it from there: nothing locks the bus.             *)
(*                                                                         *)
(* A register is the set of its bits that are 1.                           *)
(***************************************************************************)
EXTENDS Integers

CONSTANTS
    LAN8742_MAX_DEV_ADDR,  \* last address on the bus (31)
    PhyAddr                \* the address the PHY answers to

ASSUME PhyLinkAssumption ==
    LAN8742_MAX_DEV_ADDR \in Nat /\ PhyAddr \in 0 .. LAN8742_MAX_DEV_ADDR

\* LAN8742_STATUS_...
READ_ERROR == -5
ADDRESS_ERROR == -3
OK == 0
LINK_DOWN == 1
FULLDUPLEX_100 == 2
HALFDUPLEX_100 == 3
FULLDUPLEX_10 == 4
HALFDUPLEX_10 == 5
AUTONEGO_NOTDONE == 6

Callers == {"main", "poll", "dhcp"}
NONE == 99    \* ret of a caller that has no answer yet

\* Bits 2 to 4 of PHYSCSR for the four modes.
Modes == {{3, 4}, {3}, {2, 4}, {2}}

VARIABLES
    link,      \* the cable is plugged in and the PHY has a link
    low,       \* BSR: the link was lost since BSR was last read
    mode,      \* PHYSCSR: negotiated speed and duplex
    bcr,       \* BCR: how the board straps the PHY, never written
    phase,     \* where main is
    addr, status, DevAddr,   \* LAN8742_Init()
    MACMIIDR,  \* data register of the MAC
    pc,        \* register the caller reads next, or "idle"
    asked,     \* the caller's read is in MACMIIDR
    ret,       \* the last answer of LAN8742_GetLinkState()
    upSome, upAll, err   \* history of a caller's current or last call: the
                         \* link was up at some time, all the time; a read failed

phyVars  == <<link, low, mode, bcr>>
initVars == <<addr, status, DevAddr>>
callVars == <<pc, asked, ret, upSome, upAll, err>>
vars == <<phyVars, phase, initVars, MACMIIDR, callVars>>

-----------------------------------------------------------------------------
(* The PHY (hardware).  Negotiation ends when the link comes up.           *)

LinkUp(m) ==
    /\ ~link /\ link' = TRUE
    /\ mode' = m
    /\ upSome' = [t \in Callers |-> upSome[t] \/ pc[t] # "idle"]
    /\ UNCHANGED <<low, bcr, phase, initVars, MACMIIDR, pc, asked, ret, upAll, err>>

LinkLost ==
    /\ link /\ link' = FALSE
    /\ low' = TRUE
    /\ upAll' = [t \in Callers |-> upAll[t] /\ pc[t] = "idle"]
    /\ UNCHANGED <<mode, bcr, phase, initVars, MACMIIDR, pc, asked, ret, upSome, err>>

\* What the bus delivers: the register of the PHY, or ones where no device
\* drives the line.
Register(reg) ==
    IF DevAddr # PhyAddr THEN 0 .. 15
    ELSE CASE reg \in {"BSR", "BSR2"} -> IF link /\ ~low THEN {2} ELSE {}
           [] reg = "BCR"     -> bcr
           [] reg = "PHYSCSR" -> mode \cup (IF link THEN {12} ELSE {})

\* The address field of SMR at address a.
SMR(a) == IF a = PhyAddr THEN PhyAddr ELSE LAN8742_MAX_DEV_ADDR

-----------------------------------------------------------------------------
(* LAN8742_Init(), called by ETH_Init() before the scheduler runs.         *)

\* Mutant of ScanRead: off by one at the last address.
ScanReadPastEnd ==
    /\ phase = "scan" /\ addr <= LAN8742_MAX_DEV_ADDR + 1
    /\ addr' = addr + 1
    /\ UNCHANGED <<phyVars, phase, status, DevAddr, MACMIIDR, callVars>>

\* One turn of the loop over the addresses.
ScanRead ==
    /\ phase = "scan" /\ addr <= LAN8742_MAX_DEV_ADDR
    /\ \/ /\ status' = READ_ERROR
          /\ addr' = addr + 1
          /\ UNCHANGED <<DevAddr, phase>>
       \/ /\ SMR(addr) = addr
          /\ DevAddr' = addr /\ status' = OK
          /\ phase' = "scanned"
          /\ UNCHANGED addr
       \/ /\ SMR(addr) # addr
          /\ addr' = addr + 1
          /\ UNCHANGED <<DevAddr, status, phase>>
    /\ UNCHANGED <<phyVars, MACMIIDR, callVars>>

ScanEnd ==
    /\ phase = "scan" /\ addr > LAN8742_MAX_DEV_ADDR
    /\ phase' = "scanned"
    /\ UNCHANGED <<phyVars, initVars, MACMIIDR, callVars>>

\* The end of LAN8742_Init() and of ETH_Init(), whose HAL_ETH_Start() may
\* fail: without Ethernet no task is created that asks for the link.
EthInitDone ==
    /\ phase = "scanned"
    /\ status' = IF DevAddr > LAN8742_MAX_DEV_ADDR THEN ADDRESS_ERROR ELSE status
    /\ \/ status' = OK /\ phase' = "main"
       \/ phase' = "failed"
    /\ UNCHANGED <<phyVars, addr, DevAddr, MACMIIDR, callVars>>

-----------------------------------------------------------------------------
(* LAN8742_GetLinkState().                                                 *)

\* Who may run: main until it starts the scheduler, dhcpTask while eth_poll
\* sleeps.
MayRun(t) ==
    /\ phase = (IF t = "main" THEN "main" ELSE "tasks")
    /\ t = "dhcp" => pc["poll"] = "idle"

\* Mutant of IsUp: an error code is taken for a link.
IsUpNotDown(state) == state # LINK_DOWN /\ state # NONE

\* ETH_IsLinkUp().
IsUp(state) == state > LINK_DOWN /\ state # NONE

\* main asks once; dhcpTask asks until the answer is yes (Network.cpp:44);
\* eth_poll asks every 2 seconds.
Call(t) ==
    /\ MayRun(t) /\ pc[t] = "idle"
    /\ t = "main" => ret[t] = NONE
    /\ t = "dhcp" => ~IsUp(ret[t])
    /\ pc' = [pc EXCEPT ![t] = "BSR"]
    /\ upSome' = [upSome EXCEPT ![t] = link]
    /\ upAll' = [upAll EXCEPT ![t] = link]
    /\ err' = [err EXCEPT ![t] = FALSE]
    /\ UNCHANGED <<phyVars, phase, initVars, MACMIIDR, asked, ret>>

\* HAL_ETH_ReadPHYRegister() until the MAC is no longer busy.  Reading BSR
\* clears the latch.
Ask(t) ==
    /\ MayRun(t) /\ pc[t] # "idle" /\ ~asked[t]
    /\ asked' = [asked EXCEPT ![t] = TRUE]
    /\ MACMIIDR' = Register(pc[t])
    /\ low' = (low /\ ~(pc[t] \in {"BSR", "BSR2"} /\ DevAddr = PhyAddr))
    /\ UNCHANGED <<link, mode, bcr, phase, initVars, pc, ret, upSome, upAll, err>>

\* Speed and duplex as strapped, or as negotiated.
Strapped(val) ==
    IF {8, 13} \subseteq val THEN FULLDUPLEX_100
    ELSE IF 13 \in val THEN HALFDUPLEX_100
    ELSE IF 8 \in val THEN FULLDUPLEX_10 ELSE HALFDUPLEX_10

Negotiated(val) ==
    IF val \cap {2, 3, 4} = {3, 4} THEN FULLDUPLEX_100
    ELSE IF val \cap {2, 3, 4} = {3} THEN HALFDUPLEX_100
    ELSE IF val \cap {2, 3, 4} = {2, 4} THEN FULLDUPLEX_10 ELSE HALFDUPLEX_10

\* Mutant of Evaluate: the first read of BSR decides.
EvaluateOneRead(reg, val) ==
    CASE reg \in {"BSR", "BSR2"} ->
            IF 2 \notin val THEN <<"idle", LINK_DOWN>> ELSE <<"BCR", NONE>>
      [] reg = "BCR" ->
            IF 12 \notin val THEN <<"idle", Strapped(val)>> ELSE <<"PHYSCSR", NONE>>
      [] reg = "PHYSCSR" ->
            <<"idle", IF 12 \notin val THEN AUTONEGO_NOTDONE ELSE Negotiated(val)>>

\* The register to read next, or "idle" and the answer.  The first read of
\* BSR only clears the latch.
Evaluate(reg, val) ==
    CASE reg = "BSR" -> <<"BSR2", NONE>>
      [] reg = "BSR2" ->
            IF 2 \notin val THEN <<"idle", LINK_DOWN>> ELSE <<"BCR", NONE>>
      [] reg = "BCR" ->
            IF 12 \notin val THEN <<"idle", Strapped(val)>> ELSE <<"PHYSCSR", NONE>>
      [] reg = "PHYSCSR" ->
            <<"idle", IF 12 \notin val THEN AUTONEGO_NOTDONE ELSE Negotiated(val)>>

\* The read ends: with what is in MACMIIDR, or with an error.
Take(t) ==
    /\ MayRun(t) /\ asked[t]
    /\ asked' = [asked EXCEPT ![t] = FALSE]
    /\ \/ /\ pc' = [pc EXCEPT ![t] = Evaluate(pc[t], MACMIIDR)[1]]
          /\ ret' = [ret EXCEPT ![t] = Evaluate(pc[t], MACMIIDR)[2]]
          /\ UNCHANGED err
       \/ /\ pc' = [pc EXCEPT ![t] = "idle"]
          /\ ret' = [ret EXCEPT ![t] = READ_ERROR]
          /\ err' = [err EXCEPT ![t] = TRUE]
    /\ UNCHANGED <<phyVars, phase, initVars, MACMIIDR, upSome, upAll>>

\* main has printed the link state, created the tasks and starts the
\* scheduler.
StartScheduler ==
    /\ phase = "main" /\ pc["main"] = "idle" /\ ret["main"] # NONE
    /\ phase' = "tasks"
    /\ UNCHANGED <<phyVars, initVars, MACMIIDR, callVars>>

-----------------------------------------------------------------------------
Init ==
    /\ link \in BOOLEAN /\ low = TRUE /\ mode \in Modes
    /\ bcr \in SUBSET {8, 12, 13}
    /\ phase = "scan" /\ addr = 0 /\ status = OK
    /\ DevAddr = LAN8742_MAX_DEV_ADDR + 1
    /\ MACMIIDR = {}
    /\ pc = [t \in Callers |-> "idle"] /\ asked = [t \in Callers |-> FALSE]
    /\ ret = [t \in Callers |-> NONE]
    /\ upSome = [t \in Callers |-> FALSE] /\ upAll = [t \in Callers |-> FALSE]
    /\ err = [t \in Callers |-> FALSE]

Next ==
    \/ \E m \in Modes : LinkUp(m)
    \/ LinkLost
    \/ ScanRead \/ ScanEnd \/ EthInitDone
    \/ \E t \in Callers : Call(t) \/ Ask(t) \/ Take(t)
    \/ StartScheduler

Spec == Init /\ [][Next]_vars

-----------------------------------------------------------------------------
(* Properties.                                                             *)

Statuses == {READ_ERROR, LINK_DOWN, FULLDUPLEX_100, HALFDUPLEX_100,
             FULLDUPLEX_10, HALFDUPLEX_10, AUTONEGO_NOTDONE, NONE}

\* The values every variable can take.
TypeOK ==
    /\ link \in BOOLEAN /\ low \in BOOLEAN /\ mode \in Modes
    /\ bcr \in SUBSET {8, 12, 13} /\ MACMIIDR \in SUBSET (0 .. 15)
    /\ phase \in {"scan", "scanned", "main", "tasks", "failed"}
    /\ addr \in 0 .. LAN8742_MAX_DEV_ADDR + 1
    /\ DevAddr \in 0 .. LAN8742_MAX_DEV_ADDR + 1
    /\ status \in {OK, READ_ERROR, ADDRESS_ERROR}
    /\ pc \in [Callers -> {"idle", "BSR", "BSR2", "BCR", "PHYSCSR"}]
    /\ asked \in [Callers -> BOOLEAN] /\ ret \in [Callers -> Statuses]
    /\ upSome \in [Callers -> BOOLEAN] /\ upAll \in [Callers -> BOOLEAN]
    /\ err \in [Callers -> BOOLEAN]

\* Nobody is told of a link that never was: if ETH_IsLinkUp() says yes, the
\* link was up at some time during the call, also when eth_poll replaced the
\* register dhcpTask was waiting for.
UpWasSeen ==
    \A t \in Callers :
        DevAddr = PhyAddr /\ pc[t] = "idle" /\ IsUp(ret[t]) => upSome[t]

\* main and eth_poll are not told that the link is down when it was up all
\* through the call and every read worked, whatever happened before the
\* call: the latch of BSR does not show.
NoFalseDown ==
    \A t \in {"main", "poll"} :
        DevAddr = PhyAddr /\ pc[t] = "idle" /\ upAll[t] /\ ~err[t] /\ ret[t] # NONE
            => IsUp(ret[t])
=============================================================================
