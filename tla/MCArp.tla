------------------------------- MODULE MCArp -------------------------------
(* An instance of ArpTasks for TLC: three hosts share two entries.         *)
EXTENDS ArpTasks, TLC

CONSTANTS h1, h2, h3

\* The hosts that are no gateway, the hardware addresses and the packets are
\* interchangeable.
MCSymmetry ==
    Permutations(Hosts \ Gateways) \cup Permutations(Macs) \cup Permutations(Packets)

\* Nothing is promised after a race: TLC does not go on from there.
NoRace == ~raced
=============================================================================
