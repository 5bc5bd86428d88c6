------------------------------ MODULE MCTcpServer ------------------------------
(***************************************************************************)
(* Small instances of TcpServer.                                           *)
(***************************************************************************)
EXTENDS TcpServer, TLC

\* A segment of one byte, and a chain of a pbuf of two and one of one.
MCChains == {<<1>>, <<2, 3>>}

CONSTANTS c1, c2, c3

\* A client that sends three bytes, and clients that connect and say nothing.
MCBytes == [c \in Conns |-> CASE c = c1 -> 3 [] OTHER -> 0]
===============================================================================
