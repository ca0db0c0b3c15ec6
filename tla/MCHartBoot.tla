----------------------------- MODULE MCHartBoot ------------------------------
(* Small machines for HartBoot.  Cores are numbered: core 10 * s is the MC   *)
(* of socket s, core 10 * s + 1 the PC with id 0 within the socket.          *)
EXTENDS HartBoot

CONSTANT PcPerSocket

MCCore == UNION {10 * s .. 10 * s + PcPerSocket : s \in Socket}
MCSocketOf == [c \in MCCore |-> c \div 10]
MCMcOf == [s \in Socket |-> 10 * s]
MCLeaderOf == [s \in Socket |-> IF McActsAsPc THEN 10 * s ELSE 10 * s + 1]

==============================================================================
