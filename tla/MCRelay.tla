------------------------------ MODULE MCRelay ------------------------------
(* Instances of Relay for TLC.                                             *)
EXTENDS Relay

CONSTANTS c1, c2, c3, ipA, ipB, ipProxy

\* Two direct clients could pair; the third request is the one that races.
ThreeConns == {c1, c2, c3}

\* c2 and c3 are websocket clients behind one proxy that reports their address,
\* so that both have the usage key ip:0.
MCWs == {c2, c3} \intersect Conns
MCSockIp == [c \in Conns |-> IF c = c1 THEN ipA ELSE ipProxy]
MCRealIp == [c \in Conns |-> IF c = c1 THEN ipA ELSE ipB]
MCUsageId == [c \in Conns |-> IF c = c1 THEN "A:1" ELSE "B:0"]

\* Only c2 has something to say.
MCMaxChunks == [c \in Conns |-> IF c = c2 THEN 2 ELSE 0]
=============================================================================
