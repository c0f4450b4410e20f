------------------------------- MODULE MCPunch ------------------------------
(* Instances of Punch for TLC.                                             *)
EXTENDS Punch, TLC

CONSTANTS c1, c2, c3, a1, a2, d1

\* c1 and c2 send punch hole requests, c3 a relay request, all for one device.
OneWant == [c \in Conns |-> d1]

\* c2 and c3 share an address, or nobody does.
SharedAddr == c1 :> a1 @@ c2 :> a2 @@ c3 :> a2
OwnAddrs == c1 :> a1 @@ c2 :> a2

\* c2 gives up after its first attempt, or everybody tries twice.
OneRetries == c1 :> 2 @@ c2 :> 1 @@ c3 :> 1
BothRetry == c1 :> 2 @@ c2 :> 2
=============================================================================
