----------------------------- MODULE MCMediator -----------------------------
(* Instances of Mediator for TLC.                                          *)
EXTENDS Mediator

CONSTANTS h1, h2, p1

\* Two servers with one prefix.
OnePrefix == [h \in Hosts |-> p1]

\* The options are read when a task starts: h1 over UDP, h2 over TCP.
Mixed == [h \in Hosts |-> h = h2]

BothHosts == {h1, h2}
ServerLists == {{}, {h1}, {h1, h2}}
=============================================================================
