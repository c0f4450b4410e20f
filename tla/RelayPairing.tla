---------------------------- MODULE RelayPairing ----------------------------
(***************************************************************************)
(* What hbbr promises its clients, without tasks, locks or timers.  A      *)
(* client asks under a uuid.  It is linked at once with the client that    *)
(* waits under that uuid, or it becomes the one that waits.  A link has    *)
(* two ends for its whole life and ends for both of them together.         *)
(***************************************************************************)
CONSTANTS Conns, Uuids, NoConn, NoUuid

VARIABLES
    phase,      \* what the server is to each client
    room,       \* the uuid the client named
    partner     \* the client at the other end of the link

vars == <<phase, room, partner>>

Init ==
    /\ phase = [c \in Conns |-> "new"]
    /\ room = [c \in Conns |-> NoUuid]
    /\ partner = [c \in Conns |-> NoConn]

Arrive(c) ==
    /\ phase[c] = "new"
    /\ phase' = [phase EXCEPT ![c] = "accepted"]
    /\ UNCHANGED <<room, partner>>

\* The client names a uuid under which nobody waits.
Ask(c, u) ==
    /\ phase[c] = "accepted"
    /\ \A d \in Conns : ~(phase[d] = "waiting" /\ room[d] = u)
    /\ phase' = [phase EXCEPT ![c] = "asking"]
    /\ room' = [room EXCEPT ![c] = u]
    /\ UNCHANGED partner

\* The client waits; one that began to wait since it asked is turned away.
Wait(c) ==
    /\ phase[c] = "asking"
    /\ phase' = [d \in Conns |->
                    IF d = c THEN "waiting"
                    ELSE IF phase[d] = "waiting" /\ room[d] = room[c] THEN "gone"
                    ELSE phase[d]]
    /\ UNCHANGED <<room, partner>>

Link(c, d, u) ==
    /\ phase[c] = "accepted"
    /\ phase[d] = "waiting" /\ room[d] = u
    /\ phase' = [phase EXCEPT ![c] = "linked", ![d] = "linked"]
    /\ room' = [room EXCEPT ![c] = u]
    /\ partner' = [partner EXCEPT ![c] = d, ![d] = c]

Unlink(c) ==
    /\ phase[c] = "linked"
    /\ phase' = [phase EXCEPT ![c] = "gone", ![partner[c]] = "gone"]
    /\ UNCHANGED <<room, partner>>

TurnAway(c) ==
    /\ phase[c] \in {"new", "accepted", "waiting"}
    /\ phase' = [phase EXCEPT ![c] = "gone"]
    /\ UNCHANGED <<room, partner>>

Next ==
    \E c \in Conns :
        \/ Arrive(c) \/ Wait(c) \/ Unlink(c) \/ TurnAway(c)
        \/ \E u \in Uuids : Ask(c, u) \/ \E d \in Conns : Link(c, d, u)

Spec == Init /\ [][Next]_vars
=============================================================================
