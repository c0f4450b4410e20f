---------------------------- MODULE Registration ----------------------------
(***************************************************************************)
(* A device and hbbs together: the mediator of the device (one server,     *)
(* UDP) registers at the registry of hbbs over a network that delays,      *)
(* loses and reorders datagrams.  The device may move to another address,  *)
(* its key pair may be replaced by root's, hbbs may restart, other clients *)
(* look the device up, and the first ids may belong to another device.     *)
(***************************************************************************)
EXTENDS Registry, Integers, FiniteSets, Sequences

CONSTANTS
    host,           \* the one server
    uuid, other,    \* the device and another one
    FirstPk, FirstIp,
    Owned,          \* ids the database holds for the other device already
    MaxId, MaxChanges,
    MaxUpsets       \* bound on datagrams lost, overtaken or late, moves of the device,
                    \* restarts of hbbs and new key pairs, taken together

\* What the instances satisfy.
RegistrationAssumption ==
    /\ MaxId \in Nat \ {0} /\ Ids = 1 .. MaxId
    /\ uuid \in Uuids /\ other \in Uuids /\ uuid # other
    /\ FirstPk \in Pks /\ FirstIp \in Ips
    /\ Owned \subseteq Ids

\* The mediator; the variables of the registry are those of Registry.
VARIABLES phase, conf, used, restarting, SHOULD_EXIT, task, pending, fails, status,
          key_confirmed, host_confirmed, id, pk, SENT_REGISTER_PK, solving,
          NEEDS_DEPLOY, lastND, burst, missed, changes
\* The network and the device's place in it.
VARIABLES up, down, ip, upsets

M == INSTANCE Mediator WITH
        Hosts <- {host}, Prefix <- [h \in {host} |-> h], Configs <- {{host}},
        FirstConfig <- {host}, UseTcp <- [h \in {host} |-> FALSE], NoHost <- None,
        MaxFails1 <- 1, MaxFails2 <- 1    \* the display of the latency is of no interest here

mediator == <<phase, conf, used, restarting, SHOULD_EXIT, task, pending, fails, status,
              key_confirmed, host_confirmed, id, pk, SENT_REGISTER_PK, solving,
              NEEDS_DEPLOY, lastND, burst, missed, changes>>
registry == vars
net == <<up, down, ip, upsets>>
systemVars == <<mediator, registry, net>>

OtherRow == [uuid |-> other, pk |-> FirstPk, ip |-> FirstIp]

\* hbbs starts with an empty map; its database works.
RegistryInit ==
    /\ db = [i \in Ids |-> IF i \in Owned THEN OtherRow ELSE None]
    /\ mem = [i \in Ids |-> None] /\ udp = Idle /\ look = [t \in Lookups |-> Idle]
    /\ replaced = {} /\ DbErrors = FALSE

SystemInit ==
    /\ M!Init /\ RegistryInit
    /\ up = << >> /\ down = << >> /\ ip = FirstIp /\ upsets = 0

Upset == upsets + changes < MaxUpsets /\ upsets' = upsets + 1

-----------------------------------------------------------------------------
(* Datagrams.                                                              *)

\* The datagram a step of the mediator sends.
Sent(out) ==
    CASE out = "none" -> << >>
      [] out = "peer" -> <<[kind |-> "peer", id |-> id, ip |-> ip]>>
      [] out = "pk"   -> <<[kind |-> "pk", id |-> id, pk |-> pk, ip |-> ip]>>

AnswerAtOnce(res, to) == <<[res |-> IF res = "later" THEN "OK" ELSE res, ip |-> to]>>

\* The datagram hbbs answers to the address to, once the request is done.
Answer(res, to) == IF res = "later" THEN << >> ELSE <<[res |-> res, ip |-> to]>>

\* What may become of a queue: a datagram is lost, or is overtaken by the next one.
Disturbed(q) ==
    {SubSeq(q, 1, i - 1) \o SubSeq(q, i + 1, Len(q)) : i \in 1 .. Len(q)}
      \union {[q EXCEPT ![i] = q[i + 1], ![i + 1] = q[i]] : i \in 1 .. Len(q) - 1}

Disturb ==
    /\ Upset
    /\ \/ up' \in Disturbed(up) /\ UNCHANGED down
       \/ down' \in Disturbed(down) /\ UNCHANGED up
    /\ UNCHANGED <<mediator, registry, ip>>

-----------------------------------------------------------------------------
(* The device.                                                             *)

Send ==
    /\ \E out \in M!Outs : /\ M!Register(host, out) \/ M!SendPk(host, out)
                           /\ up' = up \o Sent(out)
    /\ UNCHANGED <<registry, down, ip, upsets>>

Local ==
    /\ M!Loop \/ M!Connect(host) \/ M!ConfirmHost(host)
    /\ UNCHANGED <<registry, net>>

\* The timer of the device finds an answer overdue, or the last one old, while
\* nothing is on its way: datagrams take less time than reg_timeout ...
Tick ==
    /\ up = << >> /\ down = << >> /\ udp = Idle
    /\ M!Tick(host)
    /\ UNCHANGED <<registry, net>>

\* ... unless they are late.
TickEarly ==
    /\ Upset
    /\ M!Tick(host)
    /\ UNCHANGED <<registry, up, down, ip>>

\* The key pair of root arrives, which hbbs has never seen.
SyncKey ==
    /\ upsets + changes < MaxUpsets
    /\ \E p \in Pks : M!SyncKey(p, FALSE)
    /\ UNCHANGED <<registry, net>>

\* An answer of hbbs arrives, if the device still has the address it went to.
Receive ==
    /\ down # << >>
    /\ LET m == Head(down) IN
       \/ m.ip # ip /\ UNCHANGED mediator
       \/ m.ip = ip /\ CASE m.res = "request_pk"    -> M!PeerResponse(host, TRUE)
                         [] m.res = "registered"    -> M!PeerResponse(host, FALSE)
                         [] m.res = "OK"            -> M!PkOk(host)
                         [] m.res = "UUID_MISMATCH" -> M!PkMismatch(host)
                         [] m.res = "TOO_FREQUENT"  -> M!PkOther(host)
    /\ down' = Tail(down)
    /\ UNCHANGED <<registry, up, ip, upsets>>

Move ==
    /\ Upset
    /\ ip' \in Ips \ {ip}
    /\ UNCHANGED <<mediator, registry, up, down>>

-----------------------------------------------------------------------------
(* hbbs.                                                                   *)

\* A datagram arrives at hbbs.  The requests of one device stay below what
\* check_ip_blocker allows.
Arrive ==
    /\ up # << >>
    /\ LET m == Head(up) IN
       \/ /\ m.kind = "peer"
          /\ \E b \in BOOLEAN :
                /\ RegisterPeer(m.id, m.ip, b)
                /\ down' = down \o Answer(IF b THEN "request_pk" ELSE "registered", m.ip)
       \/ /\ m.kind = "pk"
          /\ \E res \in Results :
                /\ RegisterPk([id |-> m.id, uuid |-> uuid, pk |-> m.pk, ip |-> m.ip], TRUE, res)
                /\ down' = down \o Answer(res, m.ip)
    /\ up' = Tail(up)
    /\ UNCHANGED <<mediator, DbErrors, ip, upsets>>

\* The UDP task of hbbs goes on with the request it has taken.
Serve ==
    /\ \/ UdpDbRead /\ UNCHANGED down
       \/ \E res \in Results :
             /\ UdpLoad(res) \/ UdpDbWrite(res)
             /\ down' = down \o Answer(res, udp.req.ip)
    /\ UNCHANGED <<mediator, DbErrors, up, ip, upsets>>

\* Other clients look the device up.
Lookup ==
    /\ \E t \in Lookups : LookupMiss(t, id) \/ LookupDb(t) \/ LookupInsert(t)
    /\ UNCHANGED <<mediator, DbErrors, net>>

EntryExpires ==
    /\ \E i \in Ids : Expire(i)
    /\ UNCHANGED <<mediator, DbErrors, net>>

WindowEnds ==
    /\ \E i \in Ids : Elapse(i)
    /\ UNCHANGED <<mediator, DbErrors, net>>

\* hbbs is started again; its database still works.
Crash ==
    /\ Upset
    /\ UNCHANGED <<mediator, DbErrors, up, down, ip>>
    /\ Restart

SystemNext ==
    \/ Disturb \/ Send \/ Local \/ Tick \/ TickEarly \/ SyncKey \/ Move \/ Receive
    \/ Arrive \/ Serve \/ Lookup \/ EntryExpires \/ WindowEnds \/ Crash

SystemSpec == SystemInit /\ [][SystemNext]_systemVars

\* Both sides keep running: their timers fire, their sockets are served, and the
\* rate limiting window ends.
Fairness ==
    /\ WF_systemVars(Send) /\ WF_systemVars(Local) /\ WF_systemVars(Tick) /\ WF_systemVars(Receive)
    /\ WF_systemVars(Arrive) /\ WF_systemVars(Serve) /\ WF_systemVars(WindowEnds)

FairSpec == SystemSpec /\ Fairness

-----------------------------------------------------------------------------
(* Properties.                                                             *)

\* The registry counts the device as online at its address under its id.
Online == mem[id] # None /\ mem[id].fresh /\ mem[id].uuid = uuid /\ mem[id].addr = ip

\* The device has a row at hbbs, under the id it goes by or one it went by before.
HasRow == \E i \in 1 .. id : db[i] # None /\ db[i].uuid = uuid

\* A device that takes its key for confirmed is in the database of hbbs, whichever
\* answers were delayed or overtaken and however often hbbs crashed, as long as the
\* database works (handle_resp, update_pk): the device never goes over to RegisterPeer
\* before its row is there.
ConfirmedHasRow == key_confirmed => HasRow

\* The database changes for the device alone: ids of the other device stay its own,
\* and no id has a row of the device before the device has drawn it
\* (handle_uuid_mismatch, RegisterPk).
OwnRowsOnly ==
    \A i \in Ids :
        /\ i \in Owned => db[i] # None /\ db[i].uuid = other
        /\ i \notin Owned /\ db[i] # None => i <= id /\ db[i].uuid = uuid

\* However datagrams are lost, hbbs restarts, the device moves or lookups race,
\* the device is online again and again (start_udp, handle_resp, handle_udp).
OnlineAgain == []<>Online

\* The id the device goes by is in the end its own in the database
\* (handle_uuid_mismatch, RegisterPk).
IdBecomesMine == <>[](db[id] # None /\ db[id].uuid = uuid)

\* After the key pair has changed, the registry learns the new key: the promise
\* of CheckIfResendPk.
KeyIsReregistered == <>[](db[id] # None /\ db[id].pk = pk)
=============================================================================
