------------------------------- MODULE Relay -------------------------------
(***************************************************************************)
(* hbbr, the relay server (server/src/relay_server.rs).                    *)
(*                                                                         *)
(* Every accepted TCP or websocket connection runs a task of its own       *)
(* (make_pair / make_pair_).  The task reads one RequestRelay message and  *)
(* looks its uuid up in the global map PEERS.  The first connection of a   *)
(* uuid leaves its stream in PEERS and sleeps for 30 seconds; the second   *)
(* one takes that stream out of PEERS and copies bytes between the two     *)
(* until one side ends (relay).  The lookup and the insertion are two      *)
(* separate acquisitions of the PEERS lock, and the sleeper removes        *)
(* whatever PEERS holds under its uuid when it wakes.                      *)
(*                                                                         *)
(* Time is abstracted: a timeout or a sleep may end at any moment.         *)
(***************************************************************************)
EXTENDS Naturals, Sequences, FiniteSets

CONSTANTS
    Conns,       \* connections, one per accepted socket
    Uuids,       \* non-empty uuids of RequestRelay messages
    Licences,    \* licence keys a client may present
    ServerKey,   \* the key hbbr was started with
    NoKey,       \* ServerKey of a server started without a key
    Ws,          \* the connections that arrive on the websocket listener
    SockIp,      \* address of a connection's socket
    RealIp,      \* address after X-Real-IP / X-Forwarded-For
    UsageId,     \* the key "ip:port" of a connection in USAGE
    AdminIps,    \* addresses the operator's commands name
    MaxChunks,   \* bound: client -> chunks of data it sends
    NoConn, NoUuid

ASSUME ConstAssumption ==
    /\ NoConn \notin Conns
    /\ NoUuid \notin Uuids
    /\ Ws \subseteq Conns
    /\ MaxChunks \in [Conns -> Nat]

VARIABLES
    task,       \* where the task of a connection is
    sock,       \* the server's end of the connection
    uuid,       \* the uuid the task has read
    licence,    \* the licence key that came with it
    PEERS,      \* uuid -> the stream left for the second party
    peer,       \* the stream the relaying task took out of PEERS
    USAGE,      \* keys of the usage table
    blacklist, blocklist,
    blacked,    \* local of relay: the limiter of the blacklist is used
    hup,        \* clients that have closed their end
    sent,       \* chunks a client has sent after its request
    taken,      \* chunks hbbr has read from it
    received    \* chunks a client got, as <<sender, number>>

pairing == <<task, sock, uuid, licence, PEERS, peer>>
lists == <<blacklist, blocklist>>
data == <<sent, taken, received>>
vars == <<task, sock, uuid, licence, PEERS, peer, USAGE, blacklist, blocklist,
          blacked, hup, sent, taken, received>>

Tasks == {"idle", "handshake", "recv", "insert", "sleep", "paired", "relay",
          "closing", "done"}

\* A task in its relay() call or about to make or leave it: it owns two streams.
Relaying(c) == task[c] \in {"paired", "relay", "closing"}

Init ==
    /\ task = [c \in Conns |-> "idle"]
    /\ sock = [c \in Conns |-> "none"]
    /\ uuid = [c \in Conns |-> NoUuid]
    /\ licence = [c \in Conns |-> NoKey]
    /\ PEERS = [u \in Uuids |-> NoConn]
    /\ peer = [c \in Conns |-> NoConn]
    /\ USAGE = {}
    /\ blacklist = {}
    /\ blocklist = {}
    /\ blacked = [c \in Conns |-> FALSE]
    /\ hup = {}
    /\ sent = [c \in Conns |-> 0]
    /\ taken = [c \in Conns |-> 0]
    /\ received = [c \in Conns |-> <<>>]

-----------------------------------------------------------------------------
(* Accepting a connection and reading its request.                         *)

\* handle_connection: a blocked address is dropped, any other gets a task.
Accept(c) ==
    /\ task[c] = "idle"
    /\ IF SockIp[c] \in blocklist
       THEN /\ task' = [task EXCEPT ![c] = "done"]
            /\ sock' = [sock EXCEPT ![c] = "closed"]
       ELSE /\ task' = [task EXCEPT ![c] = IF c \in Ws THEN "handshake"
                                                       ELSE "recv"]
            /\ sock' = [sock EXCEPT ![c] = "open"]
    /\ UNCHANGED <<uuid, licence, PEERS, peer, USAGE, lists, blacked, hup, data>>

\* make_pair: the websocket handshake.  It is awaited without a timeout.
Handshake(c) ==
    /\ task[c] = "handshake"
    /\ c \notin hup
    /\ task' = [task EXCEPT ![c] = "recv"]
    /\ UNCHANGED <<sock, uuid, licence, PEERS, peer, USAGE, lists, blacked, hup,
                   data>>

\* The task returns and its stream is dropped.
DropStream(c) ==
    /\ task' = [task EXCEPT ![c] = "done"]
    /\ sock' = [sock EXCEPT ![c] = "closed"]

\* accept_hdr_async fails because the client went away.
HandshakeError(c) ==
    /\ task[c] = "handshake"
    /\ c \in hup
    /\ DropStream(c)
    /\ UNCHANGED <<uuid, licence, PEERS, peer, USAGE, lists, blacked, hup, data>>

\* Mutant of RecvFail: the receive has no timeout.
RecvFailNoTimeout(c) ==
    /\ task[c] = "recv"
    /\ c \in hup
    /\ DropStream(c)
    /\ UNCHANGED <<uuid, licence, PEERS, peer, USAGE, lists, blacked, hup, data>>

\* make_pair_: 30 seconds without a message, an error, or a message that is
\* not a RequestRelay with a uuid.
RecvFail(c) ==
    /\ task[c] = "recv"
    /\ DropStream(c)
    /\ UNCHANGED <<uuid, licence, PEERS, peer, USAGE, lists, blacked, hup, data>>

\* The task takes what PEERS holds under u and goes on with PEERS' = rest.
Lookup(c, u, l, rest) ==
    /\ uuid' = [uuid EXCEPT ![c] = u]
    /\ licence' = [licence EXCEPT ![c] = l]
    /\ peer' = [peer EXCEPT ![c] = PEERS[u]]
    /\ PEERS' = rest
    /\ task' = [task EXCEPT ![c] = IF PEERS[u] = NoConn THEN "insert" ELSE "paired"]
    /\ UNCHANGED <<sock, USAGE, lists, blacked, hup, data>>

\* Mutant of Request: the licence key is not compared.
RequestAnyKey(c, u, l) ==
    /\ task[c] = "recv"
    /\ Lookup(c, u, l, [PEERS EXCEPT ![u] = NoConn])

\* Mutant of Request: the waiting stream is read from PEERS, not removed.
RequestNoRemove(c, u, l) ==
    /\ task[c] = "recv"
    /\ l = ServerKey
    /\ Lookup(c, u, l, PEERS)

\* make_pair_: a RequestRelay arrives.  The key is compared, then the stream
\* waiting under the uuid is taken out of PEERS in one critical section.
Request(c, u, l) ==
    /\ task[c] = "recv"
    /\ IF ServerKey # NoKey /\ l # ServerKey
       THEN /\ DropStream(c)
            /\ UNCHANGED <<uuid, licence, PEERS, peer, USAGE, lists, blacked, hup, data>>
       ELSE Lookup(c, u, l, [PEERS EXCEPT ![u] = NoConn])

\* The sockets after the stream that PEERS holds under u is dropped.
DropEntry(u) ==
    IF PEERS[u] = NoConn THEN sock ELSE [sock EXCEPT ![PEERS[u]] = "closed"]

\* make_pair_: the stream goes into PEERS under a second acquisition of the
\* lock; a stream another task has put there meanwhile is dropped.
Insert(c) ==
    /\ task[c] = "insert"
    /\ PEERS' = [PEERS EXCEPT ![uuid[c]] = c]
    /\ sock' = DropEntry(uuid[c])
    /\ task' = [task EXCEPT ![c] = "sleep"]
    /\ UNCHANGED <<uuid, licence, peer, USAGE, lists, blacked, hup, data>>

\* Mutant of Wake: the sleeper returns without clearing its entry.
WakeKeepsEntry(c) ==
    /\ task[c] = "sleep"
    /\ task' = [task EXCEPT ![c] = "done"]
    /\ UNCHANGED <<sock, uuid, licence, PEERS, peer, USAGE, lists, blacked, hup, data>>

\* make_pair_: after the sleep PEERS is cleared under the uuid.
Wake(c) ==
    /\ task[c] = "sleep"
    /\ PEERS' = [PEERS EXCEPT ![uuid[c]] = NoConn]
    /\ sock' = DropEntry(uuid[c])
    /\ task' = [task EXCEPT ![c] = "done"]
    /\ UNCHANGED <<uuid, licence, peer, USAGE, lists, blacked, hup, data>>

-----------------------------------------------------------------------------
(* The relay of a pair, run by the task of the second party.               *)

\* make_pair_: the USAGE entry is created before relay() is called.
StartRelay(c) ==
    /\ task[c] = "paired"
    /\ USAGE' = USAGE \union {UsageId[c]}
    /\ task' = [task EXCEPT ![c] = "relay"]
    /\ UNCHANGED <<sock, uuid, licence, PEERS, peer, lists, blacked, hup, data>>

\* Mutant of Other: every chunk goes to the second party.
OtherSecond(c, from) == c

\* The stream a chunk read from one of the two is written to.
Other(c, from) == IF from = c THEN peer[c] ELSE c

\* relay: a chunk read from one stream is written to the other one.
Forward(c, from) ==
    LET to == Other(c, from) IN
    /\ task[c] = "relay"
    /\ taken[from] < sent[from]
    /\ taken' = [taken EXCEPT ![from] = @ + 1]
    /\ \/ /\ to \notin hup
          /\ received' = [received EXCEPT ![to] = Append(@, <<from, taken[from] + 1>>)]
          /\ UNCHANGED task
       \/ /\ to \in hup
          /\ task' \in {task, [task EXCEPT ![c] = "closing"]}
          /\ UNCHANGED received
    /\ UNCHANGED <<sock, uuid, licence, PEERS, peer, USAGE, lists, blacked, hup, sent>>

\* Mutant of RecvEnd: only the end of the second party's stream ends the loop.
RecvEndSecond(c, from) ==
    /\ task[c] = "relay"
    /\ from = c /\ c \in hup
    /\ task' = [task EXCEPT ![c] = "closing"]
    /\ UNCHANGED <<sock, uuid, licence, PEERS, peer, USAGE, lists, blacked, hup, data>>

\* relay: a stream ends or fails, which a client that closed its end causes.
RecvEnd(c, from) ==
    /\ task[c] = "relay"
    /\ from \in hup
    /\ task' = [task EXCEPT ![c] = "closing"]
    /\ UNCHANGED <<sock, uuid, licence, PEERS, peer, USAGE, lists, blacked, hup, data>>

\* relay: the three second timer finds no data for more than 30 seconds.
IdleTimeout(c) ==
    /\ task[c] = "relay"
    /\ task' = [task EXCEPT ![c] = "closing"]
    /\ UNCHANGED <<sock, uuid, licence, PEERS, peer, USAGE, lists, blacked, hup, data>>

\* Mutant of Tick: the blocklist is only consulted when a client connects.
TickNoBlock(c) ==
    /\ task[c] = "relay"
    /\ blacked' = [blacked EXCEPT ![c] = RealIp[c] \in blacklist]
    /\ USAGE' = USAGE \union {UsageId[c]}
    /\ UNCHANGED <<task, sock, uuid, licence, PEERS, peer, lists, hup, data>>

\* relay: at least a second has passed since the last time.  The limits
\* of the data rate, and the downgrade they lead to, are left out.
Tick(c) ==
    /\ task[c] = "relay"
    /\ IF RealIp[c] \in blocklist
       THEN /\ task' = [task EXCEPT ![c] = "closing"]
            /\ UNCHANGED <<USAGE, blacked>>
       ELSE /\ blacked' = [blacked EXCEPT ![c] = RealIp[c] \in blacklist]
            /\ USAGE' = USAGE \union {UsageId[c]}
            /\ UNCHANGED task
    /\ UNCHANGED <<sock, uuid, licence, PEERS, peer, lists, hup, data>>

\* Mutant of EndRelay: the usage entry stays.
EndRelayKeepsUsage(c) ==
    /\ task[c] = "closing"
    /\ task' = [task EXCEPT ![c] = "done"]
    /\ sock' = [sock EXCEPT ![c] = "closed", ![peer[c]] = "closed"]
    /\ UNCHANGED <<uuid, licence, PEERS, peer, USAGE, lists, blacked, hup, data>>

\* Mutant of EndRelay: the first party's stream is forgotten.
EndRelayOneSide(c) ==
    /\ task[c] = "closing"
    /\ USAGE' = USAGE \ {UsageId[c]}
    /\ DropStream(c)
    /\ UNCHANGED <<uuid, licence, PEERS, peer, lists, blacked, hup, data>>

\* make_pair_: after relay() the USAGE entry goes and both streams are dropped.
EndRelay(c) ==
    /\ task[c] = "closing"
    /\ USAGE' = USAGE \ {UsageId[c]}
    /\ task' = [task EXCEPT ![c] = "done"]
    /\ sock' = [sock EXCEPT ![c] = "closed", ![peer[c]] = "closed"]
    /\ UNCHANGED <<uuid, licence, PEERS, peer, lists, blacked, hup, data>>

-----------------------------------------------------------------------------
(* The operator's commands (check_cmd) and the clients.                    *)

Command(ip) ==
    /\ \/ blacklist' \in {blacklist \union {ip}, blacklist \ {ip}, {}} /\ UNCHANGED blocklist
       \/ blocklist' \in {blocklist \union {ip}, blocklist \ {ip}, {}} /\ UNCHANGED blacklist
    /\ UNCHANGED <<pairing, USAGE, blacked, hup, data>>

\* A client sends one more chunk after its request.
ClientSend(c) ==
    /\ uuid[c] # NoUuid
    /\ sock[c] = "open"
    /\ c \notin hup
    /\ sent[c] < MaxChunks[c]
    /\ sent' = [sent EXCEPT ![c] = @ + 1]
    /\ UNCHANGED <<pairing, USAGE, lists, blacked, hup, taken, received>>

\* A client closes its end or loses its network.
ClientClose(c) ==
    /\ sock[c] = "open"
    /\ c \notin hup
    /\ hup' = hup \union {c}
    /\ UNCHANGED <<pairing, USAGE, lists, blacked, data>>

\* What the task of c does when it is scheduled.
TaskStep(c) ==
    \/ HandshakeError(c) \/ RecvFail(c) \/ Insert(c) \/ Wake(c)
    \/ StartRelay(c) \/ EndRelay(c)
    \/ \E from \in {c, peer[c]} : RecvEnd(c, from)

Next ==
    \/ \E c \in Conns :
          \/ Accept(c) \/ Handshake(c) \/ IdleTimeout(c) \/ Tick(c)
          \/ \E u \in Uuids, l \in Licences : Request(c, u, l)
          \/ \E from \in {c, peer[c]} : Forward(c, from)
          \/ TaskStep(c)
          \/ ClientSend(c) \/ ClientClose(c)
    \/ \E ip \in AdminIps : Command(ip)

Spec == Init /\ [][Next]_vars

\* Timers fire and a runnable task is scheduled; nothing is assumed of clients,
\* of the network or of the operator.  A TaskStep brings its task nearer to its end,
\* so that the fairness of all of them together is that of each.
Fairness ==
    /\ WF_vars(\E c \in Conns : TaskStep(c))
    /\ \A c \in Conns : WF_vars(Tick(c))

FairSpec == Spec /\ Fairness

-----------------------------------------------------------------------------
(* Properties.                                                             *)

\* Every variable of the relay server has its type.
TypeOK ==
    /\ task \in [Conns -> Tasks]
    /\ sock \in [Conns -> {"none", "open", "closed"}]
    /\ uuid \in [Conns -> Uuids \union {NoUuid}]
    /\ licence \in [Conns -> Licences \union {NoKey}]
    /\ PEERS \in [Uuids -> Conns \union {NoConn}]
    /\ peer \in [Conns -> Conns \union {NoConn}]
    /\ USAGE \subseteq {UsageId[c] : c \in Conns}
    /\ blacked \in [Conns -> BOOLEAN]
    /\ hup \subseteq Conns
    /\ sent \in [Conns -> Nat]
    /\ taken \in [Conns -> Nat]

\* A stream found in PEERS was put there by a task that still sleeps and will
\* clear the entry: no abandoned stream stays in the map (make_pair_).
EntryHasSleeper ==
    \A u \in Uuids, c \in Conns : PEERS[u] = c => task[c] = "sleep" /\ uuid[c] = u

\* The two streams of a relay were opened by different clients that named the
\* same uuid and both presented the server's key (make_pair_).
PairsMatch ==
    \A c \in Conns : Relaying(c) =>
        /\ peer[c] \in Conns \ {c}
        /\ uuid[c] \in Uuids
        /\ uuid[peer[c]] = uuid[c]
        /\ ServerKey # NoKey => licence[c] = ServerKey /\ licence[peer[c]] = ServerKey

\* A stream belongs to one relay at most, is not offered in PEERS meanwhile, and
\* both ends stay open while the relay runs, whatever sleepers wake or later
\* requests overwrite (make_pair_).
PairsExclusive ==
    \A c \in Conns : Relaying(c) =>
        /\ sock[c] = "open" /\ sock[peer[c]] = "open"
        /\ \A u \in Uuids : PEERS[u] \notin {c, peer[c]}
        /\ \A d \in Conns \ {c} :
              Relaying(d) => {c, peer[c]} \intersect {d, peer[d]} = {}

\* No connection is left open without a task that will serve or drop it: an open
\* socket is held by its own task, by PEERS or by the relay of its partner.
NoOrphan ==
    \A d \in Conns : sock[d] = "open" =>
        \/ task[d] \in {"handshake", "recv", "insert", "paired", "relay", "closing"}
        \/ \E u \in Uuids : PEERS[u] = d
        \/ \E c \in Conns : Relaying(c) /\ peer[c] = d

\* An entry of the usage table is of a relay that runs, even when websocket
\* clients behind a proxy share the key ip:0 and the once-a-second update puts
\* an entry back that another relay has removed (make_pair_, relay).
UsageBacked ==
    \A id \in USAGE : \E c \in Conns :
        UsageId[c] = id /\ task[c] \in {"relay", "closing"}

\* What a client receives is a gapless prefix of what its partner, and nobody
\* else, sent, including what the partner sent before the link was made (relay).
DeliveredInOrder ==
    \A c \in Conns : received[c] # <<>> =>
        \E d \in Conns \ {c} :
            /\ peer[c] = d \/ peer[d] = c
            /\ uuid[c] = uuid[d]
            /\ \A i \in DOMAIN received[c] : received[c][i] = <<d, i>>

\* Past the handshake no connection stays where it is for ever but in a relay: each
\* wait of make_pair_ is bounded, also for a client that has hung up meanwhile.
RequestSettles ==
    \A c \in Conns : []<>(task[c] \notin {"recv", "insert", "sleep", "paired", "closing"})

\* When one client of a pair goes away, both connections are eventually closed
\* (relay, make_pair_).
HangupEndsRelay ==
    \A c \in Conns :
        []<>(peer[c] # NoConn /\ {c, peer[c]} \intersect hup # {}
               => sock[c] = "closed" /\ sock[peer[c]] = "closed")

\* No relay runs for ever at full speed for an address that stays in the blacklist,
\* nor at all for one that stays in the blocklist (relay, check_cmd).
ListsTakeEffect ==
    \A c \in Conns :
        /\ []<>~(task[c] = "relay" /\ RealIp[c] \in blocklist)
        /\ []<>~(task[c] = "relay" /\ RealIp[c] \in blacklist /\ ~blacked[c])

\* What the server is to each client, for the refinement of RelayPairing.
Phase(c) ==
    IF sock[c] = "none" THEN "new"
    ELSE IF sock[c] = "closed" THEN "gone"
    ELSE CASE task[c] \in {"handshake", "recv"} -> "accepted"
           [] task[c] = "insert" -> "asking"
           [] \E u \in Uuids : PEERS[u] = c -> "waiting"
           [] OTHER -> "linked"

Partner(c) ==
    IF peer[c] # NoConn THEN peer[c]
    ELSE IF \E d \in Conns : peer[d] = c THEN CHOOSE d \in Conns : peer[d] = c
    ELSE NoConn

Pairing == INSTANCE RelayPairing WITH
    phase <- [c \in Conns |-> Phase(c)], room <- uuid,
    partner <- [c \in Conns |-> Partner(c)]

\* hbbr implements the pairing its clients rely on: links are made between two
\* clients of one uuid, at once for both, and end at once for both (make_pair_).
RefinesPairing == Pairing!Spec
=============================================================================
