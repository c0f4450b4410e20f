------------------------------- MODULE Punch --------------------------------
(***************************************************************************)
(* How hbbs brings a client and a device together.  A client connects to   *)
(* hbbs and asks for a device (Client::_start_inner, request_relay in      *)
(* src/src/client.rs).  hbbs keeps the sink of the connection in tcp_punch *)
(* under the address of the client and forwards the request to the device  *)
(* over UDP (server/src/rendezvous_server.rs).  The device answers over a  *)
(* TCP connection of its own (src/src/rendezvous_mediator.rs), naming the  *)
(* address, and hbbs hands the answer to the sink it finds there.          *)
(*                                                                         *)
(* A connection is used for one request: a punch hole request, sent up to  *)
(* MaxTries times, or a relay request, sent once.  Two connections may     *)
(* have one address: a port is used again, or a reverse proxy in front of  *)
(* the websocket port makes the port 0.  The field by of a message and the *)
(* variables served, passed and twice are history.                         *)
(***************************************************************************)
EXTENDS Naturals, FiniteSets

CONSTANTS
    Conns,          \* connections of clients to hbbs
    RelayConns,     \* those of request_relay
    Devices, Wants, \* Wants[c] is the device c asks for
    AddrOf,         \* AddrOf[c] is the address hbbs sees
    Mobile,         \* devices that may go offline
    Symmetric,      \* clients and devices with a symmetric NAT: the answer is a relay
    MaxTries,       \* client -> attempts of _start_inner: 3 in the code, fewer if the user gives up
    MaxFaults,      \* bound on datagrams lost or duplicated, and on late answers
    None

Addrs == {AddrOf[c] : c \in Conns}

ASSUME PunchAssumption ==
    /\ RelayConns \subseteq Conns /\ Mobile \subseteq Devices /\ Symmetric \subseteq Conns \union Devices
    /\ Wants \in [Conns -> Devices]
    /\ None \notin Conns \union Addrs
    /\ MaxTries \in [Conns -> Nat \ {0}] /\ MaxFaults \in Nat

VARIABLES
    cl,         \* the client's side of a connection
    tries,      \* requests sent on a connection
    inbox,      \* requests hbbs has not read yet
    task,       \* hbbs: the task of a connection
    taken,      \* hbbs: connections whose task has given its sink away
    tcp_punch,  \* hbbs: address -> the connection whose sink is kept
    mail,       \* what hbbs has sent on a connection
    online,     \* devices registered at hbbs within REG_TIMEOUT
    toB,        \* datagrams from hbbs to devices
    handlers,   \* tasks of devices that have read LAST_MSG
    LAST_MSG,   \* LAST_MSG and LAST_RELAY_MSG of a device: the address of the last
                \* request of a kind, while it is recent
    uuids,      \* relay sessions devices go to: <<device, uuid>>
    toS,        \* answers on their way to hbbs
    faults,
    served,     \* history: answers handed to the sink of a connection
    passed, twice   \* history: requests passed since LAST_MSG aged; one passed twice

client == <<cl, tries, inbox>>
hbbs == <<task, taken, tcp_punch, mail, online, served>>
device == <<handlers, LAST_MSG, uuids, passed, twice>>
vars == <<client, hbbs, device, toB, toS, faults>>

Kinds == {"punch", "relay"}
Kind(c) == IF c \in RelayConns THEN "relay" ELSE "punch"
Request(c) == [kind |-> Kind(c), addr |-> AddrOf[c], dev |-> Wants[c], by |-> c]
Tries(c) == IF c \in RelayConns THEN 1 ELSE MaxTries[c]

Init ==
    /\ cl = [c \in Conns |-> "new"] /\ tries = [c \in Conns |-> 0]
    /\ inbox = [c \in Conns |-> 0]
    /\ task = [c \in Conns |-> "none"] /\ taken = {} /\ served = [c \in Conns |-> 0]
    /\ tcp_punch = [a \in Addrs |-> None] /\ mail = [c \in Conns |-> None]
    /\ online = Devices
    /\ toB = {} /\ toS = {}
    /\ handlers = {} /\ LAST_MSG = [d \in Devices, k \in Kinds |-> None] /\ uuids = {}
    /\ faults = 0 /\ passed = {} /\ twice = FALSE

Fault == faults < MaxFaults /\ faults' = faults + 1

-----------------------------------------------------------------------------
(* The client.                                                             *)

\* Is anything under way that c waits for?
InFlight(c) ==
    \/ inbox[c] > 0 \/ task[c] = "handling" \/ mail[c] # None
    \/ \E m \in toB \union toS : m.by = c
    \/ \E t \in handlers : t.msg.by = c

\* connect_tcp to hbbs and the first request.
Open(c) ==
    /\ cl[c] = "new"
    /\ cl' = [cl EXCEPT ![c] = "waiting"]
    /\ tries' = [tries EXCEPT ![c] = 1] /\ inbox' = [inbox EXCEPT ![c] = 1]
    /\ task' = [task EXCEPT ![c] = "open"]
    /\ UNCHANGED <<taken, tcp_punch, mail, online, served, device, toB, toS, faults>>

\* What a task has read of LAST_MSG is no longer recent.
Forgotten(t) == [t EXCEPT !.last = None]

\* The client has waited for seconds: the answer is lost, or late.
Timeout(c) ==
    /\ cl[c] = "waiting"
    /\ \/ ~InFlight(c) /\ UNCHANGED faults
       \/ InFlight(c) /\ Fault
    /\ IF tries[c] < Tries(c)
       THEN /\ tries' = [tries EXCEPT ![c] = @ + 1]
            /\ inbox' = [inbox EXCEPT ![c] = @ + 1]
            /\ UNCHANGED cl
       ELSE /\ cl' = [cl EXCEPT ![c] = "failed"]
            /\ UNCHANGED <<tries, inbox>>
    /\ LAST_MSG' = [d \in Devices, k \in Kinds |-> None] /\ passed' = {}
    /\ handlers' = {Forgotten(t) : t \in handlers}
    /\ UNCHANGED <<hbbs, uuids, twice, toB, toS>>

\* What becomes of the connection when the answer m is read.
Outcome(c, m) ==
    CASE m.kind = "failure" -> "failed"
      [] m.kind = "hole"    -> IF c \in RelayConns THEN "failed" ELSE "direct"
      [] m.kind = "relay"   -> "relay"

Read(c) ==
    /\ cl[c] = "waiting" /\ mail[c] # None
    /\ cl' = [cl EXCEPT ![c] = Outcome(c, mail[c])]
    /\ UNCHANGED <<tries, inbox, hbbs, device, toB, toS, faults>>

-----------------------------------------------------------------------------
(* hbbs.                                                                   *)

\* handle_tcp: a request is read and the sink, if the task still has it, is kept.
HandleTcp(c) ==
    /\ task[c] = "open" /\ inbox[c] > 0
    /\ inbox' = [inbox EXCEPT ![c] = @ - 1]
    /\ tcp_punch' = IF c \in taken THEN tcp_punch ELSE [tcp_punch EXCEPT ![AddrOf[c]] = c]
    /\ taken' = taken \union {c}
    /\ task' = [task EXCEPT ![c] = "handling"]
    /\ UNCHANGED <<cl, tries, mail, online, served, device, toB, toS, faults>>

SendToTcpKeeping(m, addr) ==
    LET s == tcp_punch[addr] IN
    /\ tcp_punch' = tcp_punch
    /\ mail' = IF s = None THEN mail ELSE [mail EXCEPT ![s] = m]
    /\ served' = IF s = None THEN served ELSE [served EXCEPT ![s] = @ + 1]

\* send_to_tcp, send_to_tcp_sync: the sink of the address is used and dropped.
SendToTcp(m, addr) ==
    LET s == tcp_punch[addr] IN
    /\ tcp_punch' = [tcp_punch EXCEPT ![addr] = None]
    /\ mail' = IF s = None THEN mail ELSE [mail EXCEPT ![s] = m]
    /\ served' = IF s = None THEN served ELSE [served EXCEPT ![s] = @ + 1]

\* The rest of handle_tcp.  A device offline or unknown: a punch hole request is
\* refused, a relay request is dropped (unless the entry is still in memory).
Forward(c) ==
    /\ task[c] = "handling"
    /\ task' = [task EXCEPT ![c] = "open"]
    /\ \/ /\ Wants[c] \in online \/ c \in RelayConns
          /\ toB' = toB \union {Request(c)}
          /\ UNCHANGED <<tcp_punch, mail, served>>
       \/ /\ Wants[c] \notin online /\ c \notin RelayConns
          /\ SendToTcp([kind |-> "failure", addr |-> AddrOf[c], by |-> c], AddrOf[c])
          /\ UNCHANGED toB
       \/ /\ Wants[c] \notin online /\ c \in RelayConns
          /\ UNCHANGED <<toB, tcp_punch, mail, served>>
    /\ UNCHANGED <<client, taken, online, device, toS, faults>>

CloseKeeping(c) ==
    /\ task[c] = "open" /\ inbox[c] = 0 /\ cl[c] # "waiting"
    /\ task' = [task EXCEPT ![c] = "gone"]
    /\ UNCHANGED <<client, taken, tcp_punch, mail, online, served, device, toB, toS, faults>>

CloseAfterAnswer(c) ==
    /\ task[c] = "open" /\ inbox[c] = 0 /\ cl[c] # "waiting" /\ served[c] > 0
    /\ task' = [task EXCEPT ![c] = "gone"]
    /\ tcp_punch' = IF c \in taken THEN [tcp_punch EXCEPT ![AddrOf[c]] = None] ELSE tcp_punch
    /\ UNCHANGED <<client, taken, mail, online, served, device, toB, toS, faults>>

CloseEarly(c) ==
    /\ task[c] = "open" /\ inbox[c] = 0
    /\ task' = [task EXCEPT ![c] = "gone"]
    /\ tcp_punch' = IF c \in taken THEN [tcp_punch EXCEPT ![AddrOf[c]] = None] ELSE tcp_punch
    /\ UNCHANGED <<client, taken, mail, online, served, device, toB, toS, faults>>

\* The task of a closed connection ends and drops the sink under its address.
\* A client never waits as long as the 30 seconds after which the task would end.
Close(c) ==
    /\ task[c] = "open" /\ inbox[c] = 0 /\ cl[c] # "waiting"
    /\ task' = [task EXCEPT ![c] = "gone"]
    /\ tcp_punch' = IF c \in taken THEN [tcp_punch EXCEPT ![AddrOf[c]] = None] ELSE tcp_punch
    /\ UNCHANGED <<client, taken, mail, online, served, device, toB, toS, faults>>

\* PunchHoleSent, LocalAddr or RelayResponse of a device.
Answer(m) ==
    /\ m \in toS /\ toS' = toS \ {m}
    /\ SendToTcp(m, m.addr)
    /\ UNCHANGED <<client, task, taken, online, device, toB, faults>>

\* A device is not heard of for REG_TIMEOUT, or registers again.
Toggle(d) ==
    /\ d \in Mobile
    /\ \/ d \in online /\ online' = online \ {d} /\ Fault
       \/ d \notin online /\ online' = online \union {d} /\ UNCHANGED faults
    /\ UNCHANGED <<client, task, taken, tcp_punch, mail, served, device, toB, toS>>

-----------------------------------------------------------------------------
(* The device and the network.                                             *)

Copies == 1 .. 2

Lose(m) ==
    /\ m \in toB /\ toB' = toB \ {m} /\ Fault
    /\ UNCHANGED <<client, hbbs, device, toS>>

\* A datagram arrives, perhaps not for the last time; a task is spawned for it
\* and reads LAST_MSG.
Receive(m, copy) ==
    /\ m \in toB
    /\ \/ toB' = toB \ {m} /\ UNCHANGED faults
       \/ toB' = toB /\ Fault
    /\ \A t \in handlers : t.msg = m => t.copy # copy
    /\ handlers' = handlers \union {[msg |-> m, copy |-> copy, last |-> LAST_MSG[<<m.dev, m.kind>>]]}
    /\ UNCHANGED <<client, hbbs, LAST_MSG, uuids, passed, twice, toS>>

UuidOfDevice(m) == Cardinality({u \in uuids : u[1] = m.dev})

\* The relay session of a request: the client has named it, or the device does.
Uuid(m) == IF m.kind = "relay" THEN m.by ELSE Cardinality({u \in uuids : u[1] = m.dev})

ReplyAddrLast(t) == IF t.last = None THEN t.msg.addr ELSE t.last

\* The address an answer names: the one the request came with.
ReplyAddr(t) == t.msg.addr

\* The answer to a request and the relay session the device goes to, if any.
Reply(t) ==
    LET m == t.msg
        relay == m.kind = "relay" \/ {m.by, m.dev} \cap Symmetric # {}
    IN  /\ toS' = toS \union {[kind |-> IF relay THEN "relay" ELSE "hole",
                               addr |-> ReplyAddr(t), by |-> m.by,
                               uuid |-> IF relay THEN Uuid(m) ELSE None]}
        /\ uuids' = IF relay THEN uuids \union {<<m.dev, Uuid(m)>>} ELSE uuids

\* handle_punch_hole, handle_intranet, handle_request_relay: LAST_MSG is written;
\* a duplicate ends here.  Else the answer goes out, or connecting to hbbs fails.
HandlePunchHole(t) ==
    LET m == t.msg IN
    /\ t \in handlers /\ handlers' = handlers \ {t}
    /\ LAST_MSG' = [LAST_MSG EXCEPT ![<<m.dev, m.kind>>] = m.addr]
    /\ \/ /\ t.last = m.addr
          /\ UNCHANGED <<uuids, toS, faults, passed, twice>>
       \/ /\ t.last # m.addr
          /\ passed' = passed \union {m} /\ twice' = (twice \/ m \in passed)
          /\ \/ Reply(t) /\ UNCHANGED faults
             \/ Fault /\ UNCHANGED <<toS, uuids>>
    /\ UNCHANGED <<client, hbbs, toB>>

\* The last request of a device is more than 100 milliseconds old, also for the
\* tasks that have read it.
Age(d, k) ==
    /\ LAST_MSG[<<d, k>>] # None
    /\ LAST_MSG' = [LAST_MSG EXCEPT ![<<d, k>>] = None]
    /\ passed' = {m \in passed : m.dev # d \/ m.kind # k}
    /\ handlers' = {IF t.msg.dev = d /\ t.msg.kind = k THEN Forgotten(t) ELSE t : t \in handlers}
    /\ UNCHANGED <<client, hbbs, uuids, twice, toB, toS, faults>>

-----------------------------------------------------------------------------

Client(c) == Open(c) \/ Timeout(c) \/ Read(c)
Server(c) == HandleTcp(c) \/ Forward(c)

Arrive == \E m \in toB : \E i \in Copies : Receive(m, i)
Handle == \E t \in handlers : HandlePunchHole(t)
Return == \E m \in toS : Answer(m)

Next ==
    \/ \E c \in Conns : Client(c) \/ Server(c) \/ Close(c)
    \/ Arrive \/ Handle \/ Return
    \/ \E m \in toB : Lose(m)
    \/ \E d \in Devices : Toggle(d) \/ \E k \in Kinds : Age(d, k)

Spec == Init /\ [][Next]_vars

\* Timers fire, connected sockets are served, tasks are scheduled.  Every one of
\* these steps uses up a request, a message, an attempt or a connection, so that
\* the fairness of their disjunction is that of each.
Progress ==
    \/ Arrive \/ Handle \/ Return
    \/ \E c \in Conns : Timeout(c) \/ Read(c) \/ Server(c) \/ Close(c)

FairSpec == Spec /\ WF_vars(Progress)

-----------------------------------------------------------------------------
(* Properties.                                                             *)

\* No other connection has the address of c.
OwnAddress(c) == \A d \in Conns : AddrOf[d] = AddrOf[c] => d = c

\* hbbs has told c that the device it wants is offline.
Refused(c) == mail[c] # None /\ mail[c].kind = "failure" /\ faults > 0

\* A sink in tcp_punch belongs to a connection whose task still runs: no sink is
\* left behind, also when connections share an address (handle_listener_inner).
SinkOfOpenTask ==
    \A a \in Addrs : tcp_punch[a] # None =>
        AddrOf[tcp_punch[a]] = a /\ task[tcp_punch[a]] \in {"open", "handling"}

\* However often a client asks and a device answers, a connection gets one answer
\* (handle_tcp, send_to_tcp, send_to_tcp_sync).
AnsweredOnce == \A c \in Conns : served[c] <= 1

\* The answer a client reads is the answer to its own request, if the address of
\* its connection is its own (tcp_punch).
AnswerIsMine == \A c \in Conns : mail[c] # None /\ OwnAddress(c) => mail[c].by = c

\* A client that goes to the relay after an answer to its own request names the
\* session its device goes to (request_relay, create_relay).
RelayAgrees ==
    \A c \in Conns : cl[c] = "relay" /\ mail[c].by = c =>
        <<Wants[c], IF c \in RelayConns THEN c ELSE mail[c].uuid>> \in uuids

\* With fewer faults than attempts, a client that sends a punch hole request gets
\* an answer, which is the refusal only if the device went offline (_start_inner).
AskedIsAnswered ==
    \A c \in Conns \ RelayConns : OwnAddress(c) /\ MaxFaults < Tries(c) =>
        (cl[c] = "waiting" ~> cl[c] \in {"direct", "relay"} \/ Refused(c))

\* Every sink is dropped in the end (handle_listener_inner).
SinksAreDropped == \A a \in Addrs : []<>(tcp_punch[a] = None)

\* A device skips a punch hole message that is the duplicate of a recent one: the
\* comment in handle_punch_hole.
DuplicatesSkipped == ~twice
=============================================================================
