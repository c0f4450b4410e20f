---------------------------- MODULE Punch_proofs ----------------------------
(***************************************************************************)
(* Proofs of the safety invariants of Punch, for any number of clients,    *)
(* devices, attempts and faults, and any sharing of addresses.             *)
(*                                                                         *)
(* The argument: a sink is kept under the address of its own connection    *)
(* only, once, by a task that has not had it used yet (SinkOK); whatever   *)
(* is under way names the address of the client it is for (WayOK); an      *)
(* answer that names a relay session names one the device goes to, and     *)
(* what a client has read stays what it was sent (AnswerOK, ReadOK).       *)
(***************************************************************************)
EXTENDS Punch, TLAPS

Requests == {Request(c) : c \in Conns}

TypeOK ==
    /\ cl \in [Conns -> {"new", "waiting", "failed", "direct", "relay"}]
    /\ task \in [Conns -> {"none", "open", "handling", "gone"}]
    /\ taken \subseteq Conns
    /\ tcp_punch \in [Addrs -> Conns \union {None}]
    /\ served \in [Conns -> Nat]
    /\ DOMAIN mail = Conns /\ mail = [c \in Conns |-> mail[c]]
    /\ toB \subseteq Requests
    /\ \A t \in handlers :
         t.msg \in Requests /\ t = [msg |-> t.msg, copy |-> t.copy, last |-> t.last]

SinkOK ==
    \A a \in Addrs : tcp_punch[a] # None =>
        /\ AddrOf[tcp_punch[a]] = a
        /\ task[tcp_punch[a]] \in {"open", "handling"}
        /\ tcp_punch[a] \in taken
        /\ served[tcp_punch[a]] = 0

\* A connection that has got nothing has no mail, and none gets two answers.
ServedOK ==
    \A c \in Conns :
        /\ served[c] <= 1
        /\ c \notin taken => served[c] = 0
        /\ served[c] = 0 => mail[c] = None

\* What m, an answer, says of a relay session is true.
Agrees(m) ==
    m.kind = "relay" =>
        <<Wants[m.by], IF m.by \in RelayConns THEN m.by ELSE m.uuid>> \in uuids

AnswerOK(m) ==
    /\ m.by \in Conns /\ m.addr = AddrOf[m.by] /\ m.kind \in {"failure", "hole", "relay"}
    /\ Agrees(m)

WayOK == \A m \in toS : AnswerOK(m)

MailOK ==
    \A c \in Conns : mail[c] # None =>
        AnswerOK(mail[c]) /\ mail[c].addr = AddrOf[c]

ReadOK == \A c \in Conns : cl[c] = "relay" => mail[c] # None /\ mail[c].kind = "relay"

IInv == TypeOK /\ SinkOK /\ ServedOK /\ WayOK /\ MailOK /\ ReadOK

-----------------------------------------------------------------------------

\* The addresses of connections are the keys of tcp_punch.
LEMMA AddrOfConn == \A c \in Conns : AddrOf[c] \in Addrs
BY DEF Addrs

\* What a request holds (Request).
LEMMA RequestFields ==
    \A m \in Requests : m.by \in Conns /\ m.addr = AddrOf[m.by] /\ m.dev = Wants[m.by]
                        /\ m.kind = Kind(m.by)
BY DEF Requests, Request

\* An answer that is handed out goes to a connection that has had none, under the
\* address the answer names, and every other connection keeps what it has
\* (send_to_tcp, send_to_tcp_sync).
LEMMA Handed ==
    ASSUME TypeOK, SinkOK, ServedOK, MailOK, NEW m, AnswerOK(m),
           SendToTcp(m, m.addr), taken' = taken, uuids' = uuids
    PROVE  /\ tcp_punch' \in [Addrs -> Conns \union {None}]
           /\ served' \in [Conns -> Nat]
           /\ DOMAIN mail' = Conns /\ mail' = [c \in Conns |-> mail'[c]]
           /\ \A a \in Addrs : tcp_punch'[a] # None =>
                tcp_punch'[a] = tcp_punch[a] /\ served'[tcp_punch[a]] = 0
           /\ \A c \in Conns : mail[c] # None => mail'[c] = mail[c]
           /\ ServedOK' /\ MailOK'
<1> DEFINE s == tcp_punch[m.addr]
<1>1. m.addr \in Addrs /\ s \in Conns \union {None} /\ None \notin Conns
  BY AddrOfConn, PunchAssumption DEF AnswerOK, TypeOK
<1>2. CASE s = None
  <2>1. /\ tcp_punch' = [tcp_punch EXCEPT ![m.addr] = None]
        /\ mail' = mail /\ served' = served
    BY <1>2 DEF SendToTcp
  <2> QED
    BY <2>1, <1>1 DEF TypeOK, SinkOK, ServedOK, MailOK, AnswerOK, Agrees
<1>3. CASE s # None
  <2>1. /\ tcp_punch' = [tcp_punch EXCEPT ![m.addr] = None]
        /\ mail' = [mail EXCEPT ![s] = m] /\ served' = [served EXCEPT ![s] = @ + 1]
    BY <1>3 DEF SendToTcp
  <2>2. s \in Conns /\ s \in taken /\ served[s] = 0 /\ mail[s] = None /\ AddrOf[s] = m.addr
    BY <1>1, <1>3 DEF SinkOK, ServedOK
  <2>3. tcp_punch' \in [Addrs -> Conns \union {None}] /\ served' \in [Conns -> Nat]
    BY <1>1, <2>1, <2>2 DEF TypeOK
  <2>4. DOMAIN mail' = Conns /\ mail' = [c \in Conns |-> mail'[c]]
    BY <2>1, <2>2 DEF TypeOK
  <2>5. \A c \in Conns : mail'[c] = IF c = s THEN m ELSE mail[c]
    BY <2>1, <2>2 DEF TypeOK
  <2>6. \A c \in Conns : served'[c] = IF c = s THEN 1 ELSE served[c]
    BY <2>1, <2>2 DEF TypeOK
  <2>7. ASSUME NEW a \in Addrs, tcp_punch'[a] # None
        PROVE  tcp_punch'[a] = tcp_punch[a] /\ served'[tcp_punch[a]] = 0
    <3>1. a # m.addr /\ tcp_punch'[a] = tcp_punch[a]
      BY <2>1, <2>7, <1>1 DEF TypeOK
    <3>2. tcp_punch[a] \in Conns /\ AddrOf[tcp_punch[a]] = a /\ served[tcp_punch[a]] = 0
      BY <3>1, <2>7 DEF SinkOK, TypeOK
    <3> QED
      BY <3>1, <3>2, <2>2, <2>6
  <2>8. ServedOK'
    BY <2>2, <2>5, <2>6 DEF ServedOK
  <2>9. MailOK'
    BY <2>2, <2>5 DEF MailOK, AnswerOK, Agrees
  <2> QED
    BY <2>2, <2>3, <2>4, <2>5, <2>7, <2>8, <2>9
<1> QED
  BY <1>2, <1>3

-----------------------------------------------------------------------------

\* Before anybody has connected nothing is kept and nothing is under way (Init).
LEMMA InitIInv == Init => IInv
BY AddrOfConn, PunchAssumption
   DEF Init, IInv, TypeOK, SinkOK, ServedOK, WayOK, MailOK, ReadOK, Requests, Addrs

\* A step that hands out no answer, starts no relay session and sends no answer
\* changes nothing about the answers (send_to_tcp).
LEMMA NoAnswer ==
    ASSUME IInv, taken' = taken, mail' = mail, served' = served, uuids' = uuids, toS' = toS
    PROVE  ServedOK' /\ WayOK' /\ MailOK'
<1>1. \A m : AnswerOK(m)' <=> AnswerOK(m)
  BY Zenon DEF AnswerOK, Agrees
<1> QED
  BY <1>1, Zenon DEF IInv, ServedOK, WayOK, MailOK

\* A step that leaves the tasks and the sinks of hbbs, the answers and the relay
\* sessions alone, and after which the device's tasks and the datagrams are still
\* about requests.
LEMMA Apart ==
    ASSUME IInv, task' = task, taken' = taken, tcp_punch' = tcp_punch, mail' = mail,
           served' = served, uuids' = uuids, toS' = toS, cl' = cl,
           toB' \subseteq Requests,
           \A t \in handlers' :
             t.msg \in Requests /\ t = [msg |-> t.msg, copy |-> t.copy, last |-> t.last]
    PROVE  IInv'
<1>1. Requests' = Requests
  BY Zenon DEF Requests, Request, Kind
<1>2. TypeOK'
  BY <1>1, Zenon DEF IInv, TypeOK
<1>3. SinkOK' /\ ReadOK'
  BY Zenon DEF IInv, SinkOK, ReadOK
<1> QED
  BY <1>2, <1>3, NoAnswer, Zenon DEF IInv

\* The same of a step of the client, the device or the network.
LEMMA Elsewhere ==
    ASSUME IInv, UNCHANGED <<hbbs, uuids, toS, cl>>,
           toB' \subseteq Requests,
           \A t \in handlers' :
             t.msg \in Requests /\ t = [msg |-> t.msg, copy |-> t.copy, last |-> t.last]
    PROVE  IInv'
<1>1. /\ task' = task /\ taken' = taken /\ tcp_punch' = tcp_punch /\ mail' = mail
      /\ served' = served /\ uuids' = uuids /\ toS' = toS /\ cl' = cl
  BY DEF hbbs
<1> QED
  BY <1>1, Apart, Zenon

\* A task that takes LAST_MSG for old is still about its request (Forgotten).
LEMMA Forgets ==
    ASSUME TypeOK, NEW t \in handlers
    PROVE  /\ Forgotten(t).msg \in Requests
           /\ Forgotten(t) = [msg |-> Forgotten(t).msg, copy |-> Forgotten(t).copy,
                             last |-> Forgotten(t).last]
<1>1. t.msg \in Requests /\ t = [msg |-> t.msg, copy |-> t.copy, last |-> t.last]
  BY DEF TypeOK
<1>2. Forgotten(t) = [msg |-> t.msg, copy |-> t.copy, last |-> None]
  BY <1>1 DEF Forgotten
<1> QED
  BY <1>1, <1>2

\* Every step of clients, hbbs, devices and the network keeps the inductive invariant.
LEMMA NextIInv == IInv /\ [Next]_vars => IInv'
<1> SUFFICES ASSUME IInv, [Next]_vars PROVE IInv'
  OBVIOUS
<1> USE PunchAssumption
<1>1. ASSUME NEW c \in Conns, Open(c) PROVE IInv'
  <2>1. mail' = mail /\ tcp_punch' = tcp_punch /\ taken' = taken /\ served' = served
        /\ uuids' = uuids /\ toS' = toS /\ toB' = toB /\ handlers' = handlers
    BY <1>1 DEF Open, device
  <2>2. /\ cl' = [cl EXCEPT ![c] = "waiting"] /\ task' = [task EXCEPT ![c] = "open"]
    BY <1>1 DEF Open
  <2> QED
    BY <2>1, <2>2 DEF IInv, TypeOK, SinkOK, ServedOK, WayOK, MailOK, ReadOK, AnswerOK, Agrees,
       Requests, Request, Kind
<1>2. ASSUME NEW c \in Conns, Timeout(c) PROVE IInv'
  <2>1. UNCHANGED <<hbbs, uuids, toS, toB>>
    BY <1>2 DEF Timeout
  <2>2. \A t \in handlers' :
          t.msg \in Requests /\ t = [msg |-> t.msg, copy |-> t.copy, last |-> t.last]
    BY <1>2, Forgets DEF Timeout, IInv
  <2>3. cl' \in [Conns -> {"new", "waiting", "failed", "direct", "relay"}]
        /\ \A b \in Conns : cl'[b] = "relay" => cl[b] = "relay"
    BY <1>2 DEF Timeout, IInv, TypeOK
  <2> QED
    BY <2>1, <2>2, <2>3 DEF IInv, TypeOK, SinkOK, ServedOK, WayOK, MailOK, ReadOK, AnswerOK,
       Agrees, hbbs, Requests, Request, Kind
<1>3. ASSUME NEW c \in Conns, Read(c) PROVE IInv'
  <2>1. UNCHANGED <<hbbs, uuids, toS, toB, handlers>>
    BY <1>3 DEF Read, device
  <2>2. mail[c] # None /\ cl' = [cl EXCEPT ![c] = Outcome(c, mail[c])]
    BY <1>3 DEF Read
  <2>3. AnswerOK(mail[c]) /\ mail[c].kind \in {"failure", "hole", "relay"}
    BY <2>2 DEF IInv, MailOK, AnswerOK
  <2>4. Outcome(c, mail[c]) \in {"failed", "direct", "relay"}
        /\ (Outcome(c, mail[c]) = "relay" => mail[c].kind = "relay")
    BY <2>3 DEF Outcome
  <2>5. /\ task' = task /\ taken' = taken /\ tcp_punch' = tcp_punch /\ mail' = mail
        /\ served' = served /\ uuids' = uuids /\ toS' = toS /\ toB' = toB /\ handlers' = handlers
    BY <2>1 DEF hbbs
  <2>6. cl \in [Conns -> {"new", "waiting", "failed", "direct", "relay"}]
    BY Zenon DEF IInv, TypeOK
  <2>7. /\ cl' \in [Conns -> {"new", "waiting", "failed", "direct", "relay"}]
        /\ \A b \in Conns : cl'[b] = "relay" => cl[b] = "relay" \/ (b = c /\ mail[c].kind = "relay")
    BY <2>2, <2>4, <2>6
  <2>8. Requests' = Requests
    BY Zenon DEF Requests, Request, Kind
  <2>9. TypeOK'
    BY <2>5, <2>7, <2>8, Zenon DEF IInv, TypeOK
  <2>10. SinkOK' /\ ReadOK'
    BY <2>2, <2>5, <2>7, Zenon DEF IInv, SinkOK, ReadOK
  <2> QED
    BY <2>5, <2>9, <2>10, NoAnswer, Zenon DEF IInv
<1>4. ASSUME NEW c \in Conns, HandleTcp(c) PROVE IInv'
  <2>1. UNCHANGED <<cl, mail, served, uuids, toS, toB, handlers>>
    BY <1>4 DEF HandleTcp, device
  <2>2. /\ task[c] = "open" /\ task' = [task EXCEPT ![c] = "handling"]
        /\ taken' = taken \union {c}
        /\ tcp_punch' = IF c \in taken THEN tcp_punch ELSE [tcp_punch EXCEPT ![AddrOf[c]] = c]
    BY <1>4 DEF HandleTcp
  <2>3. TypeOK'
    BY <2>1, <2>2, AddrOfConn DEF IInv, TypeOK, Requests, Request, Kind
  <2>4. SinkOK'
    <3>1. CASE c \in taken
      BY <2>1, <2>2, <3>1 DEF IInv, TypeOK, SinkOK
    <3>2. CASE c \notin taken
      BY <2>1, <2>2, <3>2, AddrOfConn DEF IInv, TypeOK, SinkOK, ServedOK
    <3> QED
      BY <3>1, <3>2
  <2> QED
    BY <2>1, <2>2, <2>3, <2>4 DEF IInv, ServedOK, WayOK, MailOK, ReadOK, AnswerOK, Agrees
<1>5. ASSUME NEW c \in Conns, Forward(c) PROVE IInv'
  <2>1. UNCHANGED <<cl, taken, uuids, toS, handlers>>
    BY <1>5 DEF Forward, client, device
  <2>2. task[c] = "handling" /\ task' = [task EXCEPT ![c] = "open"]
    BY <1>5 DEF Forward
  <2>3. Requests' = Requests
    BY Zenon DEF Requests, Request, Kind
  <2>4. ASSUME toB' \subseteq Requests, tcp_punch' = tcp_punch, mail' = mail, served' = served
        PROVE  IInv'
    <3>1. cl' = cl /\ taken' = taken /\ uuids' = uuids /\ toS' = toS /\ handlers' = handlers
      BY <2>1
    <3>2. task \in [Conns -> {"none", "open", "handling", "gone"}]
      BY Zenon DEF IInv, TypeOK
    <3>3. /\ task' \in [Conns -> {"none", "open", "handling", "gone"}]
          /\ \A b \in Conns : task[b] \in {"open", "handling"} => task'[b] \in {"open", "handling"}
      BY <2>2, <3>2
    <3>4. TypeOK'
      <4>1. /\ cl' \in [Conns -> {"new", "waiting", "failed", "direct", "relay"}]
            /\ taken' \subseteq Conns /\ tcp_punch' \in [Addrs -> Conns \union {None}]
            /\ served' \in [Conns -> Nat]
        BY <2>4, <3>1, Zenon DEF IInv, TypeOK
      <4>2. DOMAIN mail' = Conns /\ mail' = [b \in Conns |-> mail'[b]]
        BY <2>4, Zenon DEF IInv, TypeOK
      <4>3. /\ toB' \subseteq Requests'
            /\ \A t \in handlers' :
                 t.msg \in Requests' /\ t = [msg |-> t.msg, copy |-> t.copy, last |-> t.last]
        BY <2>3, <2>4, <3>1, Zenon DEF IInv, TypeOK
      <4> QED
        BY <3>3, <4>1, <4>2, <4>3, Zenon DEF TypeOK
    <3>5. tcp_punch \in [Addrs -> Conns \union {None}]
      BY Zenon DEF IInv, TypeOK
    <3>6. SinkOK'
      <4> SUFFICES ASSUME NEW a \in Addrs, tcp_punch[a] # None
                   PROVE  /\ AddrOf[tcp_punch[a]] = a
                          /\ task'[tcp_punch[a]] \in {"open", "handling"}
                          /\ tcp_punch[a] \in taken /\ served[tcp_punch[a]] = 0
        BY <2>4, <3>1, Zenon DEF SinkOK
      <4>1. tcp_punch[a] \in Conns
        BY <3>5, Zenon
      <4>2. /\ AddrOf[tcp_punch[a]] = a
            /\ task[tcp_punch[a]] \in {"open", "handling"}
            /\ tcp_punch[a] \in taken /\ served[tcp_punch[a]] = 0
        BY Zenon DEF IInv, SinkOK
      <4> QED
        BY <3>3, <4>1, <4>2, Zenon
    <3>7. ReadOK'
      BY <2>4, <3>1, Zenon DEF IInv, ReadOK
    <3> QED
      BY <2>4, <3>1, <3>4, <3>6, <3>7, NoAnswer, Zenon DEF IInv
  <2>5. CASE toB' = toB \union {Request(c)} /\ UNCHANGED <<tcp_punch, mail, served>>
    <3>1. toB' \subseteq Requests
      BY <2>5 DEF IInv, TypeOK, Requests, Request, Kind
    <3> QED
      BY <2>5, <2>4, <3>1
  <2>6. CASE toB' = toB /\ SendToTcp([kind |-> "failure", addr |-> AddrOf[c], by |-> c], AddrOf[c])
    <3> DEFINE m == [kind |-> "failure", addr |-> AddrOf[c], by |-> c]
    <3>1. AnswerOK(m) /\ m.addr = AddrOf[c]
      BY DEF AnswerOK, Agrees
    <3> HIDE DEF m
    <3>2. SendToTcp(m, m.addr)
      BY <2>6, <3>1 DEF m
    <3>3. /\ tcp_punch' \in [Addrs -> Conns \union {None}]
          /\ served' \in [Conns -> Nat]
          /\ DOMAIN mail' = Conns /\ mail' = [b \in Conns |-> mail'[b]]
          /\ \A a \in Addrs : tcp_punch'[a] # None =>
               tcp_punch'[a] = tcp_punch[a] /\ served'[tcp_punch[a]] = 0
          /\ \A b \in Conns : mail[b] # None => mail'[b] = mail[b]
          /\ ServedOK' /\ MailOK'
      BY <2>1, <3>1, <3>2, Handed DEF IInv
    <3>4. TypeOK'
      BY <2>1, <2>2, <2>6, <3>3, ZenonT(60) DEF IInv, TypeOK, Requests, Request, Kind
    <3>5. SinkOK'
      BY <2>1, <2>2, <3>3 DEF IInv, TypeOK, SinkOK
    <3> QED
      BY <2>1, <3>3, <3>4, <3>5 DEF IInv, WayOK, ReadOK, AnswerOK, Agrees
  <2>7. CASE UNCHANGED <<toB, tcp_punch, mail, served>>
    <3>1. toB' \subseteq Requests
      BY <2>7 DEF IInv, TypeOK
    <3> QED
      BY <2>7, <2>4, <3>1
  <2> QED
    BY <1>5, <2>5, <2>6, <2>7 DEF Forward
<1>6. ASSUME NEW c \in Conns, Close(c) PROVE IInv'
  <2>1. UNCHANGED <<cl, taken, mail, served, uuids, toS, toB, handlers>>
    BY <1>6, ZenonT(60) DEF Close, client, device
  <2>2. /\ task' = [task EXCEPT ![c] = "gone"]
        /\ tcp_punch' = IF c \in taken THEN [tcp_punch EXCEPT ![AddrOf[c]] = None] ELSE tcp_punch
    BY <1>6, ZenonT(60) DEF Close
  <2>3. TypeOK'
    BY <2>1, <2>2, AddrOfConn DEF IInv, TypeOK, Requests, Request, Kind
  <2>4. SinkOK'
    BY <2>1, <2>2, AddrOfConn DEF IInv, TypeOK, SinkOK
  <2> QED
    BY <2>1, <2>3, <2>4, ZenonT(60) DEF IInv, ServedOK, WayOK, MailOK, ReadOK, AnswerOK, Agrees
<1>7. ASSUME NEW m \in toS, Answer(m) PROVE IInv'
  <2>1. UNCHANGED <<cl, task, taken, uuids, toB, handlers>> /\ toS' = toS \ {m}
    BY <1>7 DEF Answer, client, device
  <2>2. AnswerOK(m) /\ SendToTcp(m, m.addr)
    BY <1>7 DEF Answer, IInv, WayOK
  <2>3. /\ tcp_punch' \in [Addrs -> Conns \union {None}]
        /\ served' \in [Conns -> Nat]
        /\ DOMAIN mail' = Conns /\ mail' = [b \in Conns |-> mail'[b]]
        /\ \A a \in Addrs : tcp_punch'[a] # None =>
             tcp_punch'[a] = tcp_punch[a] /\ served'[tcp_punch[a]] = 0
        /\ \A b \in Conns : mail[b] # None => mail'[b] = mail[b]
        /\ ServedOK' /\ MailOK'
    BY <2>1, <2>2, Handed DEF IInv
  <2>4. /\ cl' = cl /\ task' = task /\ taken' = taken /\ uuids' = uuids /\ toB' = toB
        /\ handlers' = handlers /\ toS' \subseteq toS
    BY <2>1
  <2>5. Requests' = Requests
    BY Zenon DEF Requests, Request, Kind
  <2>6. TypeOK'
    BY <2>3, <2>4, <2>5, ZenonT(60) DEF IInv, TypeOK
  <2>7. SinkOK'
    BY <2>3, <2>4, ZenonT(60) DEF IInv, SinkOK
  <2>8. WayOK'
    <3>1. \A x : AnswerOK(x)' <=> AnswerOK(x)
      BY <2>4, Zenon DEF AnswerOK, Agrees
    <3> QED
      BY <2>4, <3>1, Zenon DEF IInv, WayOK
  <2>9. ReadOK'
    BY <2>3, <2>4, ZenonT(60) DEF IInv, ReadOK
  <2> QED
    BY <2>3, <2>6, <2>7, <2>8, <2>9, Zenon DEF IInv
<1>8. ASSUME NEW m \in toB, NEW i \in Copies, Receive(m, i) PROVE IInv'
  <2>1. UNCHANGED <<hbbs, uuids, toS, cl>>
    BY <1>8 DEF Receive, client
  <2>2. toB' \subseteq Requests /\ m \in Requests
    BY <1>8 DEF Receive, IInv, TypeOK
  <2>3. \A t \in handlers' :
          t.msg \in Requests /\ t = [msg |-> t.msg, copy |-> t.copy, last |-> t.last]
    BY <1>8, <2>2 DEF Receive, IInv, TypeOK
  <2> QED
    BY <2>1, <2>2, <2>3, Elsewhere
<1>9. ASSUME NEW t \in handlers, HandlePunchHole(t) PROVE IInv'
  <2> DEFINE m == t.msg
             relay == m.kind = "relay" \/ {m.by, m.dev} \cap Symmetric # {}
  <2>1. UNCHANGED <<hbbs, cl, toB>> /\ handlers' \subseteq handlers
    BY <1>9 DEF HandlePunchHole, client
  <2>2. m \in Requests
    BY DEF IInv, TypeOK
  <2>3. CASE UNCHANGED <<toS, uuids>>
    BY <2>1, <2>3, Elsewhere DEF IInv, TypeOK
  <2>4. CASE Reply(t)
    <3> DEFINE r == [kind |-> IF relay THEN "relay" ELSE "hole", addr |-> ReplyAddr(t),
                     by |-> m.by, uuid |-> IF relay THEN Uuid(m) ELSE None]
    <3>1. /\ toS' = toS \union {r}
          /\ uuids' = IF relay THEN uuids \union {<<m.dev, Uuid(m)>>} ELSE uuids
      BY <2>4, ZenonT(60) DEF Reply
    <3>2. /\ m.by \in Conns /\ m.addr = AddrOf[m.by] /\ m.dev = Wants[m.by]
          /\ m.by \in RelayConns => m.kind = "relay" /\ Uuid(m) = m.by
      BY <2>2, RequestFields DEF Kind, Uuid
    <3>3. r.by = m.by /\ r.addr = AddrOf[m.by] /\ r.kind \in {"hole", "relay"}
          /\ (r.kind = "relay" => relay /\ r.uuid = Uuid(m))
      BY <3>2, ZenonT(60) DEF ReplyAddr
    <3>4. /\ r.by \in Conns /\ r.addr = AddrOf[r.by] /\ r.kind \in {"failure", "hole", "relay"}
          /\ (r.kind = "relay" =>
               <<Wants[r.by], IF r.by \in RelayConns THEN r.by ELSE r.uuid>> \in uuids')
      <4> HIDE DEF r, relay, m
      <4> QED
        BY <3>1, <3>2, <3>3
    <3>5. uuids \subseteq uuids'
      BY <3>1
    <3> HIDE DEF r, relay, m
    <3>6. WayOK' /\ MailOK'
      BY <2>1, <3>1, <3>4, <3>5 DEF IInv, WayOK, MailOK, AnswerOK, Agrees, hbbs
    <3>7. /\ task' = task /\ taken' = taken /\ tcp_punch' = tcp_punch /\ mail' = mail
          /\ served' = served /\ cl' = cl /\ toB' = toB /\ handlers' \subseteq handlers
      BY <2>1 DEF hbbs
    <3>8. Requests' = Requests
      BY Zenon DEF Requests, Request, Kind
    <3>9. TypeOK'
      BY <3>7, <3>8, ZenonT(60) DEF IInv, TypeOK
    <3>10. SinkOK' /\ ServedOK' /\ ReadOK'
      BY <3>7, Zenon DEF IInv, SinkOK, ServedOK, ReadOK
    <3> QED
      BY <3>6, <3>9, <3>10, Zenon DEF IInv
  <2> QED
    BY <1>9, <2>3, <2>4 DEF HandlePunchHole
<1>10. ASSUME NEW m \in toB, Lose(m) PROVE IInv'
  <2>1. UNCHANGED <<hbbs, uuids, toS, cl, handlers>> /\ toB' \subseteq Requests
    BY <1>10 DEF Lose, client, device, IInv, TypeOK
  <2> QED
    BY <2>1, Elsewhere DEF IInv, TypeOK
<1>11. ASSUME NEW d \in Devices, Toggle(d) PROVE IInv'
  <2>1. /\ task' = task /\ taken' = taken /\ tcp_punch' = tcp_punch /\ mail' = mail
        /\ served' = served /\ uuids' = uuids /\ toS' = toS /\ cl' = cl
        /\ toB' = toB /\ handlers' = handlers
    BY <1>11 DEF Toggle, client, device
  <2> QED
    BY <2>1, Apart, Zenon DEF IInv, TypeOK
<1>12. ASSUME NEW d \in Devices, NEW k \in Kinds, Age(d, k) PROVE IInv'
  <2>1. UNCHANGED <<hbbs, uuids, toS, cl, toB>>
    BY <1>12 DEF Age, client
  <2>2. \A t \in handlers' :
          t.msg \in Requests /\ t = [msg |-> t.msg, copy |-> t.copy, last |-> t.last]
    BY <1>12, Forgets DEF Age, IInv, TypeOK
  <2> QED
    BY <2>1, <2>2, Elsewhere DEF IInv, TypeOK
<1>13. CASE UNCHANGED vars
  BY <1>13, Elsewhere DEF vars, client, hbbs, device, IInv, TypeOK
<1> QED
  BY <1>1, <1>2, <1>3, <1>4, <1>5, <1>6, <1>7, <1>8, <1>9, <1>10, <1>11, <1>12, <1>13
     DEF Next, Client, Server, Arrive, Handle, Return

\* The inductive invariant holds in every reachable state of Punch.
THEOREM Invariant == Spec => []IInv
BY InitIInv, NextIInv, PTL DEF Spec

\* No sink of a connection is left in tcp_punch once its task has ended, however
\* connections share addresses (handle_listener_inner).
THEOREM SinksBelongToTasks == Spec => []SinkOfOpenTask
<1>1. IInv => SinkOfOpenTask
  BY DEF IInv, SinkOK, SinkOfOpenTask
<1> QED
  BY <1>1, Invariant, PTL

\* A connection is handed one answer at most, with any number of attempts,
\* duplicates and devices (handle_tcp, send_to_tcp).
THEOREM OneAnswer == Spec => []AnsweredOnce
<1>1. IInv => AnsweredOnce
  BY DEF IInv, ServedOK, AnsweredOnce
<1> QED
  BY <1>1, Invariant, PTL

\* A client whose address is its own is handed the answer to its own request
\* (tcp_punch).
THEOREM OwnAnswer == Spec => []AnswerIsMine
<1>1. IInv => AnswerIsMine
  BY DEF IInv, MailOK, AnswerOK, AnswerIsMine, OwnAddress
<1> QED
  BY <1>1, Invariant, PTL

\* A client sent to the relay by the answer to its own request names the session
\* its device goes to (request_relay, create_relay).
THEOREM SameSession == Spec => []RelayAgrees
<1>1. IInv => RelayAgrees
  BY DEF IInv, MailOK, ReadOK, AnswerOK, Agrees, RelayAgrees
<1> QED
  BY <1>1, Invariant, PTL
=============================================================================
