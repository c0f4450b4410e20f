---------------------------- MODULE Relay_proofs ----------------------------
(***************************************************************************)
(* Proofs about Relay: type correctness, and that a stream belongs to one  *)
(* relay at most, for any number of connections, uuids and keys; then that *)
(* it implements RelayPairing, keeps an honest usage table and delivers in *)
(* order.                                                                  *)
(***************************************************************************)
EXTENDS Relay, TLAPS

\* The part of the state the pairing argument needs, beyond the properties:
\* who holds a stream keeps its socket open, what a task past its request
\* knows, and that the first party's task never touches its stream again.
Support ==
    /\ \A c \in Conns :
          /\ task[c] \in {"handshake", "recv", "insert"} => sock[c] = "open"
          /\ task[c] \in {"insert", "sleep"} => uuid[c] \in Uuids
          /\ uuid[c] # NoUuid /\ ServerKey # NoKey => licence[c] = ServerKey
          /\ Relaying(c) => task[peer[c]] \in {"sleep", "done"}
    /\ \A u \in Uuids : PEERS[u] # NoConn => sock[PEERS[u]] = "open"

\* The inductive invariant.
IInv ==
    /\ TypeOK
    /\ EntryHasSleeper
    /\ PairsMatch
    /\ PairsExclusive
    /\ NoOrphan
    /\ Support

USE ConstAssumption DEF Tasks

-----------------------------------------------------------------------------
\* Every reachable state is well typed.
LEMMA InitInv == Init => IInv
  BY DEF Init, IInv, TypeOK, EntryHasSleeper, PairsMatch, PairsExclusive, NoOrphan,
         Support, Relaying

\* Every step of hbbr and its clients keeps the types.
LEMMA TypeStep == TypeOK /\ [Next]_vars => TypeOK'
  <1> SUFFICES ASSUME TypeOK, [Next]_vars PROVE TypeOK'
    OBVIOUS
  <1> USE DEF TypeOK, lists, data, pairing
  <1>1. ASSUME NEW c \in Conns, Accept(c) PROVE TypeOK'
    BY <1>1 DEF Accept
  <1>2. ASSUME NEW c \in Conns, Handshake(c) PROVE TypeOK'
    BY <1>2 DEF Handshake
  <1>3. ASSUME NEW c \in Conns, IdleTimeout(c) PROVE TypeOK'
    BY <1>3 DEF IdleTimeout
  <1>4. ASSUME NEW c \in Conns, Tick(c) PROVE TypeOK'
    <2>1. blacked' \in [Conns -> BOOLEAN]
      <3>1. CASE RealIp[c] \in blocklist
        BY <1>4, <3>1 DEF Tick
      <3>2. CASE RealIp[c] \notin blocklist
        <4>1. (RealIp[c] \in blacklist) \in BOOLEAN
          OBVIOUS
        <4>2. blacked' = [blacked EXCEPT ![c] = RealIp[c] \in blacklist]
          BY <1>4, <3>2 DEF Tick
        <4>3. QED
          BY <4>1, <4>2, Zenon
      <3>3. QED
        BY <3>1, <3>2
    <2>2. USAGE' \subseteq {UsageId[d] : d \in Conns}
      BY <1>4 DEF Tick
    <2>3. task' \in [Conns -> Tasks]
      BY <1>4 DEF Tick
    <2>4. UNCHANGED <<sock, uuid, licence, PEERS, peer, hup, sent, taken>>
      BY <1>4 DEF Tick
    <2>5. QED
      BY <2>1, <2>2, <2>3, <2>4
  <1>5. ASSUME NEW c \in Conns, NEW u \in Uuids, NEW l \in Licences, Request(c, u, l)
        PROVE TypeOK'
    BY <1>5, SMTT(60) DEF Request, Lookup, DropStream
  <1>6. ASSUME NEW c \in Conns, NEW from \in {c, peer[c]}, Forward(c, from) PROVE TypeOK'
    <2>1. taken' = [taken EXCEPT ![from] = @ + 1]
      BY <1>6 DEF Forward
    <2>2. taken' \in [Conns -> Nat]
      <3>1. CASE from \in Conns
        BY <2>1, <3>1
      <3>2. CASE from \notin Conns
        BY <2>1, <3>2, ZenonT(60)
      <3>3. QED
        BY <3>1, <3>2
    <2>3. task' \in [Conns -> Tasks]
      BY <1>6, ZenonT(60) DEF Forward
    <2>4. UNCHANGED <<sock, uuid, licence, PEERS, peer, USAGE, blacked, hup, sent>>
      BY <1>6 DEF Forward
    <2>5. QED
      BY <2>2, <2>3, <2>4
  <1>7. ASSUME NEW c \in Conns, HandshakeError(c) \/ RecvFail(c) PROVE TypeOK'
    BY <1>7 DEF HandshakeError, RecvFail, DropStream
  <1>8. ASSUME NEW c \in Conns, Insert(c) PROVE TypeOK'
    BY <1>8, ZenonT(60) DEF Insert, DropEntry
  <1>9. ASSUME NEW c \in Conns, Wake(c) PROVE TypeOK'
    BY <1>9, ZenonT(60) DEF Wake, DropEntry
  <1>10. ASSUME NEW c \in Conns, StartRelay(c) PROVE TypeOK'
    BY <1>10 DEF StartRelay
  <1>11. ASSUME NEW c \in Conns, EndRelay(c) PROVE TypeOK'
    BY <1>11, ZenonT(60) DEF EndRelay
  <1>12. ASSUME NEW c \in Conns, NEW from \in {c, peer[c]}, RecvEnd(c, from) PROVE TypeOK'
    BY <1>12 DEF RecvEnd
  <1>13. ASSUME NEW c \in Conns, ClientSend(c) \/ ClientClose(c) PROVE TypeOK'
    BY <1>13 DEF ClientSend, ClientClose
  <1>14. ASSUME NEW ip \in AdminIps, Command(ip) PROVE TypeOK'
    BY <1>14 DEF Command
  <1>15. CASE UNCHANGED vars
    BY <1>15 DEF vars
  <1> HIDE DEF TypeOK
  <1>16. ASSUME NEW c \in Conns, TaskStep(c) PROVE TypeOK'
    BY <1>16, <1>7, <1>8, <1>9, <1>10, <1>11, <1>12, Zenon DEF TaskStep
  <1>17. QED
    BY <1>1, <1>2, <1>3, <1>4, <1>5, <1>6, <1>13, <1>14, <1>15, <1>16, Zenon DEF Next

-----------------------------------------------------------------------------
(* The pairing part of the invariant, action by action.                    *)

Pairs == EntryHasSleeper /\ PairsMatch /\ PairsExclusive /\ NoOrphan /\ Support

\* Steps that leave the pairing state alone.
LEMMA PairsUnchanged == Pairs /\ UNCHANGED pairing => Pairs'
  BY DEF Pairs, pairing, EntryHasSleeper, PairsMatch, PairsExclusive, NoOrphan,
         Support, Relaying

\* Steps of a relay that neither start nor end it.
LEMMA PairsRelayOn ==
    ASSUME TypeOK, Pairs, NEW c \in Conns, NEW t \in {"relay", "closing"},
           Relaying(c), task' = [task EXCEPT ![c] = t],
           UNCHANGED <<sock, uuid, licence, PEERS, peer>>
    PROVE  Pairs'
  <1>1. \A d \in Conns : Relaying(d)' <=> Relaying(d)
    BY DEF Relaying, TypeOK
  <1>2. \A d \in Conns : ~Relaying(d) => task'[d] = task[d]
    BY DEF TypeOK
  <1> USE <1>1, <1>2 DEF Pairs
  <1>3. EntryHasSleeper'
    BY DEF EntryHasSleeper, TypeOK, Relaying
  <1>4. PairsMatch'
    BY DEF PairsMatch
  <1>5. PairsExclusive'
    BY DEF PairsExclusive
  <1>6. NoOrphan'
    BY DEF NoOrphan, TypeOK
  <1>7. Support'
    BY DEF Support, PairsMatch, TypeOK, Relaying
  <1>8. QED
    BY <1>3, <1>4, <1>5, <1>6, <1>7

\* Steps of a connection that has not made its request.
LEMMA PairsEarly ==
    ASSUME TypeOK, Pairs, NEW c \in Conns,
           task[c] \in {"idle", "handshake", "recv"},
           \/ /\ task' = [task EXCEPT ![c] = "done"]
              /\ sock' = [sock EXCEPT ![c] = "closed"]
           \/ \E t \in {"handshake", "recv"} :
                /\ task' = [task EXCEPT ![c] = t]
                /\ sock' = [sock EXCEPT ![c] = "open"],
           UNCHANGED <<uuid, licence, PEERS, peer>>
    PROVE  Pairs'
  <1>1. \A d \in Conns : Relaying(d)' <=> Relaying(d)
    BY DEF Relaying, TypeOK
  <1>2. \A u \in Uuids : PEERS[u] # c
    BY DEF Pairs, EntryHasSleeper
  <1>3. \A d \in Conns : Relaying(d) => d # c /\ peer[d] # c
    BY DEF Pairs, Support, Relaying
  <1>4. \A d \in Conns \ {c} : task'[d] = task[d] /\ sock'[d] = sock[d]
    BY DEF TypeOK
  <1>5. \/ task'[c] = "done" /\ sock'[c] = "closed"
        \/ task'[c] \in {"handshake", "recv"} /\ sock'[c] = "open"
    BY DEF TypeOK
  <1>6. EntryHasSleeper'
    BY <1>2, <1>4 DEF Pairs, EntryHasSleeper
  <1>7. PairsMatch'
    BY <1>1 DEF Pairs, PairsMatch
  <1>8. PairsExclusive'
    BY <1>1, <1>3, <1>4 DEF Pairs, PairsExclusive, PairsMatch
  <1>9. NoOrphan'
    BY <1>1, <1>4, <1>5 DEF Pairs, NoOrphan
  <1>10. Support'
    BY <1>1, <1>2, <1>3, <1>4, <1>5, SMTT(120) DEF Pairs, Support, PairsMatch, TypeOK
  <1>11. QED
    BY <1>6, <1>7, <1>8, <1>9, <1>10 DEF Pairs

\* make_pair_ takes the waiting stream of the uuid, or finds none.
LEMMA PairsLookup ==
    ASSUME TypeOK, Pairs, NEW c \in Conns, NEW u \in Uuids, NEW l \in Licences,
           Request(c, u, l)
    PROVE  Pairs'
  <1>1. CASE ServerKey # NoKey /\ l # ServerKey
    BY <1>1, PairsEarly DEF Request, DropStream
  <1>2. CASE ~(ServerKey # NoKey /\ l # ServerKey)
    <2> DEFINE w == PEERS[u]
    <2>1. /\ task[c] = "recv"
          /\ uuid' = [uuid EXCEPT ![c] = u]
          /\ licence' = [licence EXCEPT ![c] = l]
          /\ peer' = [peer EXCEPT ![c] = w]
          /\ PEERS' = [PEERS EXCEPT ![u] = NoConn]
          /\ task' = [task EXCEPT ![c] = IF w = NoConn THEN "insert" ELSE "paired"]
          /\ sock' = sock
      BY <1>2 DEF Request, Lookup
    <2>2. sock[c] = "open" /\ ~Relaying(c)
      BY <2>1 DEF Pairs, Support, Relaying
    <2>3. \A v \in Uuids : PEERS[v] # c
      BY <2>1 DEF Pairs, EntryHasSleeper
    <2>4. \A d \in Conns : Relaying(d) => d # c /\ peer[d] # c
      BY <2>1 DEF Pairs, Support, Relaying
    <2>5. w # NoConn =>
             /\ w \in Conns \ {c} /\ uuid[w] = u /\ task[w] = "sleep" /\ sock[w] = "open"
             /\ \A v \in Uuids : PEERS[v] = w => v = u
             /\ \A d \in Conns : Relaying(d) => peer[d] # w /\ d # w
      BY <2>3, SMTT(120) DEF Pairs, Support, EntryHasSleeper, PairsExclusive, TypeOK, Relaying
    <2>6. \A d \in Conns \ {c} : /\ task'[d] = task[d] /\ uuid'[d] = uuid[d]
                                 /\ licence'[d] = licence[d] /\ peer'[d] = peer[d]
                                 /\ Relaying(d)' <=> Relaying(d)
      BY <2>1 DEF TypeOK, Relaying
    <2>7. /\ uuid'[c] = u /\ licence'[c] = l /\ peer'[c] = w
          /\ task'[c] = IF w = NoConn THEN "insert" ELSE "paired"
          /\ Relaying(c)' <=> w # NoConn
      BY <2>1 DEF TypeOK, Relaying
    <2>8. \A v \in Uuids : PEERS'[v] = IF v = u THEN NoConn ELSE PEERS[v]
      BY <2>1 DEF TypeOK
    <2> HIDE DEF w
    <2>9. EntryHasSleeper'
      BY <2>3, <2>6, <2>8 DEF Pairs, EntryHasSleeper
    <2>10. PairsMatch'
      <3>1. ASSUME NEW d \in Conns \ {c}, Relaying(d)
            PROVE  /\ peer[d] \in Conns \ {c, d}
                   /\ uuid'[d] \in Uuids /\ uuid'[peer[d]] = uuid'[d]
                   /\ ServerKey # NoKey => licence'[d] = ServerKey /\ licence'[peer[d]] = ServerKey
        BY <3>1, <2>4, <2>6, ZenonT(60) DEF Pairs, PairsMatch
      <3>2. ASSUME w # NoConn, ServerKey # NoKey
            PROVE  l = ServerKey /\ licence[w] = ServerKey
        BY <3>2, <1>2, <2>5, ZenonT(60) DEF Pairs, Support
      <3>3. QED
        BY <3>1, <3>2, <2>5, <2>6, <2>7, SMTT(120) DEF PairsMatch
    <2>11. PairsExclusive'
      <3>1. \A d \in Conns \ {c} : Relaying(d) => peer[d] \in Conns \ {c, d, w} /\ d # w
        BY <2>4, <2>5 DEF Pairs, PairsMatch, TypeOK
      <3>2. \A d \in Conns : Relaying(d)' => sock'[d] = "open" /\ sock'[peer'[d]] = "open"
        BY <2>1, <2>2, <2>5, <2>6, <2>7 DEF Pairs, PairsExclusive
      <3>3. \A d \in Conns, v \in Uuids : Relaying(d)' => PEERS'[v] \notin {d, peer'[d]}
        <4> SUFFICES ASSUME NEW d \in Conns, NEW v \in Uuids, Relaying(d)'
                     PROVE  PEERS'[v] # d /\ PEERS'[v] # peer'[d]
          BY Zenon
        <4>1. CASE v = u
          <5>1. peer'[d] # NoConn
            BY <2>5, <2>6, <2>7, <3>1
          <5>2. QED
            BY <2>8, <4>1, <5>1
        <4>2. CASE v # u /\ d = c
          BY <2>3, <2>5, <2>7, <2>8, <4>2, ZenonT(60)
        <4>3. CASE v # u /\ d # c
          <5>1. Relaying(d) /\ peer'[d] = peer[d] /\ PEERS'[v] = PEERS[v]
            BY <2>6, <2>8, <4>3, ZenonT(60)
          <5>2. PEERS[v] \notin {d, peer[d]}
            BY <5>1, ZenonT(60) DEF Pairs, PairsExclusive
          <5>3. QED
            BY <5>1, <5>2, ZenonT(60)
        <4>4. QED
          BY <4>1, <4>2, <4>3, ZenonT(60)
      <3>4. \A d, e \in Conns : Relaying(d)' /\ Relaying(e)' /\ d # e =>
               {d, peer'[d]} \intersect {e, peer'[e]} = {}
        <4>1. \A d \in Conns \ {c} : Relaying(d)' => Relaying(d) /\ peer'[d] = peer[d]
          BY <2>6, ZenonT(60)
        <4>2. ASSUME NEW e \in Conns \ {c}, Relaying(c)', Relaying(e)'
              PROVE  {c, peer'[c]} \intersect {e, peer'[e]} = {}
          <5>1. /\ e # c /\ e # w /\ peer'[e] # c /\ peer'[e] # w /\ peer'[c] = w
            BY <2>7, <3>1, <4>1, <4>2, ZenonT(60)
          <5>2. QED
            BY ONLY <5>1
        <4>3. ASSUME NEW d \in Conns \ {c}, NEW e \in Conns \ {c}, d # e, Relaying(d)', Relaying(e)'
              PROVE  {d, peer'[d]} \intersect {e, peer'[e]} = {}
          <5>1. /\ Relaying(d) /\ Relaying(e) /\ e \in Conns \ {d}
                /\ peer'[d] = peer[d] /\ peer'[e] = peer[e]
            BY <4>1, <4>3, ZenonT(60)
          <5>2. {d, peer[d]} \intersect {e, peer[e]} = {}
            BY <5>1, ZenonT(60) DEF Pairs, PairsExclusive
          <5>3. QED
            BY <5>1, <5>2, ZenonT(60)
        <4>4. \A S, T : S \intersect T = T \intersect S
          OBVIOUS
        <4>5. QED
          BY <4>2, <4>3, <4>4, ZenonT(60)
      <3>5. QED
        BY <3>2, <3>3, <3>4 DEF PairsExclusive
    <2>12. NoOrphan'
      <3> SUFFICES ASSUME NEW d \in Conns, sock[d] = "open", d # c,
                          task'[d] \notin {"handshake", "recv", "insert", "paired",
                                          "relay", "closing"}
                   PROVE  \/ \E v \in Uuids : PEERS'[v] = d
                          \/ \E e \in Conns : Relaying(e)' /\ peer'[e] = d
        BY <2>1, <2>7 DEF NoOrphan
      <3>1. CASE d = w
        BY <3>1, <2>7
      <3>2. CASE d # w
        <4>1. \/ \E v \in Uuids : PEERS[v] = d
              \/ \E e \in Conns : Relaying(e) /\ peer[e] = d
          BY <2>6 DEF Pairs, NoOrphan
        <4>2. ASSUME NEW v \in Uuids, PEERS[v] = d PROVE PEERS'[v] = d
          BY <4>2, <3>2, <2>8 DEF w
        <4>3. ASSUME NEW e \in Conns, Relaying(e), peer[e] = d
              PROVE  Relaying(e)' /\ peer'[e] = d
          BY <4>3, <2>4, <2>6
        <4>4. QED
          BY <4>1, <4>2, <4>3
      <3>3. QED
        BY <3>1, <3>2
    <2>13. Support'
      <3>1. \A d \in Conns : Relaying(d)' => task'[peer'[d]] \in {"sleep", "done"}
        <4> SUFFICES ASSUME NEW d \in Conns, Relaying(d)'
                     PROVE  task'[peer'[d]] \in {"sleep", "done"}
          BY Zenon
        <4>1. CASE d = c
          <5>1. peer'[d] = w /\ w \in Conns \ {c} /\ task[w] = "sleep"
            BY <2>5, <2>7, <4>1, ZenonT(60)
          <5>2. task'[w] = "sleep"
            BY <2>6, <5>1, ZenonT(60)
          <5>3. QED
            BY <5>1, <5>2, ZenonT(60)
        <4>2. CASE d # c
          <5>1. Relaying(d) /\ peer'[d] = peer[d]
            BY <2>6, <4>2, ZenonT(60)
          <5>2. peer[d] \in Conns \ {c} /\ task[peer[d]] \in {"sleep", "done"}
            BY <2>4, <5>1, ZenonT(60) DEF Pairs, Support, PairsMatch
          <5>3. QED
            BY <2>6, <5>1, <5>2, ZenonT(60)
        <4>3. QED
          BY <4>1, <4>2
      <3>2. \A v \in Uuids : PEERS'[v] # NoConn => sock'[PEERS'[v]] = "open"
        BY <2>1, <2>8, SMTT(120) DEF Pairs, Support
      <3>3. QED
        <4>1. ASSUME NEW d \in Conns
              PROVE  /\ task'[d] \in {"handshake", "recv", "insert"} => sock'[d] = "open"
                     /\ task'[d] \in {"insert", "sleep"} => uuid'[d] \in Uuids
                     /\ uuid'[d] # NoUuid /\ ServerKey # NoKey => licence'[d] = ServerKey
          <5>1. CASE d = c
            BY <1>2, <2>1, <2>2, <2>7, <5>1, ZenonT(60)
          <5>2. CASE d # c
            <6>1. /\ task'[d] = task[d] /\ uuid'[d] = uuid[d] /\ licence'[d] = licence[d]
                  /\ sock'[d] = sock[d]
              BY <2>1, <2>6, <5>2, ZenonT(60)
            <6>2. /\ task[d] \in {"handshake", "recv", "insert"} => sock[d] = "open"
                  /\ task[d] \in {"insert", "sleep"} => uuid[d] \in Uuids
                  /\ uuid[d] # NoUuid /\ ServerKey # NoKey => licence[d] = ServerKey
              BY ZenonT(60) DEF Pairs, Support
            <6>3. QED
              BY <6>1, <6>2, ZenonT(60)
          <5>3. QED
            BY <5>1, <5>2
        <4>2. QED
          BY <3>1, <3>2, <4>1, ZenonT(60) DEF Support
    <2>14. QED
      BY <2>9, <2>10, <2>11, <2>12, <2>13 DEF Pairs
  <1>3. QED
    BY <1>1, <1>2

\* The stream PEERS holds under a uuid is in no relay and under no other uuid.
LEMMA EntryFree ==
    ASSUME TypeOK, Pairs, NEW u \in Uuids, PEERS[u] # NoConn
    PROVE  /\ PEERS[u] \in Conns
           /\ task[PEERS[u]] = "sleep" /\ uuid[PEERS[u]] = u
           /\ \A v \in Uuids : PEERS[v] = PEERS[u] => v = u
           /\ \A d \in Conns : Relaying(d) => PEERS[u] \notin {d, peer[d]}
  BY DEF Pairs, EntryHasSleeper, PairsExclusive, TypeOK

\* make_pair_ replaces the entry of its uuid by x and goes to t: the stream
\* that was there is dropped.  Insert and Wake are the two cases.
LEMMA PairsReplace ==
    ASSUME TypeOK, Pairs, NEW c \in Conns, NEW x \in {c, NoConn}, NEW t \in Tasks,
           \/ task[c] = "insert" /\ x = c /\ t = "sleep"
           \/ task[c] = "sleep" /\ x = NoConn /\ t = "done",
           PEERS' = [PEERS EXCEPT ![uuid[c]] = x],
           sock' = DropEntry(uuid[c]),
           task' = [task EXCEPT ![c] = t],
           UNCHANGED <<uuid, licence, peer>>
    PROVE  Pairs'
  <1> DEFINE u == uuid[c]
             w == PEERS[u]
  <1>1. u \in Uuids
    BY DEF Pairs, Support
  <1>2. w # NoConn =>
           /\ w \in Conns /\ task[w] = "sleep" /\ uuid[w] = u
           /\ \A v \in Uuids : PEERS[v] = w => v = u
           /\ \A d \in Conns : Relaying(d) => w \notin {d, peer[d]}
    BY <1>1, EntryFree
  <1>3. \A d \in Conns : sock'[d] = IF d = w THEN "closed" ELSE sock[d]
    BY <1>2 DEF DropEntry, TypeOK
  <1>4. \A v \in Uuids : PEERS'[v] = IF v = u THEN x ELSE PEERS[v]
    BY DEF TypeOK
  <1>5. /\ \A d \in Conns \ {c} : task'[d] = task[d]
        /\ task'[c] = t
    BY DEF TypeOK
  <1>6. /\ \A d \in Conns : Relaying(d)' <=> Relaying(d)
        /\ ~Relaying(c)
    BY <1>5 DEF Relaying
  <1>7. \A v \in Uuids : PEERS[v] = c => v = u
    BY DEF Pairs, EntryHasSleeper
  <1>8. task[c] = "insert" =>
           /\ sock[c] = "open" /\ c # w
           /\ \A d \in Conns : Relaying(d) => peer[d] # c
    BY <1>1, <1>2 DEF Pairs, Support, EntryHasSleeper, TypeOK
  <1> HIDE DEF u, w
  <1>9. EntryHasSleeper'
    <2> SUFFICES ASSUME NEW v \in Uuids, NEW d \in Conns, PEERS'[v] = d
                 PROVE  task'[d] = "sleep" /\ uuid[d] = v
      BY DEF EntryHasSleeper
    <2>1. CASE v = u
      <3>1. x = d
        BY <1>4, <2>1
      <3>2. QED
        BY <1>5, <2>1, <3>1 DEF u
    <2>2. CASE v # u
      <3>1. PEERS[v] = d
        BY <1>4, <2>2
      <3>2. d # c
        BY <1>7, <2>2, <3>1
      <3>3. QED
        BY <1>5, <3>1, <3>2 DEF Pairs, EntryHasSleeper
    <2>3. QED
      BY <2>1, <2>2
  <1>10. PairsMatch'
    BY <1>6 DEF Pairs, PairsMatch
  <1>11. PairsExclusive'
    <2>1. \A d \in Conns : Relaying(d) => /\ sock'[d] = "open" /\ sock'[peer[d]] = "open"
                                         /\ \A v \in Uuids : PEERS'[v] \notin {d, peer[d]}
      <3> SUFFICES ASSUME NEW d \in Conns, Relaying(d)
                   PROVE  /\ sock'[d] = "open" /\ sock'[peer[d]] = "open"
                          /\ \A v \in Uuids : PEERS'[v] \notin {d, peer[d]}
        OBVIOUS
      <3>1. peer[d] \in Conns
        BY ZenonT(60) DEF Pairs, PairsMatch
      <3>2. /\ sock[d] = "open" /\ sock[peer[d]] = "open"
            /\ \A v \in Uuids : PEERS[v] \notin {d, peer[d]}
        BY ZenonT(60) DEF Pairs, PairsExclusive
      <3>3. d # w /\ peer[d] # w
        BY <1>2, <3>1, ConstAssumption
      <3>4. sock'[d] = "open" /\ sock'[peer[d]] = "open"
        BY <1>3, <3>1, <3>2, <3>3, ZenonT(60)
      <3>5. x \notin {d, peer[d]}
        <4>1. CASE x = NoConn
          BY <4>1, <3>1, ConstAssumption
        <4>2. CASE task[c] = "insert" /\ x = c
          BY <4>2, <1>6, <1>8
        <4>3. QED
          BY <4>1, <4>2
      <3>6. QED
        BY <1>4, <3>2, <3>4, <3>5, ZenonT(60)
    <2>2. peer' = peer /\ \A d \in Conns : Relaying(d)' <=> Relaying(d)
      BY <1>6
    <2>3. \A d \in Conns, e \in Conns : Relaying(d) /\ Relaying(e) /\ e \in Conns \ {d} =>
            {d, peer[d]} \intersect {e, peer[e]} = {}
      BY ZenonT(60) DEF Pairs, PairsExclusive
    <2>4. QED
      BY <2>1, <2>2, <2>3, ZenonT(60) DEF PairsExclusive
  <1>12. NoOrphan'
    <2> SUFFICES ASSUME NEW d \in Conns, sock[d] = "open", d # w,
                        task'[d] \notin {"handshake", "recv", "insert", "paired",
                                        "relay", "closing"}
                 PROVE  \/ \E v \in Uuids : PEERS'[v] = d
                        \/ \E e \in Conns : Relaying(e)' /\ peer[e] = d
      BY <1>3 DEF NoOrphan
    <2>1. CASE d = c /\ x = c
      BY <2>1, <1>1, <1>4
    <2>2. CASE ~(d = c /\ x = c)
      <3>1. \/ \E v \in Uuids : PEERS[v] = d
            \/ \E e \in Conns : Relaying(e) /\ peer[e] = d
        BY <2>2, <1>5 DEF Pairs, NoOrphan
      <3>2. ASSUME NEW v \in Uuids, PEERS[v] = d PROVE PEERS'[v] = d
        BY <3>2, <1>4 DEF w
      <3>3. QED
        BY <3>1, <3>2, <1>6
    <2>3. QED
      BY <2>1, <2>2
  <1>13. Support'
    <2>1. \A v \in Uuids : PEERS'[v] # NoConn => sock'[PEERS'[v]] = "open"
      <3> SUFFICES ASSUME NEW v \in Uuids, PEERS'[v] # NoConn
                   PROVE  sock'[PEERS'[v]] = "open"
        OBVIOUS
      <3>1. CASE v = u
        BY <3>1, <1>3, <1>4, <1>8
      <3>2. CASE v # u
        <4>1. PEERS'[v] = PEERS[v] /\ PEERS[v] \in Conns /\ sock[PEERS[v]] = "open"
          <5>1. PEERS'[v] = PEERS[v]
            BY <3>2, <1>4, ZenonT(60)
          <5>2. PEERS \in [Uuids -> Conns \union {NoConn}]
            BY ZenonT(60) DEF TypeOK
          <5>3. PEERS[v] # NoConn /\ PEERS[v] \in Conns
            BY <5>1, <5>2, ZenonT(60)
          <5>4. QED
            BY <5>1, <5>3, ZenonT(60) DEF Pairs, Support
        <4>2. PEERS[v] # w
          BY <4>1, <3>2, <1>2
        <4>3. QED
          BY <4>1, <4>2, <1>3
      <3>3. QED
        BY <3>1, <3>2, ZenonT(60)
    <2>2. \A d \in Conns : Relaying(d)' => task'[peer[d]] \in {"sleep", "done"}
      BY <1>5, <1>6, <1>8, ZenonT(60) DEF Pairs, Support, PairsMatch
    <2>3. \A d \in Conns : task'[d] \in {"handshake", "recv", "insert"} => sock'[d] = "open"
      <3> SUFFICES ASSUME NEW d \in Conns, task'[d] \in {"handshake", "recv", "insert"}
                   PROVE  sock'[d] = "open"
        BY Zenon
      <3>1. d # c /\ task[d] \in {"handshake", "recv", "insert"}
        BY <1>5
      <3>2. sock[d] = "open"
        BY <3>1, ZenonT(60) DEF Pairs, Support
      <3>3. d # w
        BY <1>2, <3>1
      <3>4. QED
        BY <1>3, <3>2, <3>3, ZenonT(60)
    <2>4. \A d \in Conns : task'[d] \in {"insert", "sleep"} => uuid[d] \in Uuids
      BY <1>1, <1>5 DEF Pairs, Support, u
    <2>5. QED
      BY <2>1, <2>2, <2>3, <2>4, ZenonT(60) DEF Pairs, Support
  <1>14. QED
    BY <1>9, <1>10, <1>11, <1>12, <1>13 DEF Pairs

\* The end of a relay closes its two streams and no other.
LEMMA PairsEnd ==
    ASSUME TypeOK, Pairs, NEW c \in Conns, EndRelay(c)
    PROVE  Pairs'
  <1> DEFINE p == peer[c]
  <1>1. /\ Relaying(c)
        /\ task' = [task EXCEPT ![c] = "done"]
        /\ sock' = [sock EXCEPT ![c] = "closed", ![p] = "closed"]
        /\ UNCHANGED <<uuid, licence, PEERS, peer>>
    BY DEF EndRelay, Relaying
  <1>2. /\ p \in Conns \ {c} /\ task[p] \in {"sleep", "done"}
        /\ \A v \in Uuids : PEERS[v] \notin {c, p}
        /\ \A d \in Conns \ {c} : Relaying(d) => d \notin {c, p} /\ peer[d] \notin {c, p}
    BY <1>1, ZenonT(60) DEF Pairs, PairsMatch, PairsExclusive, Support
  <1>3. \A d \in Conns : sock'[d] = IF d \in {c, p} THEN "closed" ELSE sock[d]
    BY <1>1, <1>2 DEF TypeOK
  <1>4. /\ \A d \in Conns \ {c} : task'[d] = task[d] /\ (Relaying(d)' <=> Relaying(d))
        /\ task'[c] = "done" /\ ~Relaying(c)'
    BY <1>1 DEF TypeOK, Relaying
  <1> HIDE DEF p
  <1>5. EntryHasSleeper'
    BY <1>1, <1>2, <1>4 DEF Pairs, EntryHasSleeper
  <1>6. PairsMatch'
    BY <1>1, <1>4 DEF Pairs, PairsMatch
  <1>7. PairsExclusive'
    <2>1. UNCHANGED <<PEERS, peer>>
      BY <1>1
    <2>2. \A d \in Conns : Relaying(d)' => d # c /\ Relaying(d) /\ peer[d] \in Conns
      BY <1>4 DEF Pairs, PairsMatch
    <2>3. \A d \in Conns : Relaying(d)' => sock'[d] = "open" /\ sock'[peer[d]] = "open"
      BY <2>2, <1>2, <1>3 DEF Pairs, PairsExclusive
    <2>4. QED
      BY <2>1, <2>2, <2>3 DEF Pairs, PairsExclusive
  <1>8. NoOrphan'
    <2>1. ASSUME NEW d \in Conns, sock'[d] = "open"
          PROVE  \/ task'[d] \in {"handshake", "recv", "insert", "paired", "relay", "closing"}
                 \/ \E u \in Uuids : PEERS'[u] = d
                 \/ \E e \in Conns : Relaying(e)' /\ peer'[e] = d
      <3>1. d # c /\ d # p /\ sock[d] = "open"
        BY <1>3, <2>1
      <3>2. task'[d] = task[d] /\ PEERS' = PEERS /\ peer' = peer
        BY <1>1, <1>4, <3>1
      <3>3. CASE \E e \in Conns : Relaying(e) /\ peer[e] = d
        <4>1. PICK e \in Conns : Relaying(e) /\ peer[e] = d
          BY <3>3
        <4>2. e # c
          BY <3>1, <4>1, ZenonT(60) DEF p
        <4>3. Relaying(e)' /\ peer'[e] = d
          BY <1>4, <3>2, <4>1, <4>2, ZenonT(60)
        <4>4. QED
          BY <4>3, ZenonT(60)
      <3>4. QED
        BY <3>1, <3>2, <3>3, ZenonT(60) DEF Pairs, NoOrphan
    <2>2. QED
      BY <2>1, ZenonT(60) DEF NoOrphan
  <1>9. Support'
    <2>1. \A d \in Conns : Relaying(d)' => task'[peer[d]] \in {"sleep", "done"}
      BY <1>2, <1>4, ZenonT(60) DEF Pairs, Support, PairsMatch
    <2>2. \A v \in Uuids : PEERS[v] # NoConn => sock'[PEERS[v]] = "open"
      <3> SUFFICES ASSUME NEW v \in Uuids, PEERS[v] # NoConn
                   PROVE  sock'[PEERS[v]] = "open"
        BY Zenon
      <3>1. PEERS[v] \in Conns
        BY Zenon DEF TypeOK
      <3>2. sock[PEERS[v]] = "open" /\ PEERS[v] \notin {c, p}
        BY <1>2, ZenonT(60) DEF Pairs, Support
      <3>3. QED
        BY <1>3, <3>1, <3>2, ZenonT(60)
    <2>3. \A d \in Conns : task'[d] \in {"handshake", "recv", "insert"} => sock'[d] = "open"
      BY <1>2, <1>3, <1>4, ZenonT(60) DEF Pairs, Support
    <2>4. \A d \in Conns : task'[d] \in {"insert", "sleep"} => uuid[d] \in Uuids
      BY <1>4, ZenonT(60) DEF Pairs, Support
    <2>5. UNCHANGED <<uuid, licence, PEERS, peer>>
      BY <1>1
    <2>6. QED
      BY <2>1, <2>2, <2>3, <2>4, <2>5 DEF Pairs, Support
  <1>10. QED
    BY <1>5, <1>6, <1>7, <1>8, <1>9 DEF Pairs

-----------------------------------------------------------------------------
\* Every step of hbbr and its clients keeps what holds of the pairs.
LEMMA PairsStep == TypeOK /\ Pairs /\ [Next]_vars => Pairs'
  <1> SUFFICES ASSUME TypeOK, Pairs, [Next]_vars PROVE Pairs'
    OBVIOUS
  <1>1. ASSUME NEW c \in Conns, Accept(c) PROVE Pairs'
    BY <1>1, PairsEarly DEF Accept
  <1>2. ASSUME NEW c \in Conns, Handshake(c) PROVE Pairs'
    <2>1. sock' = [sock EXCEPT ![c] = "open"]
      <3>1. task[c] = "handshake" /\ sock' = sock
        BY <1>2, Zenon DEF Handshake
      <3>2. sock[c] = "open"
        BY <3>1, ZenonT(60) DEF Pairs, Support
      <3>3. sock \in [Conns -> {"none", "open", "closed"}]
        BY Zenon DEF TypeOK
      <3>4. QED
        BY ONLY <3>1, <3>2, <3>3, c \in Conns
    <2>2. QED
      BY <1>2, <2>1, PairsEarly, ZenonT(60) DEF Handshake
  <1>3. ASSUME NEW c \in Conns, HandshakeError(c) \/ RecvFail(c) PROVE Pairs'
    BY <1>3, PairsEarly DEF HandshakeError, RecvFail, DropStream
  <1>4. ASSUME NEW c \in Conns, NEW u \in Uuids, NEW l \in Licences, Request(c, u, l)
        PROVE Pairs'
    BY <1>4, PairsLookup
  <1>5. ASSUME NEW c \in Conns, Insert(c) PROVE Pairs'
    BY <1>5, PairsReplace, ZenonT(60) DEF Insert
  <1>6. ASSUME NEW c \in Conns, Wake(c) PROVE Pairs'
    BY <1>6, PairsReplace, ZenonT(60) DEF Wake
  <1>7. ASSUME NEW c \in Conns, StartRelay(c) PROVE Pairs'
    BY <1>7, PairsRelayOn, ZenonT(60) DEF StartRelay, Relaying
  <1>8. ASSUME NEW c \in Conns, IdleTimeout(c) PROVE Pairs'
    BY <1>8, PairsRelayOn, ZenonT(60) DEF IdleTimeout, Relaying
  <1>9. ASSUME NEW c \in Conns, NEW from \in {c, peer[c]}, RecvEnd(c, from) PROVE Pairs'
    BY <1>9, PairsRelayOn, ZenonT(60) DEF RecvEnd, Relaying
  <1>10. ASSUME NEW c \in Conns, Tick(c) PROVE Pairs'
    BY <1>10, PairsRelayOn, PairsUnchanged DEF Tick, Relaying, pairing
  <1>11. ASSUME NEW c \in Conns, NEW from \in {c, peer[c]}, Forward(c, from) PROVE Pairs'
    <2>1. /\ task[c] = "relay"
          /\ task' = task \/ task' = [task EXCEPT ![c] = "closing"]
          /\ UNCHANGED <<sock, uuid, licence, PEERS, peer>>
      BY <1>11, ZenonT(60) DEF Forward
    <2>2. QED
      BY <2>1, PairsRelayOn, PairsUnchanged DEF Relaying, pairing
  <1>12. ASSUME NEW c \in Conns, EndRelay(c) PROVE Pairs'
    BY <1>12, PairsEnd
  <1>13. ASSUME NEW c \in Conns, ClientSend(c) \/ ClientClose(c) PROVE Pairs'
    BY <1>13, PairsUnchanged, ZenonT(60) DEF ClientSend, ClientClose
  <1>14. ASSUME NEW ip \in AdminIps, Command(ip) PROVE Pairs'
    BY <1>14, PairsUnchanged DEF Command
  <1>15. CASE UNCHANGED vars
    BY <1>15, PairsUnchanged DEF vars, pairing
  <1>16. QED
    BY ZenonT(60), <1>1, <1>2, <1>3, <1>4, <1>5, <1>6, <1>7, <1>8, <1>9, <1>10, <1>11, <1>12,
       <1>13, <1>14, <1>15 DEF Next, TaskStep

\* The invariant holds of every state of hbbr.
LEMMA Invariance == Spec => []IInv
  <1>1. IInv /\ [Next]_vars => IInv'
    BY TypeStep, PairsStep DEF IInv, Pairs
  <1>2. QED
    BY InitInv, <1>1, PTL DEF Spec

\* Every reachable state of hbbr is well typed, for any clients and uuids.
THEOREM TypeCorrect == Spec => []TypeOK
  BY Invariance, PTL DEF IInv

\* No stream is abandoned in PEERS: its sleeping task will clear the entry.
THEOREM EntriesHaveSleepers == Spec => []EntryHasSleeper
  BY Invariance, PTL DEF IInv

\* hbbr links only clients that named one uuid and presented its key, whatever
\* the interleaving of lookups, insertions and sleepers that wake (make_pair_).
THEOREM PairingMatches == Spec => []PairsMatch
  BY Invariance, PTL DEF IInv

\* A relay has its two streams for itself until it ends them (make_pair_).
THEOREM PairingExclusive == Spec => []PairsExclusive
  BY Invariance, PTL DEF IInv

\* No socket stays open without a task that will serve or drop it.
THEOREM NoSocketLeak == Spec => []NoOrphan
  BY Invariance, PTL DEF IInv

-----------------------------------------------------------------------------
(* Links are for life (Links): peer joins two connections that no other    *)
(* link touches, before, during or after the relay, so that the chunks a   *)
(* client has read of its partner (Stream) are all it will ever be sent.   *)

Unlinked(c) == peer[c] = NoConn /\ \A d \in Conns : peer[d] # c
Waiting(c) == \E u \in Uuids : PEERS[u] = c

Links ==
    /\ \A c \in Conns : peer[c] # NoConn =>
          /\ peer[c] # c /\ peer[peer[c]] = NoConn
          /\ uuid[c] \in Uuids /\ uuid[peer[c]] = uuid[c]
          /\ \A d \in Conns \ {c} : peer[d] # peer[c]
          /\ Relaying(c) \/ (task[c] = "done" /\ sock[c] = "closed" /\ sock[peer[c]] = "closed")
    /\ \A c \in Conns :
          /\ task[c] \in {"idle", "handshake", "recv", "insert"} => Unlinked(c)
          /\ task[c] \in {"idle", "handshake", "recv"} => uuid[c] = NoUuid
          /\ Waiting(c) => Unlinked(c)
          /\ sock[c] = "none" <=> task[c] = "idle"

\* All a client has been sent is the beginning of what its partner sent; while it
\* has not hung up, it is all that hbbr has read.
Delivered(c, d) ==
    /\ \A i \in DOMAIN received[c] : received[c][i] = <<d, i>>
    /\ c \notin hup => Len(received[c]) = taken[d]

Stream ==
    /\ received \in [Conns -> Seq(Conns \X Nat)]
    /\ \A c \in Conns : peer[c] # NoConn => Delivered(c, peer[c]) /\ Delivered(peer[c], c)
    /\ \A c \in Conns : Unlinked(c) => received[c] = <<>> /\ taken[c] = 0

-----------------------------------------------------------------------------
(* The steps of Relay by what they do to the pairing.                      *)

\* The task of a relay goes on, or is about to leave it.
RelayOn(c) ==
    /\ Relaying(c)
    /\ \E t \in {"relay", "closing"} : task' = [task EXCEPT ![c] = t]
    /\ UNCHANGED <<sock, uuid, PEERS, peer>>

\* A connection is accepted, or goes on to its request.
Enters(c) ==
    /\ task[c] \in {"idle", "handshake"}
    /\ \E t \in {"handshake", "recv"} : task' = [task EXCEPT ![c] = t]
    /\ sock' = [sock EXCEPT ![c] = "open"]
    /\ UNCHANGED <<uuid, PEERS, peer>>

\* A connection is dropped before its request is accepted.
TurnedAway(c) ==
    /\ task[c] \in {"idle", "handshake", "recv"}
    /\ DropStream(c)
    /\ UNCHANGED <<uuid, PEERS, peer>>

\* A request is accepted.
Meets(c, u) ==
    /\ task[c] = "recv"
    /\ uuid' = [uuid EXCEPT ![c] = u]
    /\ peer' = [peer EXCEPT ![c] = PEERS[u]]
    /\ PEERS' = [PEERS EXCEPT ![u] = NoConn]
    /\ task' = [task EXCEPT ![c] = IF PEERS[u] = NoConn THEN "insert" ELSE "paired"]
    /\ sock' = sock

Pairless == UNCHANGED <<task, sock, uuid, PEERS, peer>>

\* The types of what a step does to the pairing (make_pair_, relay).
LEMMA PairingTypes ==
    ASSUME IInv
    PROVE  /\ task \in [Conns -> Tasks] /\ sock \in [Conns -> {"none", "open", "closed"}]
           /\ uuid \in [Conns -> Uuids \union {NoUuid}]
           /\ PEERS \in [Uuids -> Conns \union {NoConn}]
           /\ peer \in [Conns -> Conns \union {NoConn}]
  BY Zenon DEF IInv, TypeOK

\* Every step of hbbr is of one of these kinds; only a forwarded chunk changes
\* what has been read and delivered (make_pair_, relay).
LEMMA Kinds ==
    ASSUME IInv, [Next]_vars
    PROVE  /\ hup \subseteq hup'
           /\ \/ UNCHANGED <<taken, received>>
              \/ \E c \in Conns : \E from \in {c, peer[c]} : Forward(c, from)
           /\ \/ Pairless
              \/ \E c \in Conns : RelayOn(c) \/ Enters(c) \/ TurnedAway(c) \/ Insert(c)
                                  \/ Wake(c) \/ EndRelay(c)
              \/ \E c \in Conns, u \in Uuids : Meets(c, u)
  <1> DEFINE G == /\ hup \subseteq hup'
                  /\ \/ UNCHANGED <<taken, received>>
                     \/ \E c \in Conns : \E from \in {c, peer[c]} : Forward(c, from)
                  /\ \/ Pairless
                     \/ \E c \in Conns : RelayOn(c) \/ Enters(c) \/ TurnedAway(c) \/ Insert(c)
                                         \/ Wake(c) \/ EndRelay(c)
                     \/ \E c \in Conns, u \in Uuids : Meets(c, u)
  <1> SUFFICES G
    OBVIOUS
  <1>1. ASSUME NEW c \in Conns, Accept(c) PROVE G
    BY <1>1 DEF Accept, Enters, TurnedAway, DropStream, data
  <1>2. ASSUME NEW c \in Conns, Handshake(c) PROVE G
    <2>1. sock' = [sock EXCEPT ![c] = "open"]
      BY <1>2, ZenonT(150) DEF Handshake, IInv, Support, TypeOK
    <2>2. QED
      BY <1>2, <2>1, ZenonT(60) DEF Handshake, Enters, data
  <1>3. ASSUME NEW c \in Conns, HandshakeError(c) \/ RecvFail(c) PROVE G
    BY <1>3 DEF HandshakeError, RecvFail, TurnedAway, data
  <1>4. ASSUME NEW c \in Conns, NEW u \in Uuids, NEW l \in Licences, Request(c, u, l) PROVE G
    BY <1>4 DEF Request, Lookup, TurnedAway, Meets, data
  <1>5. ASSUME NEW c \in Conns, Insert(c) \/ Wake(c) \/ EndRelay(c) PROVE G
    BY <1>5, ZenonT(30) DEF Insert, Wake, EndRelay, data
  <1>6. ASSUME NEW c \in Conns, StartRelay(c) \/ IdleTimeout(c) PROVE G
    BY <1>6, ZenonT(30) DEF StartRelay, IdleTimeout, RelayOn, Relaying, data
  <1>7. ASSUME NEW c \in Conns, NEW from \in {c, peer[c]}, RecvEnd(c, from) PROVE G
    BY <1>7, ZenonT(60) DEF RecvEnd, RelayOn, Relaying, data
  <1>8. ASSUME NEW c \in Conns, Tick(c) PROVE G
    BY <1>8 DEF Tick, RelayOn, Relaying, Pairless, data
  <1>9. ASSUME NEW c \in Conns, NEW from \in {c, peer[c]}, Forward(c, from) PROVE G
    BY <1>9, ZenonT(60) DEF Forward, RelayOn, Relaying, Pairless
  <1>10. ASSUME NEW c \in Conns, ClientSend(c) \/ ClientClose(c) PROVE G
    BY <1>10 DEF ClientSend, ClientClose, Pairless, pairing, data
  <1>11. ASSUME NEW ip \in AdminIps, Command(ip) PROVE G
    BY <1>11 DEF Command, Pairless, pairing, data
  <1>12. CASE UNCHANGED vars
    BY <1>12 DEF vars, Pairless
  <1> HIDE DEF G
  <1>13. QED
    BY <1>1, <1>2, <1>3, <1>4, <1>5, <1>6, <1>7, <1>8, <1>9, <1>10, <1>11, <1>12, ZenonT(30)
       DEF Next, TaskStep

-----------------------------------------------------------------------------
(* Links are for life.                                                     *)

\* What the invariant says of a stream that waits (make_pair_).
LEMMA WaitingFree ==
    ASSUME IInv, Links, NEW u \in Uuids, PEERS[u] # NoConn
    PROVE  /\ PEERS[u] \in Conns /\ task[PEERS[u]] = "sleep" /\ uuid[PEERS[u]] = u
           /\ sock[PEERS[u]] = "open" /\ Unlinked(PEERS[u])
           /\ \A v \in Uuids : PEERS[v] = PEERS[u] => v = u
  <1>1. /\ PEERS[u] \in Conns /\ task[PEERS[u]] = "sleep" /\ uuid[PEERS[u]] = u
        /\ \A v \in Uuids : PEERS[v] = PEERS[u] => v = u
    BY EntryFree DEF IInv, Pairs
  <1>2. sock[PEERS[u]] = "open"
    BY DEF IInv, Support
  <1>3. Unlinked(PEERS[u])
    BY <1>1 DEF Links, Waiting
  <1>4. QED
    BY <1>1, <1>2, <1>3

\* A request that is accepted makes a link of two connections without one
\* (make_pair_).
LEMMA LinksMeets ==
    ASSUME IInv, Links, NEW c \in Conns, NEW u \in Uuids, Meets(c, u)
    PROVE  Links'
  <1> DEFINE w == PEERS[u]
  <1>1. Unlinked(c) /\ sock[c] # "none"
    BY DEF Meets, Links
  <1>2. w # NoConn => /\ w \in Conns /\ w # c /\ task[w] = "sleep" /\ uuid[w] = u
                      /\ Unlinked(w) /\ \A v \in Uuids : PEERS[v] = w => v = u
    BY WaitingFree DEF Meets
  <1>3. /\ uuid'[c] = u /\ peer'[c] = w /\ sock' = sock
        /\ task'[c] = IF w = NoConn THEN "insert" ELSE "paired"
    BY DEF Meets, IInv, TypeOK
  <1>4. \A d \in Conns \ {c} : uuid'[d] = uuid[d] /\ peer'[d] = peer[d] /\ task'[d] = task[d]
    BY DEF Meets, IInv, TypeOK
  <1>5. \A v \in Uuids : PEERS'[v] = IF v = u THEN NoConn ELSE PEERS[v]
    BY DEF Meets, IInv, TypeOK
  <1>6. \A d \in Conns : peer[d] # NoConn => d # c /\ peer[d] # c /\ d # w /\ peer[d] # w
    BY <1>1, <1>2 DEF Unlinked
  <1>7. \A d \in Conns : peer[d] \in Conns \union {NoConn}
    BY DEF IInv, TypeOK
  <1> HIDE DEF w
  <1>8. \A d \in Conns \ {c, w} : Unlinked(d) => Unlinked(d)'
    BY <1>3, <1>4 DEF Unlinked
  <1>9. w = NoConn => Unlinked(c)'
    BY <1>1, <1>3, <1>4 DEF Unlinked
  <1>10. \A d \in Conns : Waiting(d)' => Waiting(d) /\ d # w /\ d # c
    <2> SUFFICES ASSUME NEW d \in Conns, NEW v \in Uuids, PEERS'[v] = d
                 PROVE  Waiting(d) /\ d # w /\ d # c
      BY DEF Waiting
    <2>1. v # u /\ PEERS[v] = d
      BY <1>5
    <2>2. task[d] = "sleep"
      BY <2>1 DEF IInv, EntryHasSleeper
    <2>3. QED
      BY <2>1, <2>2, <1>2 DEF Waiting, Meets, w
  <1>11. ASSUME NEW d \in Conns, peer'[d] # NoConn
         PROVE  /\ peer'[d] # d /\ peer'[peer'[d]] = NoConn
                /\ uuid'[d] \in Uuids /\ uuid'[peer'[d]] = uuid'[d]
                /\ \A e \in Conns \ {d} : peer'[e] # peer'[d]
                /\ Relaying(d)' \/ (task'[d] = "done" /\ sock'[d] = "closed" /\ sock'[peer'[d]] = "closed")
    <2>1. CASE d = c
      <3>1. peer'[d] = w /\ w \in Conns \ {c} /\ peer[w] = NoConn /\ uuid[w] = u
        BY <1>11, <2>1, <1>2, <1>3 DEF Unlinked
      <3>2. \A e \in Conns \ {c} : peer[e] # w
        BY <1>2, <3>1, <1>11 DEF Unlinked
      <3>3. QED
        BY <2>1, <3>1, <3>2, <1>3, <1>4, <1>11, ZenonT(30) DEF Relaying
    <2>2. CASE d # c
      <3>1. peer'[d] = peer[d] /\ peer[d] \in Conns \ {c, w}
        BY <1>11, <2>2, <1>4, <1>6, <1>7
      <3>2. /\ peer[d] # d /\ peer[peer[d]] = NoConn
            /\ uuid[d] \in Uuids /\ uuid[peer[d]] = uuid[d]
            /\ \A e \in Conns \ {d} : peer[e] # peer[d]
            /\ Relaying(d) \/ (task[d] = "done" /\ sock[d] = "closed" /\ sock[peer[d]] = "closed")
        BY <3>1, <1>11 DEF Links
      <3>3. \A e \in Conns \ {d} : peer'[e] # peer[d]
        BY <3>1, <3>2, <1>3, <1>4
      <3>4. Relaying(d)' <=> Relaying(d)
        BY <2>2, <1>4 DEF Relaying
      <3>5. QED
        BY <2>2, <3>1, <3>2, <3>3, <3>4, <1>3, <1>4
    <2>3. QED
      BY <2>1, <2>2
  <1>12. ASSUME NEW d \in Conns
         PROVE  /\ task'[d] \in {"idle", "handshake", "recv", "insert"} => Unlinked(d)'
                /\ task'[d] \in {"idle", "handshake", "recv"} => uuid'[d] = NoUuid
                /\ Waiting(d)' => Unlinked(d)'
                /\ sock'[d] = "none" <=> task'[d] = "idle"
    <2>1. CASE d = c
      BY <2>1, <1>1, <1>3, <1>9, <1>10
    <2>2. CASE d # c
      <3>1. task'[d] \in {"idle", "handshake", "recv", "insert"} => d # w
        BY <2>2, <1>2, <1>4
      <3>2. QED
        <4>1. /\ task[d] \in {"idle", "handshake", "recv", "insert"} => Unlinked(d)
              /\ task[d] \in {"idle", "handshake", "recv"} => uuid[d] = NoUuid
              /\ Waiting(d) => Unlinked(d)
              /\ sock[d] = "none" <=> task[d] = "idle"
          BY Zenon DEF Links
        <4>2. QED
          BY <2>2, <3>1, <4>1, <1>3, <1>4, <1>8, <1>10, ZenonT(30)
    <2>3. QED
      BY <2>1, <2>2
  <1>13. QED
    BY <1>11, <1>12, ZenonT(30) DEF Links

\* What Links says about one connection (make_pair_).
LEMMA LinkOf ==
    ASSUME Links, NEW c \in Conns
    PROVE  /\ task[c] \in {"idle", "handshake", "recv", "insert"} => Unlinked(c)
           /\ task[c] \in {"idle", "handshake", "recv"} => uuid[c] = NoUuid
           /\ Waiting(c) => Unlinked(c)
           /\ sock[c] = "none" <=> task[c] = "idle"
  BY Zenon DEF Links

\* A step that leaves uuid and peer alone and no socket open that was closed: the
\* task of c moves on, and who waits then has no link.
LEMMA LinksKept ==
    ASSUME IInv, Links, NEW c \in Conns, UNCHANGED <<uuid, peer>>,
           \A d \in Conns \ {c} : task'[d] = task[d],
           \A d \in Conns : sock[d] = "closed" => sock'[d] = "closed",
           \A d \in Conns : sock'[d] = "none" <=> task'[d] = "idle",
           \A d \in Conns : Waiting(d)' => Unlinked(d),
           peer[c] # NoConn =>
             Relaying(c)' \/ (task'[c] = "done" /\ sock'[c] = "closed" /\ sock'[peer[c]] = "closed"),
           task'[c] \in {"idle", "handshake", "recv", "insert"} => Unlinked(c),
           task'[c] \in {"idle", "handshake", "recv"} => uuid[c] = NoUuid
    PROVE  Links'
  <1>0. uuid' = uuid /\ peer' = peer
    OBVIOUS
  <1>1. \A d \in Conns : Unlinked(d)' <=> Unlinked(d)
    BY <1>0, Zenon DEF Unlinked
  <1>2. \A d \in Conns \ {c} : Relaying(d)' <=> Relaying(d)
    BY ZenonT(30) DEF Relaying
  <1>3. \A d \in Conns : peer[d] # NoConn => peer[d] \in Conns
    <2>1. peer \in [Conns -> Conns \union {NoConn}]
      BY PairingTypes, Zenon
    <2>2. QED
      BY ONLY <2>1
  <1>4. \A d \in Conns : peer[d] # NoConn =>
          Relaying(d)' \/ (task'[d] = "done" /\ sock'[d] = "closed" /\ sock'[peer[d]] = "closed")
    <2>1. \A d \in Conns : peer[d] # NoConn =>
            Relaying(d) \/ (task[d] = "done" /\ sock[d] = "closed" /\ sock[peer[d]] = "closed")
      BY Zenon DEF Links
    <2>2. ASSUME NEW d \in Conns, peer[d] # NoConn, d # c
          PROVE  Relaying(d)' \/ (task'[d] = "done" /\ sock'[d] = "closed" /\ sock'[peer[d]] = "closed")
      <3>1. d \in Conns \ {c} /\ peer[d] \in Conns
        BY <1>3, <2>2, Zenon
      <3>2. Relaying(d) \/ (task[d] = "done" /\ sock[d] = "closed" /\ sock[peer[d]] = "closed")
        BY <2>1, <2>2, Zenon
      <3>3. /\ Relaying(d) => Relaying(d)'
            /\ task'[d] = task[d]
        BY <1>2, <3>1, Zenon
      <3>4. /\ sock[d] = "closed" => sock'[d] = "closed"
            /\ sock[peer[d]] = "closed" => sock'[peer[d]] = "closed"
        BY <3>1, Zenon
      <3>5. QED
        BY <3>2, <3>3, <3>4, Zenon
    <2>3. QED
      BY <2>2, Zenon
  <1>5. ASSUME NEW d \in Conns, peer'[d] # NoConn
        PROVE  /\ peer'[d] # d /\ peer'[peer'[d]] = NoConn
               /\ uuid'[d] \in Uuids /\ uuid'[peer'[d]] = uuid'[d]
               /\ \A e \in Conns \ {d} : peer'[e] # peer'[d]
    <2>0. peer[d] # NoConn
      BY <1>0, <1>5, Zenon
    <2>1. /\ peer[d] # d /\ peer[peer[d]] = NoConn
          /\ uuid[d] \in Uuids /\ uuid[peer[d]] = uuid[d]
          /\ \A e \in Conns \ {d} : peer[e] # peer[d]
      BY <2>0, Zenon DEF Links
    <2>2. QED
      BY <1>0, <2>1, Zenon
  <1>6. ASSUME NEW d \in Conns
        PROVE  /\ task'[d] \in {"idle", "handshake", "recv", "insert"} => Unlinked(d)'
               /\ task'[d] \in {"idle", "handshake", "recv"} => uuid'[d] = NoUuid
    <2>1. /\ task[d] \in {"idle", "handshake", "recv", "insert"} => Unlinked(d)
          /\ task[d] \in {"idle", "handshake", "recv"} => uuid[d] = NoUuid
      BY Zenon DEF Links
    <2>2. uuid'[d] = uuid[d] /\ (Unlinked(d)' <=> Unlinked(d)) /\ (d # c => task'[d] = task[d])
      BY <1>0, <1>1, Zenon
    <2>3. QED
      BY <2>1, <2>2
  <1>7. /\ \A d \in Conns : peer'[d] # NoConn =>
             Relaying(d)' \/ (task'[d] = "done" /\ sock'[d] = "closed" /\ sock'[peer'[d]] = "closed")
        /\ \A d \in Conns : Waiting(d)' => Unlinked(d)'
    BY <1>0, <1>1, <1>4, Zenon
  <1>8. QED
    BY <1>5, <1>6, <1>7, ZenonT(120) DEF Links

\* Every step keeps the links there are (make_pair_, relay).
LEMMA LinksStep == IInv /\ Links /\ [Next]_vars => Links'
  <1> SUFFICES ASSUME IInv, Links, [Next]_vars PROVE Links'
    OBVIOUS
  <1>1. CASE Pairless
    <2>1. task' = task /\ sock' = sock /\ uuid' = uuid /\ PEERS' = PEERS /\ peer' = peer
      BY <1>1 DEF Pairless
    <2>2. /\ \A d \in Conns : Unlinked(d)' <=> Unlinked(d)
          /\ \A d \in Conns : Waiting(d)' <=> Waiting(d)
          /\ \A d \in Conns : Relaying(d)' <=> Relaying(d)
      BY <2>1, Zenon DEF Unlinked, Waiting, Relaying
    <2>3. ASSUME NEW d \in Conns, peer'[d] # NoConn
          PROVE  /\ peer'[d] # d /\ peer'[peer'[d]] = NoConn
                 /\ uuid'[d] \in Uuids /\ uuid'[peer'[d]] = uuid'[d]
                 /\ \A e \in Conns \ {d} : peer'[e] # peer'[d]
                 /\ \/ Relaying(d)'
                    \/ task'[d] = "done" /\ sock'[d] = "closed" /\ sock'[peer'[d]] = "closed"
      <3>1. /\ peer[d] # d /\ peer[peer[d]] = NoConn
            /\ uuid[d] \in Uuids /\ uuid[peer[d]] = uuid[d]
            /\ \A e \in Conns \ {d} : peer[e] # peer[d]
            /\ Relaying(d) \/ (task[d] = "done" /\ sock[d] = "closed" /\ sock[peer[d]] = "closed")
        BY <2>1, <2>3, Zenon DEF Links
      <3>2. QED
        BY <2>1, <2>2, <3>1, Zenon
    <2>4. ASSUME NEW d \in Conns
          PROVE  /\ task'[d] \in {"idle", "handshake", "recv", "insert"} => Unlinked(d)'
                 /\ task'[d] \in {"idle", "handshake", "recv"} => uuid'[d] = NoUuid
                 /\ Waiting(d)' => Unlinked(d)'
                 /\ sock'[d] = "none" <=> task'[d] = "idle"
      BY <2>1, <2>2, LinkOf, Zenon
    <2>5. QED
      BY <2>3, <2>4, Zenon DEF Links
  <1>2. ASSUME NEW c \in Conns, RelayOn(c) PROVE Links'
    <2>1. Relaying(c)' /\ \A d \in Conns \ {c} : task'[d] = task[d]
      BY <1>2 DEF RelayOn, Relaying, IInv, TypeOK
    <2>2. sock'[c] # "none" /\ task'[c] # "idle" /\ sock' = sock
      <3>1. sock' = sock /\ Relaying(c)
        BY <1>2, ZenonT(60) DEF RelayOn
      <3>2. sock[c] = "open"
        BY <3>1, ZenonT(60) DEF IInv, PairsExclusive
      <3>3. task'[c] # "idle"
        BY <2>1, ZenonT(60) DEF Relaying
      <3>4. QED
        BY <3>1, <3>2, <3>3, ZenonT(60)
    <2>3. \A d \in Conns : Waiting(d)' => Waiting(d)
      BY <1>2 DEF RelayOn, Waiting
    <2>4. UNCHANGED <<uuid, peer>> /\ task'[c] \notin {"idle", "handshake", "recv", "insert"}
      BY <1>2, <2>1 DEF RelayOn, Relaying
    <2>5. \A d \in Conns : sock'[d] = "none" <=> task'[d] = "idle"
      <3>1. \A d \in Conns : sock[d] = "none" <=> task[d] = "idle"
        BY LinkOf, Zenon
      <3>2. QED
        BY <2>1, <2>2, <3>1, ZenonT(60)
    <2>6. \A d \in Conns : Waiting(d)' => Unlinked(d)
      BY <2>3 DEF Links
    <2>7. QED
      BY <2>1, <2>2, <2>4, <2>5, <2>6, LinksKept
  <1>3. ASSUME NEW c \in Conns, Enters(c) \/ TurnedAway(c) PROVE Links'
    <2>1. /\ \A d \in Conns \ {c} : task'[d] = task[d] /\ sock'[d] = sock[d]
          /\ task[c] \in {"idle", "handshake", "recv"}
          /\ \/ task'[c] \in {"handshake", "recv"} /\ sock'[c] = "open" /\ task[c] # "recv"
             \/ task'[c] = "done" /\ sock'[c] = "closed"
          /\ UNCHANGED <<uuid, peer, PEERS>>
      <3>1. task \in [Conns -> Tasks] /\ sock \in [Conns -> {"none", "open", "closed"}]
        BY PairingTypes, Zenon
      <3>2. CASE Enters(c)
        <4>1. PICK t \in {"handshake", "recv"} :
                task' = [task EXCEPT ![c] = t] /\ sock' = [sock EXCEPT ![c] = "open"]
          BY <3>2, ZenonT(60) DEF Enters
        <4>2. task[c] \in {"idle", "handshake"} /\ UNCHANGED <<uuid, peer, PEERS>>
          BY <3>2 DEF Enters
        <4>3. /\ \A d \in Conns \ {c} : task'[d] = task[d] /\ sock'[d] = sock[d]
              /\ task'[c] = t /\ sock'[c] = "open"
          BY <3>1, <4>1, ZenonT(60)
        <4>4. task'[c] \in {"handshake", "recv"} /\ task[c] # "recv"
          BY <4>2, <4>3, ZenonT(60)
        <4>5. QED
          BY <4>2, <4>3, <4>4, ZenonT(60)
      <3>3. CASE TurnedAway(c)
        <4>1. task' = [task EXCEPT ![c] = "done"] /\ sock' = [sock EXCEPT ![c] = "closed"]
          BY <3>3, ZenonT(60) DEF TurnedAway, DropStream
        <4>2. task[c] \in {"idle", "handshake", "recv"} /\ UNCHANGED <<uuid, peer, PEERS>>
          BY <3>3 DEF TurnedAway
        <4>3. /\ \A d \in Conns \ {c} : task'[d] = task[d] /\ sock'[d] = sock[d]
              /\ task'[c] = "done" /\ sock'[c] = "closed"
          BY <3>1, <4>1, ZenonT(60)
        <4>4. QED
          BY <4>2, <4>3, ZenonT(60)
      <3>4. QED
        BY <1>3, <3>2, <3>3, ZenonT(60)
    <2>2. Unlinked(c) /\ uuid[c] = NoUuid /\ sock[c] # "closed"
      BY <2>1 DEF Links, IInv, Support
    <2>3. \A d \in Conns : Waiting(d)' => Unlinked(d)
      <3>1. PEERS' = PEERS
        BY <2>1
      <3>2. \A d \in Conns : Waiting(d)' => Waiting(d)
        BY <3>1, Zenon DEF Waiting
      <3>3. QED
        BY <3>2, LinkOf, Zenon
    <2>4. \A d \in Conns : sock'[d] = "none" <=> task'[d] = "idle"
      <3>1. \A d \in Conns : sock[d] = "none" <=> task[d] = "idle"
        BY LinkOf, Zenon
      <3>2. sock'[c] # "none" /\ task'[c] # "idle"
        BY ONLY <2>1
      <3>3. \A d \in Conns \ {c} : task'[d] = task[d] /\ sock'[d] = sock[d]
        BY <2>1, Zenon
      <3>4. QED
        BY <3>1, <3>2, <3>3, Zenon
    <2>5. \A d \in Conns : sock[d] = "closed" => sock'[d] = "closed"
      BY <2>1, <2>2
    <2>6. peer[c] = NoConn
      BY <2>2 DEF Unlinked
    <2>7. QED
      BY <2>1, <2>2, <2>3, <2>4, <2>5, <2>6, LinksKept
  <1>4. ASSUME NEW c \in Conns, NEW u \in Uuids, Meets(c, u) PROVE Links'
    BY <1>4, LinksMeets
  <1>5. ASSUME NEW c \in Conns, Insert(c) \/ Wake(c) PROVE Links'
    <2> DEFINE w == PEERS[uuid[c]]
    <2>1. uuid[c] \in Uuids /\ task[c] \in {"insert", "sleep"}
      BY <1>5 DEF Insert, Wake, IInv, Support
    <2>2. w # NoConn => w \in Conns /\ task[w] = "sleep"
      BY <2>1, WaitingFree
    <2>3. /\ \A d \in Conns : sock'[d] = IF d = w THEN "closed" ELSE sock[d]
          /\ UNCHANGED <<uuid, peer>>
      <3>1. UNCHANGED <<uuid, peer>>
        BY <1>5, ZenonT(60) DEF Insert, Wake
      <3>2. sock' = IF w # NoConn THEN [sock EXCEPT ![w] = "closed"] ELSE sock
        BY <1>5, ZenonT(60) DEF Insert, Wake, DropEntry
      <3>3. sock \in [Conns -> {"none", "open", "closed"}]
        BY Zenon DEF IInv, TypeOK
      <3>4. CASE w = NoConn
        <4>1. sock' = sock /\ \A d \in Conns : d # w
          BY <3>2, <3>4, Zenon
        <4>2. QED
          BY <3>1, <4>1, Zenon
      <3>5. CASE w # NoConn
        <4>1. w \in Conns /\ sock' = [sock EXCEPT ![w] = "closed"]
          BY <2>2, <3>2, <3>5, Zenon
        <4> HIDE DEF w
        <4>2. \A d \in Conns : sock'[d] = IF d = w THEN "closed" ELSE sock[d]
          BY ONLY <3>3, <4>1
        <4>3. QED
          BY <3>1, <4>2, Zenon
      <3>6. QED
        BY <3>4, <3>5, Zenon
    <2>4. /\ \A d \in Conns \ {c} : task'[d] = task[d]
          /\ task'[c] \in {"sleep", "done"}
      BY <1>5 DEF Insert, Wake, IInv, TypeOK
    <2>5. peer[c] = NoConn
      BY <2>1, ZenonT(30) DEF Links, Relaying
    <2>6. task[c] = "insert" => Unlinked(c)
      BY DEF Links
    <2>7. \A d \in Conns : Waiting(d)' => Unlinked(d)
      <3> SUFFICES ASSUME NEW d \in Conns, NEW v \in Uuids, PEERS'[v] = d PROVE Unlinked(d)
        BY DEF Waiting
      <3>1. PEERS[v] = d \/ (d = c /\ task[c] = "insert")
        BY <1>5, <2>1 DEF Insert, Wake, IInv, TypeOK
      <3>2. QED
        BY <3>1, <2>6 DEF Links, Waiting
    <2>8. \A d \in Conns : sock'[d] = "none" <=> task'[d] = "idle"
      <3>1. \A d \in Conns : sock[d] = "none" <=> task[d] = "idle"
        BY LinkOf, Zenon
      <3>2. w \in Conns => sock[w] # "none"
        <4>1. w \in Conns => w # NoConn
          BY Zenon
        <4>2. QED
          BY <2>2, <3>1, <4>1
      <3> HIDE DEF w
      <3>3. \A d \in Conns : sock'[d] = "none" <=> sock[d] = "none"
        BY ONLY <2>3, <3>2
      <3>4. task[c] # "idle" /\ task'[c] # "idle"
        BY ONLY <2>1, <2>4
      <3>5. QED
        BY <2>4, <3>1, <3>3, <3>4, Zenon
    <2> HIDE DEF w
    <2>9. QED
      BY <2>3, <2>4, <2>5, <2>7, <2>8, LinksKept
  <1>6. ASSUME NEW c \in Conns, EndRelay(c) PROVE Links'
    <2>1. Relaying(c) /\ peer[c] \in Conns /\ peer[c] # c /\ task[c] = "closing"
      BY <1>6, ZenonT(30) DEF EndRelay, Relaying, IInv, PairsMatch
    <2>2. /\ \A d \in Conns : sock'[d] = IF d \in {c, peer[c]} THEN "closed" ELSE sock[d]
          /\ UNCHANGED <<uuid, peer, PEERS>> /\ task'[c] = "done"
          /\ \A d \in Conns \ {c} : task'[d] = task[d]
      BY <1>6, <2>1 DEF EndRelay, IInv, TypeOK
    <2>3. sock[peer[c]] = "open"
      BY <2>1 DEF IInv, PairsExclusive
    <2>4. \A d \in Conns : Waiting(d)' => Unlinked(d)
      BY <2>2, ZenonT(60) DEF Waiting, Links
    <2>5. \A d \in Conns : sock'[d] = "none" <=> task'[d] = "idle"
      <3>1. ASSUME NEW d \in Conns PROVE sock[d] = "none" <=> task[d] = "idle"
        BY <3>1, ZenonT(60) DEF Links
      <3>2. task[peer[c]] # "idle"
        BY <3>1, <2>1, <2>3
      <3>3. QED
        BY <2>1, <2>2, <3>1, <3>2, ZenonT(60)
    <2>6. QED
      BY <2>1, <2>2, <2>4, <2>5, LinksKept, ZenonT(30)
  <1>7. QED
    BY <1>1, <1>2, <1>3, <1>4, <1>5, <1>6, Kinds, ZenonT(30)

\* Links are for life in every behaviour of hbbr.
LEMMA LinksAlways == Spec => [](IInv /\ Links)
  <1>1. Init => Links
    <2> SUFFICES ASSUME Init PROVE Links
      OBVIOUS
    <2>1. /\ \A c \in Conns : task[c] = "idle" /\ sock[c] = "none" /\ uuid[c] = NoUuid
          /\ \A c \in Conns : peer[c] = NoConn
          /\ \A u \in Uuids : PEERS[u] = NoConn
      BY ZenonT(60) DEF Init
    <2>2. \A c \in Conns : Unlinked(c) /\ ~Waiting(c)
      BY <2>1, ZenonT(60) DEF Unlinked, Waiting
    <2>3. QED
      BY <2>1, <2>2, ZenonT(60) DEF Links
  <1>2. QED
    BY <1>1, LinksStep, Invariance, PTL DEF Spec

-----------------------------------------------------------------------------
(* The usage table.                                                        *)

\* An entry outlives no relay of its key, and each running relay puts its own back
\* (make_pair_, relay).
LEMMA UsageStep == TypeOK /\ UsageBacked /\ [Next]_vars => UsageBacked'
  <1> SUFFICES ASSUME TypeOK, UsageBacked, [Next]_vars PROVE UsageBacked'
    OBVIOUS
  <1>1. ASSUME NEW c \in Conns, task[c] \notin {"relay", "closing"}, USAGE' = USAGE,
               \A d \in Conns \ {c} : task'[d] = task[d]
        PROVE  UsageBacked'
    BY <1>1 DEF UsageBacked
  <1>2. ASSUME NEW c \in Conns, task'[c] \in {"relay", "closing"},
               USAGE' \subseteq USAGE \union {UsageId[c]},
               \A d \in Conns \ {c} : task'[d] = task[d]
        PROVE  UsageBacked'
    BY <1>2 DEF UsageBacked
  <1>3. CASE UNCHANGED <<task, USAGE>>
    BY <1>3 DEF UsageBacked
  <1>4. ASSUME NEW c \in Conns, Accept(c) \/ Handshake(c) \/ HandshakeError(c) \/ RecvFail(c)
                               \/ Insert(c) \/ Wake(c)
        PROVE  UsageBacked'
    BY <1>1, <1>4, ZenonT(60) DEF Accept, Handshake, HandshakeError, RecvFail, Insert, Wake, DropStream, TypeOK
  <1>5. ASSUME NEW c \in Conns, NEW u \in Uuids, NEW l \in Licences, Request(c, u, l)
        PROVE  UsageBacked'
    BY <1>1, <1>5, ZenonT(60) DEF Request, Lookup, DropStream, TypeOK
  <1>6. ASSUME NEW c \in Conns, StartRelay(c) \/ IdleTimeout(c) \/ Tick(c) PROVE UsageBacked'
    BY <1>2, <1>6 DEF StartRelay, IdleTimeout, Tick, TypeOK
  <1>7. ASSUME NEW c \in Conns, NEW from \in {c, peer[c]}, RecvEnd(c, from) \/ Forward(c, from)
        PROVE  UsageBacked'
    BY <1>2, <1>7, ZenonT(60) DEF RecvEnd, Forward, TypeOK
  <1>8. ASSUME NEW c \in Conns, EndRelay(c) PROVE UsageBacked'
    <2>1. USAGE' = USAGE \ {UsageId[c]} /\ \A d \in Conns \ {c} : task'[d] = task[d]
      BY <1>8 DEF EndRelay, TypeOK
    <2>2. QED
      BY <2>1 DEF UsageBacked
  <1>9. ASSUME NEW c \in Conns, ClientSend(c) \/ ClientClose(c) PROVE UsageBacked'
    BY <1>3, <1>9 DEF ClientSend, ClientClose, pairing
  <1>10. ASSUME NEW ip \in AdminIps, Command(ip) PROVE UsageBacked'
    BY <1>3, <1>10 DEF Command, pairing
  <1>11. CASE UNCHANGED vars
    BY <1>3, <1>11 DEF vars
  <1>12. QED
    BY <1>4, <1>5, <1>6, <1>7, <1>8, <1>9, <1>10, <1>11, ZenonT(60) DEF Next, TaskStep

\* Every entry of the usage table is of a relay that runs, however clients share
\* the key of the table (make_pair_, relay).
THEOREM UsageIsBacked == Spec => []UsageBacked
  <1>1. Init => UsageBacked
    BY DEF Init, UsageBacked
  <1>2. IInv /\ UsageBacked /\ [Next]_vars => UsageBacked'
    BY UsageStep DEF IInv
  <1>3. QED
    BY <1>1, <1>2, Invariance, PTL DEF Spec

-----------------------------------------------------------------------------
(* The chunks.                                                             *)

\* A chunk is read from one end of a link and is the next one for the other
\* (relay).
LEMMA StreamForward ==
    ASSUME IInv, Links, Stream, NEW c \in Conns, NEW from \in {c, peer[c]}, Forward(c, from)
    PROVE  Stream'
  <1>1. Relaying(c) /\ peer[c] \in Conns /\ peer[c] # c /\ UNCHANGED <<peer, hup>>
    BY ZenonT(60) DEF Forward, Relaying, IInv, PairsMatch
  <1>2. PICK to \in Conns :
           /\ to = Other(c, from) /\ from \in Conns /\ from # to
           /\ (from = c /\ to = peer[c]) \/ (from = peer[c] /\ to = c)
    BY <1>1 DEF Other
  <1>3. taken \in [Conns -> Nat] /\ received \in [Conns -> Seq(Conns \X Nat)]
    BY ZenonT(60) DEF IInv, TypeOK, Stream
  <1>4. Delivered(to, from) /\ Delivered(from, to)
    BY <1>1, <1>2, ZenonT(60) DEF Stream
  <1>5. \A d \in Conns : taken'[d] = IF d = from THEN taken[d] + 1 ELSE taken[d]
    BY <1>2, <1>3 DEF Forward
  <1>6. \/ to \notin hup /\ received' = [received EXCEPT ![to] = Append(@, <<from, taken[from] + 1>>)]
        \/ to \in hup /\ received' = received
    BY <1>2 DEF Forward
  <1>7. \A d \in Conns : Unlinked(d)' => Unlinked(d) /\ d # from /\ d # to
    BY <1>1, <1>2 DEF Unlinked
  <1>8. \A d \in Conns : peer[d] # NoConn /\ d # c =>
           peer[d] \in Conns /\ d \notin {from, to} /\ peer[d] \notin {from, to}
    <2> SUFFICES ASSUME NEW d \in Conns, peer[d] # NoConn, d # c
                 PROVE  peer[d] \in Conns /\ d \notin {from, to} /\ peer[d] \notin {from, to}
      OBVIOUS
    <2>1. peer[d] \in Conns /\ peer[c] # NoConn
      BY <1>1, PairingTypes
    <2>2. peer[peer[d]] = NoConn /\ peer[peer[c]] = NoConn /\ peer[d] # peer[c]
      BY <2>1, ZenonT(120) DEF Links
    <2>3. QED
      BY <1>2, <2>1, <2>2, ZenonT(30)
  <1>9. /\ received' \in [Conns -> Seq(Conns \X Nat)]
        /\ \A d \in Conns \ {to} : received'[d] = received[d]
    <2>1. CASE to \in hup
      BY <1>3, <1>6, <2>1
    <2>2. CASE to \notin hup
      <3>1. <<from, taken[from] + 1>> \in Conns \X Nat
        BY <1>2, <1>3
      <3>2. Append(received[to], <<from, taken[from] + 1>>) \in Seq(Conns \X Nat)
        BY <1>2, <1>3, <3>1
      <3>3. QED
        BY <1>2, <1>3, <1>6, <2>2, <3>2, ZenonT(60)
    <2>3. QED
      BY <2>1, <2>2
  <1>10. Delivered(to, from)'
    <2>1. CASE to \in hup
      BY <2>1, <1>1, <1>4, <1>6 DEF Delivered
    <2>2. CASE to \notin hup
      <3> DEFINE s == received[to]
                 n == taken[from]
      <3>1. s \in Seq(Conns \X Nat) /\ Len(s) = n /\ n \in Nat
        BY <1>2, <1>3, <1>4, <2>2 DEF Delivered
      <3>2. received'[to] = Append(s, <<from, n + 1>>)
        BY <1>2, <1>3, <1>6, <2>2
      <3>3. \A i \in DOMAIN s : s[i] = <<from, i>>
        BY <1>4 DEF Delivered
      <3>4. taken'[from] = n + 1
        BY <1>2, <1>5
      <3> HIDE DEF s, n
      <3>5. Len(received'[to]) = n + 1 /\ DOMAIN received'[to] = 1 .. n + 1
        BY <3>1, <3>2
      <3>6. ASSUME NEW i \in 1 .. n + 1 PROVE received'[to][i] = <<from, i>>
        <4>1. CASE i = n + 1
          BY <4>1, <3>1, <3>2
        <4>2. CASE i \in 1 .. n
          <5>1. i \in DOMAIN s /\ Append(s, <<from, n + 1>>)[i] = s[i]
            BY <4>2, <3>1
          <5>2. QED
            BY <5>1, <3>2, <3>3
        <4>3. QED
          BY <4>1, <4>2, <3>1
      <3>7. QED
        BY <3>4, <3>5, <3>6 DEF Delivered
    <2>3. QED
      BY <2>1, <2>2
  <1>11. Delivered(from, to)'
    BY <1>1, <1>2, <1>4, <1>5, <1>9, ZenonT(60) DEF Delivered
  <1>12. ASSUME NEW d \in Conns, peer[d] # NoConn, d # c
         PROVE  Delivered(d, peer[d])' /\ Delivered(peer[d], d)'
    <2>1. Delivered(d, peer[d]) /\ Delivered(peer[d], d)
      BY <1>12 DEF Stream
    <2>2. QED
      BY <2>1, <1>1, <1>5, <1>8, <1>9, <1>12, ZenonT(60) DEF Delivered
  <1>13. \A d \in Conns : Unlinked(d)' => received'[d] = <<>> /\ taken'[d] = 0
    BY <1>5, <1>7, <1>9, ZenonT(60) DEF Stream
  <1>14. Delivered(c, peer[c])' /\ Delivered(peer[c], c)'
    BY <1>1, <1>2, <1>10, <1>11
  <1>15. QED
    BY <1>1, <1>9, <1>12, <1>13, <1>14, ZenonT(60) DEF Stream

\* Steps other than a forwarded chunk deliver nothing; a new link begins with
\* nothing delivered (make_pair_).
LEMMA StreamStep == IInv /\ Links /\ Stream /\ [Next]_vars => Stream'
  <1> SUFFICES ASSUME IInv, Links, Stream, [Next]_vars PROVE Stream'
    OBVIOUS
  <1>1. ASSUME NEW c \in Conns, NEW from \in {c, peer[c]}, Forward(c, from) PROVE Stream'
    BY <1>1, StreamForward
  <1>2. CASE UNCHANGED <<taken, received>> /\ hup \subseteq hup' /\ peer' = peer
    BY <1>2, ZenonT(60) DEF Stream, Delivered, Unlinked
  <1>3. ASSUME UNCHANGED <<taken, received>>, hup \subseteq hup', NEW c \in Conns, NEW u \in Uuids,
               Meets(c, u)
        PROVE  Stream'
    <2>0. PICK w : w = PEERS[u]
      OBVIOUS
    <2>1. Unlinked(c) /\ (w # NoConn => w \in Conns /\ Unlinked(w))
      BY <1>3, <2>0, WaitingFree, ZenonT(60) DEF Meets, Links
    <2>2. peer'[c] = w /\ \A d \in Conns \ {c} : peer'[d] = peer[d]
      BY <1>3, <2>0 DEF Meets, IInv, TypeOK
    <2>3. \A d \in Conns : Unlinked(d)' => Unlinked(d)
      BY <2>1, <2>2 DEF Unlinked
    <2>4. w # NoConn => Delivered(c, w)' /\ Delivered(w, c)'
      <3>1. /\ received'[c] = <<>> /\ taken'[c] = 0
            /\ w # NoConn => received'[w] = <<>> /\ taken'[w] = 0
        BY <1>3, <2>1, ZenonT(30) DEF Stream
      <3>2. DOMAIN <<>> = {} /\ Len(<<>>) = 0
        OBVIOUS
      <3>3. QED
        BY <3>1, <3>2, ZenonT(30) DEF Delivered
    <2>5. \A d \in Conns \ {c} : peer[d] # NoConn => Delivered(d, peer[d])' /\ Delivered(peer[d], d)'
      <3> SUFFICES ASSUME NEW d \in Conns \ {c}, peer[d] # NoConn
                   PROVE  Delivered(d, peer[d])' /\ Delivered(peer[d], d)'
        OBVIOUS
      <3>1. PICK e : e = peer[d] /\ e = peer'[d]
        BY <2>2
      <3>2. Delivered(d, e) /\ Delivered(e, d)
        BY <3>1, ZenonT(60) DEF Stream
      <3>3. Delivered(d, e)' /\ Delivered(e, d)'
        BY <3>2, <1>3 DEF Delivered
      <3>4. QED
        BY <3>1, <3>3
    <2>6. QED
      BY <1>3, <2>2, <2>3, <2>4, <2>5, ZenonT(60) DEF Stream
  <1>4. hup \subseteq hup'
        /\ \/ peer' = peer
           \/ \E c \in Conns, u \in Uuids : Meets(c, u)
    BY Kinds, ZenonT(60) DEF Pairless, RelayOn, Enters, TurnedAway, Insert, Wake, EndRelay
  <1>5. QED
    BY <1>1, <1>2, <1>3, <1>4, Kinds, ZenonT(60)

\* A client is sent a gapless beginning of what its partner, and nobody else,
\* sent (relay).
THEOREM InOrder == Spec => []DeliveredInOrder
  <1>1. Init => Stream
    <2>1. Init => received \in [Conns -> Seq(Conns \X Nat)]
      BY DEF Init
    <2>2. QED
      BY <2>1 DEF Init, Stream, Unlinked, Delivered
  <1>2. IInv /\ Links /\ Stream => DeliveredInOrder
    <2> SUFFICES ASSUME IInv, Links, Stream, NEW c \in Conns, received[c] # <<>>
                 PROVE  \E d \in Conns \ {c} :
                           /\ peer[c] = d \/ peer[d] = c
                           /\ uuid[c] = uuid[d]
                           /\ \A i \in DOMAIN received[c] : received[c][i] = <<d, i>>
      BY DEF DeliveredInOrder
    <2>1. ~Unlinked(c)
      BY DEF Stream
    <2>2. CASE peer[c] # NoConn
      <3>1. peer[c] \in Conns
        BY <2>2 DEF IInv, TypeOK
      <3>2. peer[c] # c /\ uuid[peer[c]] = uuid[c]
        BY <2>2, ZenonT(60) DEF Links
      <3>3. Delivered(c, peer[c])
        BY <2>2, ZenonT(60) DEF Stream
      <3>4. QED
        BY <3>1, <3>2, <3>3, ZenonT(60) DEF Delivered
    <2>3. CASE peer[c] = NoConn
      <3>1. PICK d \in Conns : peer[d] = c
        BY <2>1, <2>3, ZenonT(60) DEF Unlinked
      <3>2. d # c /\ uuid[c] = uuid[d] /\ Delivered(c, d)
        BY <3>1, ZenonT(60) DEF Links, Stream
      <3>3. QED
        BY <3>1, <3>2, ZenonT(60) DEF Delivered
    <2>4. QED
      BY <2>2, <2>3
  <1>3. QED
    BY <1>1, <1>2, StreamStep, LinksAlways, PTL DEF Spec

-----------------------------------------------------------------------------
(* The refinement of RelayPairing.                                         *)

Early == {"handshake", "recv", "insert"}

\* What Phase and Partner stand for, case by case.
PhaseMap ==
    \A c \in Conns :
        /\ sock[c] = "none" => Phase(c) = "new"
        /\ sock[c] = "closed" => Phase(c) = "gone"
        /\ sock[c] = "open" =>
              /\ task[c] \in {"handshake", "recv"} => Phase(c) = "accepted"
              /\ task[c] = "insert" => Phase(c) = "asking"
              /\ Waiting(c) => Phase(c) = "waiting"
              /\ task[c] \notin Early /\ ~Waiting(c) => Phase(c) = "linked"

PartnerMap ==
    \A c \in Conns :
        /\ peer[c] # NoConn => Partner(c) = peer[c] /\ Partner(peer[c]) = c
        /\ Unlinked(c) => Partner(c) = NoConn

\* The server is exactly one thing to each client (make_pair_).
LEMMA PhaseIs == IInv => PhaseMap
  <1> SUFFICES ASSUME IInv, NEW c \in Conns
               PROVE  /\ sock[c] = "none" => Phase(c) = "new"
                      /\ sock[c] = "closed" => Phase(c) = "gone"
                      /\ sock[c] = "open" =>
                            /\ task[c] \in {"handshake", "recv"} => Phase(c) = "accepted"
                            /\ task[c] = "insert" => Phase(c) = "asking"
                            /\ Waiting(c) => Phase(c) = "waiting"
                            /\ task[c] \notin Early /\ ~Waiting(c) => Phase(c) = "linked"
    BY ZenonT(60) DEF PhaseMap
  <1>1. Waiting(c) => task[c] = "sleep"
    BY ZenonT(60) DEF Waiting, IInv, EntryHasSleeper
  <1>2. Waiting(c) <=> \E u \in Uuids : PEERS[u] = c
    BY DEF Waiting
  <1>3. QED
    BY <1>1, <1>2 DEF Phase, Early

\* The two ends of a link name each other (make_pair_).
LEMMA PartnerIs == IInv /\ Links => PartnerMap
  <1> SUFFICES ASSUME IInv, Links, NEW c \in Conns
               PROVE  /\ peer[c] # NoConn => Partner(c) = peer[c] /\ Partner(peer[c]) = c
                      /\ Unlinked(c) => Partner(c) = NoConn
    BY DEF PartnerMap
  <1>1. Unlinked(c) => Partner(c) = NoConn
    BY DEF Unlinked, Partner
  <1>2. ASSUME peer[c] # NoConn PROVE Partner(peer[c]) = c
    <2>1. PICK d \in Conns : d = peer[c]
      BY <1>2 DEF IInv, TypeOK
    <2>2. peer[d] = NoConn /\ \A e \in Conns : peer[e] = d => e = c
      <3>1. peer[peer[c]] = NoConn /\ \A e \in Conns \ {c} : peer[e] # peer[c]
        BY <1>2, Zenon DEF Links
      <3>2. QED
        BY <2>1, <3>1, Zenon
    <2>3. (CHOOSE e \in Conns : peer[e] = d) = c
      BY <2>1, <2>2
    <2>4. Partner(d) = c
      BY <2>1, <2>2, <2>3 DEF Partner
    <2>5. QED
      BY <2>1, <2>4
  <1>3. QED
    BY <1>1, <1>2 DEF Partner

\* The same of the state after a step.
LEMMA MapAfter == IInv' /\ Links' => PhaseMap' /\ PartnerMap'
  BY PhaseIs, PartnerIs, PTL

Mapped == IInv /\ Links /\ PhaseMap /\ PartnerMap

\* A connection whose part in the pairing a step leaves alone.
Same(d) ==
    /\ sock'[d] = sock[d]
    /\ task'[d] = task[d] \/ (task[d] \notin Early /\ task'[d] \notin Early)
    /\ Waiting(d)' <=> Waiting(d)

\* Such a connection is to the server what it was (make_pair_).
LEMMA SamePhase ==
    ASSUME Mapped, Mapped', NEW d \in Conns, Same(d)
    PROVE  Phase(d)' = Phase(d)
  <1>1. sock[d] \in {"none", "open", "closed"}
    BY DEF Mapped, IInv, TypeOK
  <1>2. QED
    BY <1>1 DEF Mapped, PhaseMap, Same, Early

\* A client waits, to RelayPairing, when PEERS holds its stream (make_pair_).
LEMMA WaitingPhase ==
    ASSUME Mapped, NEW d \in Conns
    PROVE  Phase(d) = "waiting" <=> \E u \in Uuids : PEERS[u] = d /\ uuid[d] = u
  <1>1. sock[d] \in {"none", "open", "closed"}
    BY DEF Mapped, IInv, TypeOK
  <1>2. Waiting(d) => sock[d] = "open" /\ \E u \in Uuids : PEERS[u] = d /\ uuid[d] = u
    <2> SUFFICES ASSUME NEW u \in Uuids, PEERS[u] = d
                 PROVE  sock[d] = "open" /\ uuid[d] = u
      BY Zenon DEF Waiting
    <2>1. PEERS[u] # NoConn
      BY Zenon
    <2>2. sock[PEERS[u]] = "open" /\ uuid[PEERS[u]] = u
      BY <2>1, Zenon DEF Mapped, IInv, EntryHasSleeper, Support
    <2>3. QED
      BY <2>2, Zenon
  <1>3. QED
    BY <1>1, <1>2 DEF Mapped, PhaseMap, Waiting, Early

\* The steps before the request is read (handle_connection, make_pair).
LEMMA MapEarly ==
    ASSUME Mapped, Mapped', NEW c \in Conns, Enters(c) \/ TurnedAway(c)
    PROVE  Pairing!Arrive(c) \/ Pairing!TurnAway(c) \/ UNCHANGED Pairing!vars
  <1>1. /\ task[c] \in {"idle", "handshake", "recv"} /\ UNCHANGED <<uuid, PEERS, peer>>
        /\ \A d \in Conns \ {c} : task'[d] = task[d] /\ sock'[d] = sock[d]
    BY ZenonT(30) DEF Enters, TurnedAway, DropStream, Mapped, IInv, TypeOK
  <1>2. \A d \in Conns \ {c} : Phase(d)' = Phase(d)
    BY <1>1, SamePhase, ZenonT(60) DEF Same, Waiting
  <1>3. Phase(c) = IF task[c] = "idle" THEN "new" ELSE "accepted"
    <2>1. task[c] = "idle" => sock[c] = "none"
      BY ZenonT(60) DEF Mapped, Links
    <2>2. task[c] \in {"handshake", "recv"} => sock[c] = "open"
      BY ZenonT(60) DEF Mapped, IInv, Support
    <2>3. /\ sock[c] = "none" => Phase(c) = "new"
          /\ sock[c] = "open" /\ task[c] \in {"handshake", "recv"} => Phase(c) = "accepted"
      BY ZenonT(60) DEF Mapped, PhaseMap
    <2>4. QED
      BY <1>1, <2>1, <2>2, <2>3
  <1>4. Partner(c)' = Partner(c) /\ [d \in Conns |-> Partner(d)]' = [d \in Conns |-> Partner(d)]
    BY <1>1, ZenonT(60) DEF Partner
  <1>5. CASE TurnedAway(c)
    <2>1. sock'[c] = "closed"
      BY <1>5, ZenonT(60) DEF TurnedAway, DropStream, Mapped, IInv, TypeOK
    <2>2. Phase(c)' = "gone"
      BY <2>1, ZenonT(60) DEF Mapped, PhaseMap
    <2>3. [d \in Conns |-> Phase(d)]' = [[d \in Conns |-> Phase(d)] EXCEPT ![c] = "gone"]
      BY <2>2, <1>2, ZenonT(60)
    <2>4. QED
      BY <1>1, <1>3, <1>4, <2>3, ZenonT(30) DEF Pairing!TurnAway
  <1>6. CASE Enters(c)
    <2>1. sock'[c] = "open" /\ task'[c] \in {"handshake", "recv"}
      <3>1. /\ sock' = [sock EXCEPT ![c] = "open"]
            /\ \E t \in {"handshake", "recv"} : task' = [task EXCEPT ![c] = t]
        BY <1>6, ZenonT(30) DEF Enters
      <3>2. task \in [Conns -> Tasks] /\ sock \in [Conns -> {"none", "open", "closed"}]
        BY PairingTypes, ZenonT(30) DEF Mapped
      <3>3. QED
        BY <3>1, <3>2
    <2>2. Phase(c)' = "accepted"
      BY <2>1, ZenonT(60) DEF Mapped, PhaseMap
    <2>3. CASE task[c] = "idle"
      <3>1. [d \in Conns |-> Phase(d)]' = [[d \in Conns |-> Phase(d)] EXCEPT ![c] = "accepted"]
        BY <2>2, <1>2, ZenonT(60)
      <3>2. QED
        BY <1>1, <1>3, <1>4, <2>3, <3>1, ZenonT(60) DEF Pairing!Arrive
    <2>4. CASE task[c] # "idle"
      <3>1. [d \in Conns |-> Phase(d)]' = [d \in Conns |-> Phase(d)]
        BY <2>2, <2>4, <1>2, <1>3
      <3>2. QED
        BY <1>1, <1>4, <3>1, ZenonT(60) DEF Pairing!vars
    <2>5. QED
      BY <2>3, <2>4
  <1>7. QED
    BY <1>5, <1>6

\* The sleeper's stream goes into PEERS, or what PEERS has under its uuid is
\* dropped when it wakes (make_pair_).
LEMMA MapSleeper ==
    ASSUME Mapped, Mapped', NEW c \in Conns, Insert(c) \/ Wake(c)
    PROVE  Pairing!Wait(c) \/ (\E w \in Conns : Pairing!TurnAway(w)) \/ UNCHANGED Pairing!vars
  <1>1. PICK u \in Uuids : u = uuid[c]
    BY ZenonT(30) DEF Insert, Wake, Mapped, IInv, Support
  <1>2. PICK w \in Conns \union {NoConn} : w = PEERS[u]
    BY ZenonT(60) DEF Mapped, IInv, TypeOK
  <1>3. w # NoConn => w \in Conns /\ task[w] = "sleep" /\ uuid[w] = u /\ Phase(w) = "waiting"
    <2>1. ASSUME w # NoConn PROVE w \in Conns /\ task[w] = "sleep" /\ uuid[w] = u
      BY <1>2, <2>1, WaitingFree, ZenonT(30) DEF Mapped
    <2>2. ASSUME w # NoConn PROVE Phase(w) = "waiting"
      BY <1>2, <2>1, <2>2, WaitingPhase, ZenonT(30)
    <2>3. QED
      BY <2>1, <2>2, ZenonT(30)
  <1>4. /\ UNCHANGED <<uuid, peer>>
        /\ \A d \in Conns \ {c} : task'[d] = task[d]
        /\ \A d \in Conns : sock'[d] = IF d = w THEN "closed" ELSE sock[d]
        /\ \A v \in Uuids \ {u} : PEERS'[v] = PEERS[v]
    <2>1. UNCHANGED <<uuid, peer>> /\ \E t : task' = [task EXCEPT ![c] = t]
      BY ZenonT(30) DEF Insert, Wake
    <2>2. sock' = IF w = NoConn THEN sock ELSE [sock EXCEPT ![w] = "closed"]
      BY <1>1, <1>2, ZenonT(30) DEF Insert, Wake, DropEntry
    <2>3. \E x : PEERS' = [PEERS EXCEPT ![u] = x]
      BY <1>1, ZenonT(30) DEF Insert, Wake
    <2>4. /\ task \in [Conns -> Tasks] /\ sock \in [Conns -> {"none", "open", "closed"}]
          /\ PEERS \in [Uuids -> Conns \union {NoConn}]
      BY PairingTypes, ZenonT(30) DEF Mapped
    <2>5. \A d \in Conns \ {c} : task'[d] = task[d]
      BY <2>1, <2>4
    <2>6. \A d \in Conns : sock'[d] = IF d = w THEN "closed" ELSE sock[d]
      BY <2>2, <2>4
    <2>7. \A v \in Uuids \ {u} : PEERS'[v] = PEERS[v]
      BY <2>3, <2>4
    <2>8. QED
      BY <2>1, <2>5, <2>6, <2>7, ZenonT(30)
  <1>5. [d \in Conns |-> Partner(d)]' = [d \in Conns |-> Partner(d)]
    BY <1>4, ZenonT(30) DEF Partner
  <1>6. w # NoConn => Phase(w)' = "gone"
    BY <1>3, <1>4, ZenonT(60) DEF Mapped, PhaseMap
  <1>7. \A d \in Conns : PEERS[u] = d <=> d = w
    BY <1>2
  <1>8. CASE Insert(c)
    <2>1. PEERS'[u] = c /\ w # c /\ task[c] = "insert" /\ sock[c] = "open"
      <3>1. task[c] = "insert" /\ PEERS' = [PEERS EXCEPT ![u] = c]
        BY <1>1, <1>8, ZenonT(30) DEF Insert
      <3>2. PEERS \in [Uuids -> Conns \union {NoConn}]
        BY PairingTypes, ZenonT(30) DEF Mapped
      <3>3. task[c] \in {"handshake", "recv", "insert"} => sock[c] = "open"
        BY ZenonT(30) DEF Mapped, IInv, Support
      <3>4. QED
        BY <1>3, <3>1, <3>2, <3>3
    <2>2. Phase(c) = "asking"
      BY <2>1, ZenonT(60) DEF Mapped, PhaseMap
    <2>3. Waiting(c)' /\ sock'[c] = "open"
      BY <2>1, <1>4, ZenonT(60) DEF Waiting
    <2>4. Phase(c)' = "waiting"
      BY <2>3, ZenonT(60) DEF Mapped, PhaseMap
    <2>5. ASSUME NEW d \in Conns \ {c, w}
          PROVE  Phase(d)' = Phase(d) /\ ~(Phase(d) = "waiting" /\ uuid[d] = u)
      <3>1. Waiting(d)' <=> Waiting(d)
        BY <2>1, <2>5, <1>4, <1>7, ZenonT(60) DEF Waiting
      <3>2. Same(d)
        BY <3>1, <1>4, <2>5, ZenonT(60) DEF Same
      <3>3. Phase(d)' = Phase(d)
        BY <3>2, SamePhase
      <3>4. QED
        BY <3>3, <2>5, <1>7, WaitingPhase, ZenonT(60)
    <2>6. \A d \in Conns : Phase(d)' = IF d = c THEN "waiting"
                            ELSE IF Phase(d) = "waiting" /\ uuid[d] = u THEN "gone"
                            ELSE Phase(d)
      BY <2>4, <2>5, <1>3, <1>6
    <2>7. [d \in Conns |-> Phase(d)]' =
             [d \in Conns |-> IF d = c THEN "waiting"
                              ELSE IF [e \in Conns |-> Phase(e)][d] = "waiting" /\ uuid[d] = uuid[c] THEN "gone"
                              ELSE [e \in Conns |-> Phase(e)][d]]
      BY <2>6, <1>1
    <2>8. QED
      BY <2>2, <2>7, <1>4, <1>5, ZenonT(30) DEF Pairing!Wait
  <1>9. CASE Wake(c)
    <2>1. PEERS'[u] = NoConn /\ task[c] = "sleep" /\ task'[c] = "done"
      BY <1>1, <1>9 DEF Wake, Mapped, IInv, TypeOK
    <2>2. ASSUME NEW d \in Conns \ {w} PROVE Phase(d)' = Phase(d)
      <3>1. Waiting(d)' <=> Waiting(d)
        BY <2>1, <2>2, <1>4, <1>7, ZenonT(30) DEF Waiting
      <3>2. Same(d)
        BY <3>1, <2>1, <1>4, <2>2 DEF Same, Early
      <3>3. QED
        BY <3>2, SamePhase
    <2>3. CASE w = NoConn
      <3>1. [d \in Conns |-> Phase(d)]' = [d \in Conns |-> Phase(d)]
        BY <2>2, <2>3
      <3>2. QED
        BY <3>1, <1>4, <1>5, ZenonT(30) DEF Pairing!vars
    <2>4. CASE w # NoConn
      <3>1. [d \in Conns |-> Phase(d)]' = [[d \in Conns |-> Phase(d)] EXCEPT ![w] = "gone"]
        BY <2>2, <2>4, <1>6, ZenonT(60)
      <3>2. Pairing!TurnAway(w)
        BY <2>4, <3>1, <1>3, <1>4, <1>5, ZenonT(60) DEF Pairing!TurnAway
      <3>3. QED
        BY <2>4, <3>2
    <2>5. QED
      BY <2>3, <2>4
  <1>10. QED
    BY <1>8, <1>9

\* While a relay runs nothing changes for its clients, and it ends for both of
\* them at once (relay, make_pair_).
LEMMA MapRelay ==
    ASSUME Mapped, Mapped', NEW c \in Conns, RelayOn(c) \/ EndRelay(c)
    PROVE  Pairing!Unlink(c) \/ UNCHANGED Pairing!vars
  <1>1. /\ Relaying(c) /\ UNCHANGED <<uuid, PEERS, peer>>
        /\ \A d \in Conns \ {c} : task'[d] = task[d]
        /\ task[c] \notin Early /\ task'[c] \notin Early
    BY ZenonT(30) DEF RelayOn, EndRelay, Relaying, Mapped, IInv, TypeOK, Early
  <1>2. PICK w \in Conns : w = peer[c] /\ w # c
    <2>1. peer[c] \in Conns \ {c}
      BY <1>1, ZenonT(30) DEF Mapped, IInv, PairsMatch
    <2>2. QED
      BY <2>1
  <1>3. [d \in Conns |-> Partner(d)]' = [d \in Conns |-> Partner(d)] /\ Partner(c) = w
    BY <1>1, <1>2, ZenonT(30) DEF Partner
  <1>4. \A d \in Conns : Waiting(d)' <=> Waiting(d)
    BY <1>1 DEF Waiting
  <1>5. CASE RelayOn(c)
    <2>1. \A d \in Conns : Same(d)
      BY <1>1, <1>4, <1>5 DEF RelayOn, Same
    <2>2. [d \in Conns |-> Phase(d)]' = [d \in Conns |-> Phase(d)]
      BY <2>1, SamePhase
    <2>3. QED
      BY <2>2, <1>1, <1>3, ZenonT(60) DEF Pairing!vars
  <1>6. CASE EndRelay(c)
    <2>1. \A d \in Conns : sock'[d] = IF d \in {c, w} THEN "closed" ELSE sock[d]
      <3>1. sock' = [sock EXCEPT ![c] = "closed", ![w] = "closed"]
        BY <1>2, <1>6, ZenonT(30) DEF EndRelay
      <3>2. sock \in [Conns -> {"none", "open", "closed"}]
        BY PairingTypes, ZenonT(30) DEF Mapped
      <3>3. QED
        BY <3>1, <3>2
    <2>2. Phase(c)' = "gone" /\ Phase(w)' = "gone"
      BY <2>1, ZenonT(60) DEF Mapped, PhaseMap
    <2>3. \A d \in Conns \ {c, w} : Same(d)
      BY <2>1, <1>1, <1>4, ZenonT(60) DEF Same
    <2>4. \A d \in Conns \ {c, w} : Phase(d)' = Phase(d)
      BY <2>3, SamePhase
    <2>5. sock[c] = "open" /\ ~Waiting(c)
      BY <1>1, ZenonT(60) DEF Mapped, IInv, PairsExclusive, Waiting
    <2>6. Phase(c) = "linked"
      BY <2>5, <1>1, ZenonT(60) DEF Mapped, PhaseMap
    <2>7. [d \in Conns |-> Phase(d)]' =
            [[d \in Conns |-> Phase(d)] EXCEPT ![c] = "gone", ![w] = "gone"]
      BY <2>2, <2>4, ZenonT(60)
    <2>8. QED
      BY <2>6, <2>7, <1>1, <1>3, ZenonT(60) DEF Pairing!Unlink
  <1>7. QED
    BY <1>5, <1>6

\* An accepted request finds nobody, or is linked with who waits (make_pair_).
LEMMA MapMeets ==
    ASSUME Mapped, Mapped', NEW c \in Conns, NEW u \in Uuids, Meets(c, u)
    PROVE  Pairing!Ask(c, u) \/ \E d \in Conns : Pairing!Link(c, d, u)
  <1>1. PICK w \in Conns \union {NoConn} : w = PEERS[u]
    BY DEF Mapped, IInv, TypeOK
  <1>2. /\ task[c] = "recv" /\ sock' = sock /\ sock[c] = "open" /\ Unlinked(c)
        /\ uuid' = [uuid EXCEPT ![c] = u] /\ peer'[c] = w
        /\ task'[c] = IF w = NoConn THEN "insert" ELSE "paired"
        /\ \A d \in Conns \ {c} : task'[d] = task[d] /\ peer'[d] = peer[d]
        /\ \A v \in Uuids : PEERS'[v] = IF v = u THEN NoConn ELSE PEERS[v]
    <2>1. /\ task[c] = "recv" /\ sock' = sock /\ uuid' = [uuid EXCEPT ![c] = u]
          /\ peer' = [peer EXCEPT ![c] = PEERS[u]] /\ PEERS' = [PEERS EXCEPT ![u] = NoConn]
          /\ task' = [task EXCEPT ![c] = IF PEERS[u] = NoConn THEN "insert" ELSE "paired"]
      BY ZenonT(60) DEF Meets
    <2>2. sock[c] = "open"
      <3>1. task[c] \in {"handshake", "recv", "insert"} => sock[c] = "open"
        BY ZenonT(60) DEF Mapped, IInv, Support
      <3>2. QED
        BY <2>1, <3>1
    <2>3. Unlinked(c)
      <3>1. task[c] \in {"idle", "handshake", "recv", "insert"} => Unlinked(c)
        BY ZenonT(60) DEF Mapped, Links
      <3>2. QED
        BY <2>1, <3>1
    <2>4. /\ task \in [Conns -> Tasks] /\ peer \in [Conns -> Conns \union {NoConn}]
          /\ PEERS \in [Uuids -> Conns \union {NoConn}]
      BY ZenonT(30) DEF Mapped, IInv, TypeOK
    <2>5. /\ peer'[c] = w
          /\ task'[c] = IF w = NoConn THEN "insert" ELSE "paired"
      BY <1>1, <2>1, <2>4, ZenonT(60)
    <2>6. \A d \in Conns \ {c} : task'[d] = task[d] /\ peer'[d] = peer[d]
      BY <2>1, <2>4, ZenonT(60)
    <2>7. \A v \in Uuids : PEERS'[v] = IF v = u THEN NoConn ELSE PEERS[v]
      BY <2>1, <2>4, ZenonT(60)
    <2>8. QED
      BY <2>1, <2>2, <2>3, <2>5, <2>6, <2>7, ZenonT(60)
  <1>3. Phase(c) = "accepted"
    BY <1>2, ZenonT(60) DEF Mapped, PhaseMap
  <1>4. \A d \in Conns : PEERS[u] = d <=> d = w
    BY <1>1
  <1>5. \A d \in Conns \ {w} : Waiting(d)' <=> Waiting(d)
    BY <1>2, <1>4, ZenonT(60) DEF Waiting
  <1>6. \A d \in Conns \ {c, w} : Same(d)
    BY <1>2, <1>5, ZenonT(60) DEF Same
  <1>7. \A d \in Conns \ {c, w} : Phase(d)' = Phase(d)
    BY <1>6, SamePhase
  <1>8. CASE w = NoConn
    <2>1. Phase(c)' = "asking"
      BY <1>2, <1>8, ZenonT(60) DEF Mapped, PhaseMap
    <2>2. [d \in Conns |-> Phase(d)]' = [[d \in Conns |-> Phase(d)] EXCEPT ![c] = "asking"]
      BY <2>1, <1>7, <1>8, ZenonT(60)
    <2>3. \A d \in Conns : ~(Phase(d) = "waiting" /\ uuid[d] = u)
      BY <1>4, <1>8, WaitingPhase, ZenonT(60)
    <2>4. \A d \in Conns : peer'[d] = peer[d]
      BY <1>2, <1>8, ZenonT(60) DEF Unlinked
    <2>5. peer' = peer
      <3>1. /\ peer \in [Conns -> Conns \union {NoConn}]
            /\ peer' \in [Conns -> Conns \union {NoConn}]
        BY ZenonT(30) DEF Mapped, IInv, TypeOK
      <3>2. QED
        BY ONLY <2>4, <3>1
    <2>6. [d \in Conns |-> Partner(d)]' = [d \in Conns |-> Partner(d)]
      BY <2>5, ZenonT(60) DEF Partner
    <2>7. QED
      BY <1>2, <1>3, <2>2, <2>3, <2>6, ZenonT(60) DEF Pairing!Ask
  <1>9. CASE w # NoConn
    <2>1. /\ w \in Conns /\ w # c /\ uuid[w] = u /\ Phase(w) = "waiting" /\ Unlinked(w)
          /\ task[w] = "sleep" /\ sock[w] = "open"
          /\ \A v \in Uuids : PEERS[v] = w => v = u
      <3>1. /\ w \in Conns /\ uuid[w] = u /\ Unlinked(w) /\ task[w] = "sleep" /\ sock[w] = "open"
            /\ \A v \in Uuids : PEERS[v] = w => v = u
        <4>1. PEERS[u] # NoConn
          BY <1>1, <1>9
        <4>2. /\ PEERS[u] \in Conns /\ uuid[PEERS[u]] = u /\ Unlinked(PEERS[u])
              /\ task[PEERS[u]] = "sleep" /\ sock[PEERS[u]] = "open"
              /\ \A v \in Uuids : PEERS[v] = PEERS[u] => v = u
          BY <4>1, WaitingFree, ZenonT(30) DEF Mapped
        <4>3. QED
          BY <1>1, <4>2, ZenonT(30)
      <3>2. Phase(w) = "waiting"
        <4>1. PEERS[u] = w
          BY <1>1, Zenon
        <4>2. QED
          BY <3>1, <4>1, WaitingPhase, Zenon
      <3>3. QED
        BY <1>2, <3>1, <3>2, ZenonT(60)
    <2>2. ~Waiting(w)' /\ ~Waiting(c)'
      <3>1. ~Waiting(c)
        BY <1>2, ZenonT(30) DEF Waiting, Mapped, IInv, EntryHasSleeper
      <3>2. QED
        <4>1. ASSUME NEW v \in Uuids, PEERS'[v] = w PROVE FALSE
          BY <1>2, <1>9, <2>1, <4>1, ZenonT(30)
        <4>2. QED
          BY <3>1, <4>1, <2>1, <1>5, ZenonT(30) DEF Waiting
    <2>3. Phase(c)' = "linked" /\ Phase(w)' = "linked"
      BY <2>1, <2>2, <1>2, <1>9, ZenonT(60) DEF Mapped, PhaseMap, Early
    <2>4. [d \in Conns |-> Phase(d)]' =
            [[d \in Conns |-> Phase(d)] EXCEPT ![c] = "linked", ![w] = "linked"]
      BY <2>1, <2>3, <1>7, ZenonT(60)
    <2>5. Partner(c)' = w /\ Partner(w)' = c
      BY <2>1, <1>2, <1>9, ZenonT(60) DEF Mapped, PartnerMap
    <2>6. ASSUME NEW d \in Conns \ {c, w} PROVE Partner(d)' = Partner(d)
      <3>1. CASE peer[d] # NoConn
        <4>1. peer'[d] = peer[d]
          BY <2>6, <1>2, ZenonT(60)
        <4>2. Partner(d) = peer[d]
          BY <3>1, <2>6, ZenonT(60) DEF Mapped, PartnerMap
        <4>3. Partner(d)' = peer'[d]
          BY <3>1, <4>1, <2>6, ZenonT(60) DEF Mapped, PartnerMap
        <4>4. QED
          BY <4>1, <4>2, <4>3, ZenonT(60)
      <3>2. ASSUME NEW e \in Conns, peer[e] = d PROVE Partner(d)' = Partner(d)
        <4>1. e # c /\ peer'[e] = d /\ d # NoConn
          BY <3>2, <1>2, ZenonT(60) DEF Unlinked
        <4>2. Partner(d) = e
          BY <3>2, <4>1, ZenonT(60) DEF Mapped, PartnerMap
        <4>3. Partner(d)' = e
          BY <4>1, ZenonT(30) DEF Mapped, PartnerMap
        <4>4. QED
          BY <4>2, <4>3
      <3>3. CASE Unlinked(d)
        <4>1. Unlinked(d)'
          BY <3>3, <2>6, <1>2 DEF Unlinked
        <4>2. QED
          BY <3>3, <4>1, ZenonT(30) DEF Mapped, PartnerMap
      <3>4. QED
        BY <3>1, <3>2, <3>3, ZenonT(60) DEF Unlinked
    <2>7. [d \in Conns |-> Partner(d)]' = [[d \in Conns |-> Partner(d)] EXCEPT ![c] = w, ![w] = c]
      BY <2>1, <2>5, <2>6, ZenonT(60)
    <2>8. Pairing!Link(c, w, u)
      BY <1>2, <1>3, <2>1, <2>4, <2>7, ZenonT(60) DEF Pairing!Link
    <2>9. QED
      BY <2>1, <2>8, ZenonT(60)
  <1>10. QED
    BY <1>8, <1>9

\* Every step of hbbr is a step of RelayPairing or leaves it alone (make_pair_).
LEMMA MapStep ==
    ASSUME Mapped, Mapped', [Next]_vars
    PROVE  [Pairing!Next]_(Pairing!vars)
  <1>1. CASE Pairless
    <2>1. [d \in Conns |-> Phase(d)]' = [d \in Conns |-> Phase(d)]
      BY <1>1 DEF Pairless, Phase
    <2>2. [d \in Conns |-> Partner(d)]' = [d \in Conns |-> Partner(d)]
      BY <1>1 DEF Pairless, Partner
    <2>3. QED
      BY <1>1, <2>1, <2>2 DEF Pairless, Pairing!vars
  <1>2. ASSUME NEW c \in Conns, Enters(c) \/ TurnedAway(c) PROVE [Pairing!Next]_(Pairing!vars)
    BY <1>2, MapEarly DEF Pairing!Next
  <1>3. ASSUME NEW c \in Conns, Insert(c) \/ Wake(c) PROVE [Pairing!Next]_(Pairing!vars)
    BY <1>3, MapSleeper DEF Pairing!Next
  <1>4. ASSUME NEW c \in Conns, RelayOn(c) \/ EndRelay(c) PROVE [Pairing!Next]_(Pairing!vars)
    BY <1>4, MapRelay DEF Pairing!Next
  <1>5. ASSUME NEW c \in Conns, NEW u \in Uuids, Meets(c, u) PROVE [Pairing!Next]_(Pairing!vars)
    BY <1>5, MapMeets DEF Pairing!Next
  <1>6. QED
    BY <1>1, <1>2, <1>3, <1>4, <1>5, Kinds, ZenonT(60) DEF Mapped

\* hbbr implements RelayPairing: links are made between two clients of one uuid,
\* at once for both, and end at once for both (make_pair_, relay).
THEOREM ImplementsPairing == Spec => RefinesPairing
  <1>1. Init => Pairing!Init
    <2> SUFFICES ASSUME Init PROVE Pairing!Init
      OBVIOUS
    <2>1. \A c \in Conns : Phase(c) = "new"
      BY DEF Init, Phase
    <2>2. \A c \in Conns : Partner(c) = NoConn
      BY DEF Init, Partner
    <2>3. QED
      BY <2>1, <2>2 DEF Init, Pairing!Init
  <1>2. IInv /\ Links /\ PhaseMap /\ PartnerMap /\ IInv' /\ Links' /\ PhaseMap' /\ PartnerMap'
        /\ [Next]_vars => [Pairing!Next]_(Pairing!vars)
    BY MapStep DEF Mapped
  <1>3. QED
    BY <1>1, <1>2, PhaseIs, PartnerIs, MapAfter, LinksAlways, PTL
       DEF Spec, RefinesPairing, Pairing!Spec
=============================================================================
