-------------------------- MODULE Registry_proofs ---------------------------
(***************************************************************************)
(* Proofs about Registry, and about Registration, in which a device uses   *)
(* it: for every set of ids, uuids, keys, addresses and concurrent lookups.*)
(*                                                                         *)
(* The first part is about the registry alone, with or without database    *)
(* errors and crashes.  The second shows that hbbs, while its database     *)
(* works, stores the keys it holds in memory (KeyIsStored).  The third is  *)
(* about the device and hbbs together; only its theorems assume            *)
(* RegistrationAssumption.                                                 *)
(***************************************************************************)
EXTENDS Registration, TLAPS

-----------------------------------------------------------------------------
(* The inductive invariant.                                                *)

\* Entries are made complete in the step that makes them, and their address is
\* the registered one also when they are no longer fresh.
EntriesComplete ==
    \A d \in Ids : mem[d] # None =>
        /\ mem[d].uuid # None /\ mem[d].pk # None
        /\ mem[d].fresh => mem[d].addr # None
        /\ mem[d].addr \in {None, mem[d].ip, Loopback}

\* Whatever a task holds of a row it has read agrees with the table, and an
\* update of the table finds its row.
HeldRows ==
    /\ udp.op = "loaded" /\ udp.row # None =>
          db[udp.req.id] # None /\ udp.row.uuid = db[udp.req.id].uuid
    /\ udp.op = "write" => mem[udp.req.id] # None /\ (udp.guid => db[udp.req.id] # None)
    /\ \A t \in Lookups : look[t].op = "row" =>
          db[look[t].id] # None /\ look[t].row.uuid = db[look[t].id].uuid

\* Without database errors: an id without a row has an entry only while the UDP
\* task is about to insert the row, and that task knows the owner.
OwnerKnown ==
    /\ udp.op = "loaded" /\ udp.row = None => db[udp.req.id] = None
    /\ udp.op = "write" =>
          /\ mem[udp.req.id] # None /\ mem[udp.req.id].uuid = udp.req.uuid
          /\ db[udp.req.id] # None => db[udp.req.id].uuid = udp.req.uuid
    /\ \A d \in Ids : mem[d] # None =>
          \/ db[d] # None /\ mem[d].uuid = db[d].uuid
          \/ db[d] = None /\ udp.op = "write" /\ udp.req.id = d

IInv == TypeOK /\ EntriesComplete /\ HeldRows /\ GuidHasRow /\ (~DbErrors => OwnerKnown)

-----------------------------------------------------------------------------
(* Facts about the operators.                                              *)

\* Entries made by default, from a row, or counted by the rate limit are entries.
LEMMA EntryTypes ==
    /\ DefaultPeer \in Entries
    /\ \A row \in Rows : FromRow(row) \in Entries
    /\ \A e \in Entries : ~TooFrequent(e) => Counted(e) \in Entries
  <1>1. DefaultPeer \in Entries
    BY DEF DefaultPeer, Entries, MaxRegPk
  <1>2. \A row \in Rows : FromRow(row) \in Entries
    BY <1>1, ZenonT(60) DEF FromRow, Entries, Rows
  <1>3. ASSUME NEW e \in Entries, ~TooFrequent(e)
        PROVE  Counted(e) \in Entries
    <2>1. e.count \in 0 .. 3 /\ (e.recent => e.count \in 0 .. 2)
      BY <1>3 DEF Entries, TooFrequent, MaxRegPk
    <2> DEFINE n == IF e.recent THEN e.count + 1 ELSE 1
    <2>2. n \in 0 .. 3
      BY <2>1
    <2>3. Counted(e) = [e EXCEPT !.count = n, !.recent = TRUE]
      BY DEF Counted
    <2> HIDE DEF n
    <2>4. [e EXCEPT !.count = n] \in Entries
      BY <2>2 DEF Entries, MaxRegPk
    <2>5. \A f \in Entries : [f EXCEPT !.recent = TRUE] \in Entries
      BY ZenonT(60) DEF Entries
    <2>6. Counted(e) = [[e EXCEPT !.count = n] EXCEPT !.recent = TRUE]
      BY <2>3
    <2> QED BY <2>4, <2>5, <2>6, ZenonT(60)
  <1> QED BY <1>1, <1>2, <1>3

\* Entry f is e but for the rate limit.
Kept(f, e) ==
    /\ f \in Entries
    /\ f.guid = e.guid /\ f.uuid = e.uuid /\ f.pk = e.pk /\ f.ip = e.ip
    /\ f.addr = e.addr /\ f.fresh = e.fresh

\* Entry f is e with the registration r.
Registered(f, e, r) ==
    /\ f \in Entries
    /\ f.guid = e.guid /\ f.uuid = r.uuid /\ f.pk = r.pk /\ f.ip = r.ip
    /\ f.addr = r.ip /\ f.fresh

\* Decide keeps the entry or registers r in it.
LEMMA DecideSummary ==
    ASSUME NEW e \in Entries, NEW r \in Requests, NEW res, Decide(e, r, res),
           e.uuid = None => ~e.recent
    PROVE  \/ /\ udp' = Idle
              /\ e.uuid # None
              /\ \E f : mem' = [mem EXCEPT ![r.id] = f] /\ Kept(f, e)
           \/ /\ udp' = [op |-> "write", req |-> r, guid |-> e.guid, attached |-> TRUE]
              /\ e.uuid \in {None, r.uuid}
              /\ \E f : mem' = [mem EXCEPT ![r.id] = f] /\ Registered(f, e, r)
  <1>1. CASE Mismatch(e, r) \/ TooFrequent(e)
    BY <1>1 DEF Decide, Mismatch, TooFrequent, Kept
  <1>2. CASE ~Mismatch(e, r) /\ ~TooFrequent(e) /\ ~Changed(e, r)
    <2>1. Counted(e) \in Entries
      BY <1>2, EntryTypes
    <2>2. Kept(Counted(e), e)
      BY <2>1 DEF Kept, Counted, Entries
    <2> QED BY <1>2, <2>2 DEF Decide, Changed
  <1>3. CASE ~Mismatch(e, r) /\ ~TooFrequent(e) /\ Changed(e, r)
    <2> DEFINE f == [Counted(e) EXCEPT !.addr = r.ip, !.uuid = r.uuid, !.pk = r.pk,
                                       !.fresh = TRUE, !.ip = r.ip]
    <2>1. Counted(e) \in Entries
      BY <1>3, EntryTypes
    <2>2. Counted(e).guid = e.guid
      BY DEF Counted, Entries
    <2>3. f \in Entries /\ f.guid = Counted(e).guid /\ f.uuid = r.uuid /\ f.pk = r.pk
            /\ f.ip = r.ip /\ f.addr = r.ip /\ f.fresh
      BY <2>1, ZenonT(60) DEF Entries, Requests
    <2>4. Registered(f, e, r)
      BY <2>2, <2>3 DEF Registered
    <2>5. mem' = [mem EXCEPT ![r.id] = f]
          /\ udp' = [op |-> "write", req |-> r, guid |-> e.guid, attached |-> TRUE]
      BY <1>3 DEF Decide
    <2>6. e.uuid \in {None, r.uuid}
      BY <1>3 DEF Mismatch
    <2> QED BY <2>4, <2>5, <2>6, ZenonT(60)
  <1> QED BY <1>1, <1>2, <1>3

-----------------------------------------------------------------------------
(* The steps that change an entry of the map.                              *)

\* What the states of the UDP task consist of.
LEMMA UdpTypes ==
    ASSUME TypeOK
    PROVE  /\ udp.op \in {"miss", "loaded", "write"} => udp.req \in Requests /\ udp.req.id \in Ids
           /\ udp.op = "loaded" => udp.row \in Rows \union {None}
           /\ udp.op = "write" => udp.guid \in BOOLEAN /\ udp.attached \in BOOLEAN
  <1>1. udp.op \in {"miss", "loaded", "write"} => udp.req \in Requests
    BY DEF TypeOK, UdpStates, Idle
  <1>2. \A r \in Requests : r.id \in Ids
    BY DEF Requests
  <1>3. udp.op = "loaded" => udp.row \in Rows \union {None}
    BY DEF TypeOK, UdpStates, Idle
  <1>4. udp.op = "write" => udp.guid \in BOOLEAN /\ udp.attached \in BOOLEAN
    BY DEF TypeOK, UdpStates, Idle
  <1> QED BY <1>1, <1>2, <1>3, <1>4

\* Deciding on an entry that is right for the id keeps the invariant.
LEMMA DecideStep ==
    ASSUME IInv, UNCHANGED DbErrors, udp.op # "write", UNCHANGED <<db, look, replaced>>,
           NEW e \in Entries, NEW r \in Requests, NEW res, Decide(e, r, res),
           e.uuid = None => ~e.recent,
           e.uuid # None => e.pk # None,
           e.fresh => e.addr # None,
           e.addr \in {None, e.ip, Loopback},
           e.guid => db[r.id] # None,
           ~DbErrors => \/ e.uuid = None /\ db[r.id] = None
                        \/ db[r.id] # None /\ e.uuid = db[r.id].uuid
    PROVE  IInv'
  <1> USE DEF IInv
  <1> r.id \in Ids /\ r.uuid \in Uuids /\ r.pk \in Pks /\ r.ip \in Ips
    BY DEF Requests
  <1> None \notin Uuids /\ None \notin Pks /\ None \notin Ips /\ None \notin Entries
    BY RegistryAssumption
  <1>1. CASE /\ udp' = Idle
             /\ e.uuid # None
             /\ \E f : mem' = [mem EXCEPT ![r.id] = f] /\ Kept(f, e)
    <2> PICK f : mem' = [mem EXCEPT ![r.id] = f] /\ Kept(f, e)
      BY <1>1, ZenonT(60)
    <2>1. f \in Entries /\ f # None
      BY DEF Kept
    <2>2. mem'[r.id] = f /\ \A i \in Ids : i # r.id => mem'[i] = mem[i]
      BY DEF TypeOK
    <2>3. TypeOK'
      BY <1>1, <2>1 DEF TypeOK, UdpStates
    <2>4. EntriesComplete'
      BY <1>1, <2>2 DEF EntriesComplete, Kept
    <2>5. HeldRows'
      BY <1>1 DEF HeldRows, Idle
    <2>6. GuidHasRow'
      BY <2>2 DEF GuidHasRow, Kept
    <2>7. ~DbErrors => OwnerKnown'
      <3>1. udp'.op = "idle"
        BY <1>1 DEF Idle
      <3>2. ASSUME ~DbErrors, NEW i \in Ids, mem'[i] # None
            PROVE  db[i] # None /\ mem'[i].uuid = db[i].uuid
        <4>1. CASE i = r.id
          <5>1. mem'[i].uuid = e.uuid
            BY <2>2, <4>1, Zenon DEF Kept
          <5> QED BY <1>1, <3>2, <4>1, <5>1, Zenon
        <4>2. CASE i # r.id
          BY <2>2, <3>2, <4>2, Zenon DEF OwnerKnown
        <4> QED BY <4>1, <4>2
      <3>3. db' = db
        OBVIOUS
      <3> QED BY <3>1, <3>2, <3>3, Zenon DEF OwnerKnown
    <2> QED BY <2>3, <2>4, <2>5, <2>6, <2>7
  <1>2. CASE /\ udp' = [op |-> "write", req |-> r, guid |-> e.guid, attached |-> TRUE]
             /\ e.uuid \in {None, r.uuid}
             /\ \E f : mem' = [mem EXCEPT ![r.id] = f] /\ Registered(f, e, r)
    <2> PICK f : mem' = [mem EXCEPT ![r.id] = f] /\ Registered(f, e, r)
      BY <1>2, ZenonT(60)
    <2>1. f \in Entries /\ f # None
      BY DEF Registered
    <2>2. mem'[r.id] = f /\ \A i \in Ids : i # r.id => mem'[i] = mem[i]
      BY DEF TypeOK
    <2>3. udp'.op = "write" /\ udp'.req = r /\ udp'.guid = e.guid
      BY <1>2
    <2>4. TypeOK'
      <3>1. udp' \in UdpStates
        BY <1>2 DEF UdpStates, Entries
      <3> QED BY <2>1, <3>1 DEF TypeOK
    <2>5. EntriesComplete'
      BY <2>2 DEF EntriesComplete, Registered
    <2>6. HeldRows'
      BY <2>1, <2>2, <2>3 DEF HeldRows
    <2>7. GuidHasRow'
      BY <2>2 DEF GuidHasRow, Registered
    <2>8. ~DbErrors => OwnerKnown'
      <3>1. db[r.id] # None => db[r.id].uuid # None
        BY DEF TypeOK, Rows
      <3>2. ~DbErrors /\ db[r.id] # None => db[r.id].uuid = r.uuid
        BY <1>2, <3>1
      <3>3. f.uuid = r.uuid /\ db' = db
        BY Zenon DEF Registered
      <3>4. ASSUME ~DbErrors, NEW i \in Ids, mem'[i] # None
            PROVE  \/ db[i] # None /\ mem'[i].uuid = db[i].uuid
                   \/ db[i] = None /\ r.id = i
        <4>1. CASE i = r.id
          BY <2>2, <3>2, <3>3, <3>4, <4>1, Zenon
        <4>2. CASE i # r.id
          BY <2>2, <3>4, <4>2, Zenon DEF OwnerKnown
        <4> QED BY <4>1, <4>2
      <3>5. udp'.op # "loaded"
        BY <2>3, Zenon
      <3>6. ASSUME ~DbErrors
            PROVE  /\ mem'[udp'.req.id] # None /\ mem'[udp'.req.id].uuid = udp'.req.uuid
                   /\ db'[udp'.req.id] # None => db'[udp'.req.id].uuid = udp'.req.uuid
        BY <2>1, <2>2, <2>3, <3>2, <3>3, <3>6, Zenon
      <3>7. ASSUME ~DbErrors, NEW i \in Ids, mem'[i] # None
            PROVE  \/ db'[i] # None /\ mem'[i].uuid = db'[i].uuid
                   \/ db'[i] = None /\ udp'.op = "write" /\ udp'.req.id = i
        BY <2>3, <3>3, <3>4, <3>7, Zenon
      <3> QED BY <3>5, <3>6, <3>7, ZenonT(60) DEF OwnerKnown
    <2> QED BY <2>4, <2>5, <2>6, <2>7, <2>8
  <1> QED BY <1>1, <1>2, DecideSummary

\* A change of an entry that leaves its identity alone keeps the invariant, as
\* long as the address stays a registered one.
LEMMA TouchStep ==
    ASSUME IInv, UNCHANGED DbErrors, UNCHANGED <<db, udp, look, replaced>>,
           NEW d \in Ids, mem[d] # None, NEW f \in Entries,
           mem' = [mem EXCEPT ![d] = f],
           f.guid = mem[d].guid, f.uuid = mem[d].uuid, f.pk = mem[d].pk, f.ip = mem[d].ip,
           f.fresh => f.addr # None,
           f.addr \in {None, f.ip, Loopback}
    PROVE  IInv'
  <1> USE DEF IInv
  <1> f # None
    BY RegistryAssumption
  <1>1. mem'[d] = f /\ \A i \in Ids : i # d => mem'[i] = mem[i]
    BY DEF TypeOK
  <1>2. TypeOK'
    BY DEF TypeOK
  <1>3. EntriesComplete'
    BY <1>1 DEF EntriesComplete
  <1>0. db' = db /\ udp' = udp /\ look' = look
    OBVIOUS
  <1>4. HeldRows'
    <2>1. udp.op = "write" => udp.req.id \in Ids /\ mem'[udp.req.id] # None
      BY <1>1, UdpTypes, ZenonT(60) DEF HeldRows
    <2> QED BY <1>0, <2>1, ZenonT(60) DEF HeldRows
  <1>5. GuidHasRow'
    BY <1>1 DEF GuidHasRow
  <1>6. ~DbErrors => OwnerKnown'
    <2>1. \A i \in Ids : mem'[i] # None => mem[i] # None /\ mem'[i].uuid = mem[i].uuid
      BY <1>1, Zenon
    <2>2. \A i \in Ids : mem[i] # None => mem'[i] # None
      BY <1>1, Zenon
    <2>3. udp.op = "write" => udp.req.id \in Ids
      BY UdpTypes, Zenon
    <2>4. ASSUME ~DbErrors, udp.op = "write"
          PROVE  /\ mem'[udp.req.id] # None /\ mem'[udp.req.id].uuid = udp.req.uuid
                 /\ db[udp.req.id] # None => db[udp.req.id].uuid = udp.req.uuid
      <3>1. /\ mem[udp.req.id] # None /\ mem[udp.req.id].uuid = udp.req.uuid
            /\ db[udp.req.id] # None => db[udp.req.id].uuid = udp.req.uuid
        BY <2>4, Zenon DEF OwnerKnown
      <3> QED BY <2>1, <2>2, <2>3, <2>4, <3>1, Zenon
    <2>5. ASSUME ~DbErrors, NEW i \in Ids, mem'[i] # None
          PROVE  \/ db[i] # None /\ mem'[i].uuid = db[i].uuid
                 \/ db[i] = None /\ udp.op = "write" /\ udp.req.id = i
      <3>1. mem[i] # None /\ mem'[i].uuid = mem[i].uuid
        BY <2>1, <2>5, Zenon
      <3>2. \/ db[i] # None /\ mem[i].uuid = db[i].uuid
            \/ db[i] = None /\ udp.op = "write" /\ udp.req.id = i
        BY <2>5, <3>1, Zenon DEF OwnerKnown
      <3> QED BY <3>1, <3>2, Zenon
    <2>6. ~DbErrors /\ udp.op = "loaded" /\ udp.row = None => db[udp.req.id] = None
      BY Zenon DEF OwnerKnown
    <2> QED BY <1>0, <2>4, <2>5, <2>6, ZenonT(60) DEF OwnerKnown
  <1> QED BY <1>2, <1>3, <1>4, <1>5, <1>6

-----------------------------------------------------------------------------
(* One step per action.                                                    *)

\* A RegisterPeer that finds or does not find its entry keeps the invariant.
LEMMA RegisterPeerStep ==
    ASSUME IInv, UNCHANGED DbErrors, NEW d \in Ids, NEW a \in Ips, NEW b \in BOOLEAN, RegisterPeer(d, a, b)
    PROVE  IInv'
  <1>1. CASE b
    BY <1>1 DEF RegisterPeer, IInv, TypeOK, EntriesComplete, HeldRows, GuidHasRow, OwnerKnown
  <1>2. CASE ~b
    <2> DEFINE e == mem[d]
               f == [e EXCEPT !.addr = a, !.fresh = TRUE]
    <2>1. e # None /\ e \in Entries /\ ~IpChange(e, a)
      BY <1>2, ZenonT(60) DEF RegisterPeer, RequestPk, IInv, TypeOK
    <2>2. e.addr \in {None, e.ip, Loopback}
      BY <2>1 DEF IInv, EntriesComplete
    <2>3. /\ f \in Entries /\ f.guid = e.guid /\ f.uuid = e.uuid /\ f.pk = e.pk /\ f.ip = e.ip
          /\ f.addr = a
      BY <2>1, ZenonT(60) DEF Entries
    <2>4. a \in {e.ip, Loopback}
      BY <2>1, <2>2 DEF IpChange
    <2>5. mem' = [mem EXCEPT ![d] = f] /\ UNCHANGED <<db, udp, look, replaced>>
      BY <1>2, ZenonT(60) DEF RegisterPeer, IInv, TypeOK
    <2>6. a # None
      BY RegistryAssumption
    <2> HIDE DEF f
    <2> QED BY <2>1, <2>3, <2>4, <2>5, <2>6, TouchStep, ZenonT(60)
  <1> QED BY <1>1, <1>2

\* The clock, which only ages an entry, keeps the invariant.
LEMMA ClockStep ==
    ASSUME IInv, UNCHANGED DbErrors, NEW d \in Ids, Expire(d) \/ Elapse(d)
    PROVE  IInv'
  <1> DEFINE e == mem[d]
  <1>1. e # None /\ e \in Entries
    BY DEF Expire, Elapse, IInv, TypeOK
  <1>2. e.addr \in {None, e.ip, Loopback} /\ (e.fresh => e.addr # None)
    BY <1>1 DEF IInv, EntriesComplete
  <1>3. CASE Expire(d)
    <2> DEFINE f == [e EXCEPT !.fresh = FALSE]
    <2>1. /\ f \in Entries /\ f.guid = e.guid /\ f.uuid = e.uuid /\ f.pk = e.pk /\ f.ip = e.ip
          /\ f.addr = e.addr /\ ~f.fresh
      BY <1>1, ZenonT(60) DEF Entries
    <2>2. mem' = [mem EXCEPT ![d] = f] /\ UNCHANGED <<db, udp, look, replaced>>
      BY <1>3 DEF Expire, IInv, TypeOK
    <2> HIDE DEF f
    <2> QED BY <1>1, <1>2, <2>1, <2>2, TouchStep, ZenonT(60)
  <1>4. CASE Elapse(d)
    <2> DEFINE f == [e EXCEPT !.recent = FALSE]
    <2>1. /\ f \in Entries /\ f.guid = e.guid /\ f.uuid = e.uuid /\ f.pk = e.pk /\ f.ip = e.ip
          /\ f.addr = e.addr /\ f.fresh = e.fresh
      BY <1>1, ZenonT(60) DEF Entries
    <2>2. mem' = [mem EXCEPT ![d] = f] /\ UNCHANGED <<db, udp, look, replaced>>
      BY <1>4 DEF Elapse, IInv, TypeOK
    <2> HIDE DEF f
    <2> QED BY <1>1, <1>2, <2>1, <2>2, TouchStep, ZenonT(60)
  <1> QED BY <1>3, <1>4

\* The first part of RegisterPk, up to the await, keeps the invariant.
LEMMA RegisterPkStep ==
    ASSUME IInv, UNCHANGED DbErrors, NEW r \in Requests, NEW ok \in BOOLEAN, NEW res, RegisterPk(r, ok, res)
    PROVE  IInv'
  <1> r.id \in Ids
    BY DEF Requests
  <1>1. udp = Idle /\ UNCHANGED <<db, look, replaced>>
    BY DEF RegisterPk
  <1>2. CASE UNCHANGED <<mem, udp>>
    BY <1>1, <1>2 DEF IInv, TypeOK, EntriesComplete, HeldRows, GuidHasRow, OwnerKnown
  <1>3. CASE mem[r.id] # None /\ Decide(mem[r.id], r, res)
    <2> DEFINE e == mem[r.id]
    <2>1. e \in Entries /\ e.uuid # None /\ e.pk # None /\ (e.fresh => e.addr # None)
          /\ e.addr \in {None, e.ip, Loopback}
      BY <1>3 DEF IInv, TypeOK, EntriesComplete
    <2>2. e.guid => db[r.id] # None
      BY <1>3 DEF IInv, GuidHasRow
    <2>3. ~DbErrors => db[r.id] # None /\ e.uuid = db[r.id].uuid
      BY <1>1, <1>3 DEF IInv, OwnerKnown, Idle
    <2>4. udp.op # "write"
      BY <1>1 DEF Idle
    <2> HIDE DEF e
    <2> QED BY <1>1, <1>3, <2>1, <2>2, <2>3, <2>4, DecideStep DEF e
  <1>4. CASE udp' = [op |-> "miss", req |-> r] /\ UNCHANGED mem
    <2>1. udp' \in UdpStates /\ udp'.op = "miss"
      BY <1>4 DEF UdpStates
    <2> QED BY <1>1, <1>4, <2>1
            DEF IInv, TypeOK, EntriesComplete, HeldRows, GuidHasRow, OwnerKnown, Idle
  <1> QED BY <1>2, <1>3, <1>4 DEF RegisterPk

\* What a lookup keeps of a row it has read (get).
LEMMA RowIs ==
    ASSUME NEW i, NEW r, NEW x, x = [op |-> "row", id |-> i, row |-> r]
    PROVE  x.id = i /\ x.row = r
  OBVIOUS

\* What the UDP task holds across the write of a row (update_pk).
LEMMA WriteIs ==
    ASSUME TypeOK, udp.op = "write"
    PROVE  udp \in [op : {"write"}, req : Requests, guid : BOOLEAN, attached : BOOLEAN]
  BY DEF TypeOK, UdpStates, Idle

\* What a lookup holds (get).
LEMMA LookTypes ==
    ASSUME TypeOK, NEW t \in Lookups
    PROVE  /\ look[t] \in LookStates
           /\ look[t].op \in {"miss", "row"} => look[t].id \in Ids
           /\ look[t].op = "row" => look[t].row \in Rows
  BY DEF TypeOK, LookStates, Idle

\* The database's answer to the UDP task keeps the invariant.
LEMMA UdpDbReadStep ==
    ASSUME IInv, UNCHANGED DbErrors, UdpDbRead
    PROVE  IInv'
  <1> USE DEF IInv
  <1>1. udp.op = "miss" /\ udp.req \in Requests /\ udp.req.id \in Ids
    BY UdpTypes DEF UdpDbRead
  <1>2. UNCHANGED <<db, mem, look, replaced>>
    BY DEF UdpDbRead
  <1>3. PICK row \in DbRead(udp.req.id) : udp' = [op |-> "loaded", req |-> udp.req, row |-> row]
    BY DEF UdpDbRead
  <1>4. row \in {db[udp.req.id], None} /\ (~DbErrors => row = db[udp.req.id])
    BY DEF DbRead
  <1>5. row \in Rows \union {None}
    BY <1>1, <1>4 DEF TypeOK
  <1>6. udp'.op = "loaded" /\ udp'.req = udp.req /\ udp'.row = row
    BY <1>3
  <1>7. TypeOK'
    <2>1. udp' \in UdpStates
      BY <1>1, <1>3, <1>5 DEF UdpStates
    <2> QED BY <1>2, <2>1 DEF TypeOK
  <1>8. EntriesComplete' /\ GuidHasRow'
    BY <1>2 DEF EntriesComplete, GuidHasRow
  <1>9. HeldRows'
    BY <1>2, <1>4, <1>6 DEF HeldRows
  <1>10. ~DbErrors => OwnerKnown'
    BY <1>1, <1>2, <1>4, <1>6 DEF OwnerKnown
  <1> QED BY <1>7, <1>8, <1>9, <1>10

\* The UDP task going on with the row it has read keeps the invariant.
LEMMA UdpLoadStep ==
    ASSUME IInv, UNCHANGED DbErrors, NEW res, UdpLoad(res)
    PROVE  IInv'
  <1> DEFINE d == udp.req.id
             r == udp.req
  <1>1. udp.op = "loaded" /\ r \in Requests /\ d \in Ids /\ udp.row \in Rows \union {None}
        /\ udp.op # "write" /\ UNCHANGED <<db, look, replaced>>
    BY UdpTypes DEF UdpLoad, IInv
  <1> None \notin Uuids /\ None \notin Pks /\ None \notin Rows
    BY RegistryAssumption
  <1>2. CASE udp.row # None
    <2> DEFINE e == FromRow(udp.row)
    <2>1. Decide(e, r, res)
      BY <1>2 DEF UdpLoad
    <2>2. /\ e.guid /\ e.uuid = udp.row.uuid /\ e.pk = udp.row.pk /\ e.addr = None
          /\ ~e.fresh /\ ~e.recent
      BY DEF FromRow, DefaultPeer
    <2>3. e \in Entries
      BY <1>1, <1>2, EntryTypes
    <2>4. udp.row.uuid \in Uuids /\ udp.row.pk \in Pks
      BY <1>1, <1>2 DEF Rows
    <2>5. db[d] # None /\ e.uuid = db[d].uuid
      BY <1>1, <1>2, <2>2 DEF IInv, HeldRows
    <2> HIDE DEF e
    <2> QED BY <1>1, <2>1, <2>2, <2>3, <2>4, <2>5, DecideStep
  <1>3. CASE udp.row = None /\ mem[d] # None
    <2> DEFINE e == mem[d]
    <2>1. Decide(e, r, res)
      BY <1>3 DEF UdpLoad
    <2>2. e \in Entries /\ e.uuid # None /\ e.pk # None /\ (e.fresh => e.addr # None)
          /\ e.addr \in {None, e.ip, Loopback}
      BY <1>1, <1>3 DEF IInv, TypeOK, EntriesComplete
    <2>3. e.guid => db[d] # None
      BY <1>1, <1>3 DEF IInv, GuidHasRow
    <2>4. ~DbErrors => db[d] # None /\ e.uuid = db[d].uuid
      BY <1>1, <1>3 DEF IInv, OwnerKnown
    <2> HIDE DEF e
    <2> QED BY <1>1, <2>1, <2>2, <2>3, <2>4, DecideStep
  <1>4. CASE udp.row = None /\ mem[d] = None
    <2> DEFINE e == DefaultPeer
    <2>1. Decide(e, r, res)
      BY <1>4 DEF UdpLoad
    <2>2. e.uuid = None /\ ~e.guid /\ e.addr = None /\ ~e.fresh /\ ~e.recent
      BY DEF DefaultPeer
    <2>3. e \in Entries
      BY EntryTypes
    <2>4. ~DbErrors => db[d] = None
      BY <1>1, <1>4 DEF IInv, OwnerKnown
    <2> HIDE DEF e
    <2> QED BY <1>1, <2>1, <2>2, <2>3, <2>4, DecideStep
  <1> QED BY <1>2, <1>3, <1>4

\* The UDP task's write, also one that fails, keeps the invariant.
LEMMA UdpDbWriteStep ==
    ASSUME IInv, UNCHANGED DbErrors, NEW res, UdpDbWrite(res)
    PROVE  IInv'
  <1> USE DEF IInv
  <1> DEFINE r == udp.req
             d == r.id
  <1>1. udp.op = "write" /\ r \in Requests /\ d \in Ids /\ udp' = Idle /\ UNCHANGED look
    BY UdpTypes DEF UdpDbWrite
  <1>2. udp'.op = "idle" /\ udp' \in UdpStates
    BY <1>1 DEF Idle, UdpStates
  <1>3. replaced' \subseteq Ids
    BY DEF UdpDbWrite, TypeOK
  <1> None \notin Rows /\ None \notin Entries
    BY RegistryAssumption
  <1>4. CASE udp.guid /\ db' = [db EXCEPT ![d].pk = r.pk, ![d].ip = r.ip] /\ UNCHANGED mem
    <2>1. db[d] # None /\ db[d] \in Rows
      BY <1>1, <1>4 DEF HeldRows, TypeOK
    <2> DEFINE row == [db[d] EXCEPT !.pk = r.pk, !.ip = r.ip]
    <2>2. row \in Rows /\ row.uuid = db[d].uuid
      BY <1>1, <2>1, ZenonT(60) DEF Rows, Requests
    <2>3. db' = [db EXCEPT ![d] = row]
      BY <1>1, <1>4, ZenonT(60) DEF TypeOK
    <2> HIDE DEF row
    <2>4. db'[d] = row /\ row # None /\ \A i \in Ids : i # d => db'[i] = db[i]
      BY <1>1, <2>2, <2>3 DEF TypeOK
    <2>5. TypeOK'
      BY <1>1, <1>2, <1>3, <1>4, <2>2, <2>3 DEF TypeOK
    <2>6. EntriesComplete' /\ GuidHasRow'
      BY <1>4, <2>4, ZenonT(60) DEF EntriesComplete, GuidHasRow
    <2>7. HeldRows'
      BY <1>1, <1>2, <2>2, <2>4, LookTypes DEF HeldRows
    <2>8. ~DbErrors => OwnerKnown'
      BY <1>1, <1>2, <1>4, <2>1, <2>2, <2>4, ZenonT(60) DEF OwnerKnown
    <2> QED BY <2>5, <2>6, <2>7, <2>8
  <1>5. CASE /\ ~udp.guid /\ db[d] = None
             /\ db' = [db EXCEPT ![d] = [uuid |-> r.uuid, pk |-> r.pk, ip |-> r.ip]]
             /\ mem' = IF udp.attached THEN [mem EXCEPT ![d].guid = TRUE] ELSE mem
    <2> DEFINE row == [uuid |-> r.uuid, pk |-> r.pk, ip |-> r.ip]
    <2>1. row \in Rows /\ row.uuid = r.uuid
      BY <1>1 DEF Rows, Requests
    <2>2. db' = [db EXCEPT ![d] = row]
      BY <1>5
    <2> HIDE DEF row
    <2>3. db'[d] = row /\ row # None /\ \A i \in Ids : i # d => db'[i] = db[i]
      BY <1>1, <2>1, <2>2 DEF TypeOK
    <2>4. \A i \in Ids : db[i] # None => i # d
      BY <1>5
    <2>5. /\ mem' \in [Ids -> Entries \union {None}]
          /\ \A i \in Ids : i # d => mem'[i] = mem[i]
          /\ mem'[d] = None <=> mem[d] = None
          /\ mem[d] # None => /\ mem'[d].uuid = mem[d].uuid /\ mem'[d].pk = mem[d].pk
                               /\ mem'[d].ip = mem[d].ip /\ mem'[d].addr = mem[d].addr
                               /\ mem'[d].fresh = mem[d].fresh
      <3>1. CASE ~udp.attached
        BY <1>5, <3>1 DEF TypeOK
      <3>2. CASE udp.attached
        <4>1. mem[d] # None /\ mem[d] \in Entries
          BY <1>1, <3>2 DEF TypeOK, HeldRows
        <4> DEFINE f == [mem[d] EXCEPT !.guid = TRUE]
        <4>2. /\ f \in Entries /\ f.uuid = mem[d].uuid /\ f.pk = mem[d].pk
              /\ f.ip = mem[d].ip /\ f.addr = mem[d].addr /\ f.fresh = mem[d].fresh
          BY <4>1, ZenonT(60) DEF Entries
        <4>3. mem' = [mem EXCEPT ![d] = f]
          BY <1>1, <1>5, <3>2 DEF TypeOK
        <4> HIDE DEF f
        <4> QED BY <1>1, <4>1, <4>2, <4>3 DEF TypeOK
      <3> QED BY <3>1, <3>2, ZenonT(60)
    <2>6. TypeOK'
      BY <1>1, <1>2, <1>3, <2>1, <2>2, <2>5, ZenonT(60) DEF TypeOK
    <2>7. EntriesComplete'
      <3> SUFFICES ASSUME NEW i \in Ids, mem'[i] # None
                   PROVE  /\ mem'[i].uuid # None /\ mem'[i].pk # None
                          /\ mem'[i].fresh => mem'[i].addr # None
                          /\ mem'[i].addr \in {None, mem'[i].ip, Loopback}
        BY Zenon DEF EntriesComplete
      <3>1. /\ mem[i] # None
            /\ mem'[i].uuid = mem[i].uuid /\ mem'[i].pk = mem[i].pk
            /\ mem'[i].ip = mem[i].ip /\ mem'[i].addr = mem[i].addr
            /\ mem'[i].fresh = mem[i].fresh
        BY <2>5, Zenon
      <3>2. /\ mem[i].uuid # None /\ mem[i].pk # None
            /\ mem[i].fresh => mem[i].addr # None
            /\ mem[i].addr \in {None, mem[i].ip, Loopback}
        BY <1>1, <3>1, Zenon DEF EntriesComplete
      <3> QED BY <3>1, <3>2, Zenon
    <2>8. GuidHasRow'
      BY <2>3, <2>5 DEF GuidHasRow
    <2>9. HeldRows'
      BY <1>1, <1>2, <2>3, <2>4, LookTypes DEF HeldRows
    <2>10. ~DbErrors => OwnerKnown'
      <3>1. ASSUME ~DbErrors, NEW i \in Ids, mem'[i] # None
            PROVE  db'[i] # None /\ mem'[i].uuid = db'[i].uuid
        <4>1. mem[i] # None /\ mem'[i].uuid = mem[i].uuid
          BY <2>5, <3>1, Zenon
        <4>2. CASE i = d
          <5>1. mem[d].uuid = r.uuid
            BY <1>1, <3>1, Zenon DEF OwnerKnown
          <5> QED BY <2>1, <2>3, <4>1, <4>2, <5>1, Zenon
        <4>3. CASE i # d
          BY <1>1, <2>3, <3>1, <4>1, <4>3, Zenon DEF OwnerKnown
        <4> QED BY <4>2, <4>3
      <3> QED BY <1>2, <3>1, Zenon DEF OwnerKnown
    <2> QED BY <2>6, <2>7, <2>8, <2>9, <2>10
  <1>6. CASE (DbErrors \/ (~udp.guid /\ db[d] # None)) /\ UNCHANGED <<db, mem>>
    <2>1. TypeOK'
      BY <1>1, <1>2, <1>3, <1>6 DEF TypeOK
    <2>2. EntriesComplete' /\ GuidHasRow'
      BY <1>6 DEF EntriesComplete, GuidHasRow
    <2>3. HeldRows'
      BY <1>1, <1>2, <1>6 DEF HeldRows
    <2>4. ~DbErrors => OwnerKnown'
      BY <1>1, <1>2, <1>6 DEF OwnerKnown
    <2> QED BY <2>1, <2>2, <2>3, <2>4
  <1> QED BY <1>4, <1>5, <1>6 DEF UdpDbWrite

\* A lookup that races with the UDP task keeps the invariant.
LEMMA LookupStep ==
    ASSUME IInv, UNCHANGED DbErrors, NEW t \in Lookups,
           LookupDb(t) \/ LookupInsert(t) \/ \E d \in Ids : LookupMiss(t, d)
    PROVE  IInv'
  <1> USE DEF IInv
  <1>1. CASE \E d \in Ids : LookupMiss(t, d)
    <2> PICK d \in Ids : LookupMiss(t, d)
      BY <1>1
    <2>1. UNCHANGED <<db, mem, udp, replaced>>
          /\ look' = [look EXCEPT ![t] = [op |-> "miss", id |-> d]]
      BY DEF LookupMiss
    <2>2. look'[t].op = "miss" /\ \A u \in Lookups : u # t => look'[u] = look[u]
      BY <2>1 DEF TypeOK
    <2>3. TypeOK'
      <3>1. [op |-> "miss", id |-> d] \in LookStates
        BY DEF LookStates
      <3> QED BY <2>1, <3>1 DEF TypeOK
    <2> QED BY <2>1, <2>2, <2>3, ZenonT(60) DEF EntriesComplete, HeldRows, GuidHasRow, OwnerKnown
  <1>2. CASE LookupDb(t)
    <2>1. look[t].op = "miss" /\ look[t].id \in Ids /\ UNCHANGED <<db, mem, udp, replaced>>
      BY <1>2, LookTypes DEF LookupDb
    <2>2. PICK row \in DbRead(look[t].id) :
             look' = [look EXCEPT ![t] = IF row = None THEN Idle
                                         ELSE [op |-> "row", id |-> look[t].id, row |-> row]]
      BY <1>2, ZenonT(60) DEF LookupDb
    <2>3. row \in {db[look[t].id], None}
      BY DEF DbRead
    <2>4. \A u \in Lookups : u # t => look'[u] = look[u]
      BY <2>2 DEF TypeOK
    <2>5. CASE row = None
      <3>1. look'[t] = Idle
        BY <2>2, <2>5 DEF TypeOK
      <3>2. TypeOK'
        BY <2>1, <2>2, <2>5 DEF TypeOK, LookStates
      <3>3. look'[t].op # "row"
        BY <3>1 DEF Idle
      <3> QED BY <2>1, <2>4, <3>2, <3>3, ZenonT(60)
              DEF EntriesComplete, HeldRows, GuidHasRow, OwnerKnown
    <2>6. CASE row # None
      <3> DEFINE l == [op |-> "row", id |-> look[t].id, row |-> row]
      <3>1. row = db[look[t].id] /\ row \in Rows
        BY <2>1, <2>3, <2>6 DEF TypeOK
      <3>2. l.op = "row" /\ l.id = look[t].id /\ l.row = row /\ l \in LookStates
        BY <2>1, <3>1 DEF LookStates
      <3>3. look' = [look EXCEPT ![t] = l]
        BY <2>2, <2>6
      <3> HIDE DEF l
      <3>4. look'[t] = l
        BY <3>3 DEF TypeOK
      <3>5. TypeOK'
        BY <2>1, <3>2, <3>3 DEF TypeOK
      <3>6. db' = db /\ mem' = mem /\ udp' = udp
        BY <2>1
      <3>7. EntriesComplete' /\ GuidHasRow' /\ (~DbErrors => OwnerKnown')
        BY <3>6, ZenonT(60) DEF EntriesComplete, GuidHasRow, OwnerKnown
      <3>8. \A u \in Lookups : look'[u].op = "row" =>
              db[look'[u].id] # None /\ look'[u].row.uuid = db[look'[u].id].uuid
        BY <2>4, <2>6, <3>1, <3>2, <3>4, ZenonT(60) DEF HeldRows
      <3>9. HeldRows'
        BY <3>6, <3>8, ZenonT(60) DEF HeldRows
      <3> QED BY <3>5, <3>7, <3>9, Zenon
    <2> QED BY <2>5, <2>6
  <1>3. CASE LookupInsert(t)
    <2> DEFINE d == look[t].id
               f == FromRow(look[t].row)
    <2>1. look[t].op = "row" /\ d \in Ids /\ look[t].row \in Rows /\ UNCHANGED db
          /\ look' = [look EXCEPT ![t] = Idle]
      BY <1>3, LookTypes DEF LookupInsert
    <2>2. db[d] # None /\ look[t].row.uuid = db[d].uuid
      BY <2>1 DEF HeldRows
    <2>3. /\ f.guid /\ f.uuid = look[t].row.uuid /\ f.pk = look[t].row.pk
          /\ f.addr = None /\ ~f.fresh
      BY DEF FromRow, DefaultPeer
    <2>4. f \in Entries /\ f # None /\ f.uuid # None /\ f.pk # None
      BY <2>1, <2>3, EntryTypes, RegistryAssumption DEF Rows
    <2>5. mem' = [mem EXCEPT ![d] = f]
      BY <1>3 DEF LookupInsert
    <2> HIDE DEF f
    <2>6. mem'[d] = f /\ \A i \in Ids : i # d => mem'[i] = mem[i]
      BY <2>1, <2>5 DEF TypeOK
    <2>7. look'[t] = Idle /\ \A u \in Lookups : u # t => look'[u] = look[u]
      BY <2>1 DEF TypeOK
    <2>8. /\ udp' \in UdpStates
          /\ udp'.op = udp.op
          /\ udp.op # "write" => udp' = udp
          /\ udp.op = "write" => udp'.req = udp.req /\ udp'.guid = udp.guid
      <3>1. CASE udp.op = "write"
        <4>1. udp \in [op : {"write"}, req : Requests, guid : BOOLEAN, attached : BOOLEAN]
          BY <3>1, WriteIs, Zenon
        <4> DEFINE w == [udp EXCEPT !.attached = FALSE]
        <4>2. /\ w \in [op : {"write"}, req : Requests, guid : BOOLEAN, attached : BOOLEAN]
              /\ w.op = udp.op /\ w.req = udp.req /\ w.guid = udp.guid
          BY <4>1, ZenonT(60)
        <4>3. udp' = w \/ udp' = udp
          BY <1>3 DEF LookupInsert
        <4> HIDE DEF w
        <4> QED BY <3>1, <4>1, <4>2, <4>3 DEF UdpStates
      <3>2. CASE udp.op # "write"
        BY <1>3, <3>2 DEF LookupInsert, TypeOK
      <3> QED BY <3>1, <3>2
    <2>9. TypeOK'
      <3>1. replaced' \subseteq Ids
        BY <1>3, <2>1 DEF LookupInsert, TypeOK
      <3>2. look' \in [Lookups -> LookStates]
        BY <2>1 DEF TypeOK, LookStates
      <3> QED BY <2>1, <2>4, <2>5, <2>8, <3>1, <3>2 DEF TypeOK
    <2>10. EntriesComplete'
      <3>1. ASSUME NEW i \in Ids, mem'[i] # None
            PROVE  /\ mem'[i].uuid # None /\ mem'[i].pk # None
                   /\ mem'[i].fresh => mem'[i].addr # None
                   /\ mem'[i].addr \in {None, mem'[i].ip, Loopback}
        <4>1. CASE i = d
          BY <2>3, <2>4, <2>6, <4>1, Zenon
        <4>2. CASE i # d
          <5>1. mem'[i] = mem[i]
            BY <2>6, <4>2, Zenon
          <5> QED BY <3>1, <5>1, Zenon DEF EntriesComplete
        <4> QED BY <4>1, <4>2
      <3> QED BY <3>1, Zenon DEF EntriesComplete
    <2>11. HeldRows'
      <3>1. udp.op = "write" => mem'[udp.req.id] # None
        BY <2>4, <2>6, UdpTypes, ZenonT(60) DEF HeldRows
      <3>2. udp'.op = "loaded" /\ udp'.row # None =>
              db'[udp'.req.id] # None /\ udp'.row.uuid = db'[udp'.req.id].uuid
        BY <2>1, <2>8, Zenon DEF HeldRows
      <3>3. udp'.op = "write" => mem'[udp'.req.id] # None /\ (udp'.guid => db'[udp'.req.id] # None)
        BY <2>1, <2>8, <3>1, Zenon DEF HeldRows
      <3>4. Idle.op # "row"
        BY DEF Idle
      <3>5. \A u \in Lookups : look'[u].op = "row" =>
              db'[look'[u].id] # None /\ look'[u].row.uuid = db'[look'[u].id].uuid
        BY <2>1, <2>7, <3>4, Zenon DEF HeldRows
      <3> QED BY <3>2, <3>3, <3>5, Zenon DEF HeldRows
    <2>12. GuidHasRow'
      BY <2>1, <2>2, <2>6, ZenonT(60) DEF GuidHasRow
    <2>13. ~DbErrors => OwnerKnown'
      <3> SUFFICES ASSUME ~DbErrors PROVE OwnerKnown'
        OBVIOUS
      <3>1. udp.op = "write" => mem'[udp.req.id] # None /\ mem'[udp.req.id].uuid = udp.req.uuid
        BY <2>2, <2>3, <2>4, <2>6, UdpTypes, ZenonT(60) DEF OwnerKnown
      <3>2. udp'.op = "loaded" /\ udp'.row = None => db'[udp'.req.id] = None
        BY <2>1, <2>8, Zenon DEF OwnerKnown
      <3>3. udp'.op = "write" =>
              /\ mem'[udp'.req.id] # None /\ mem'[udp'.req.id].uuid = udp'.req.uuid
              /\ db'[udp'.req.id] # None => db'[udp'.req.id].uuid = udp'.req.uuid
        BY <2>1, <2>8, <3>1, Zenon DEF OwnerKnown
      <3>4. ASSUME NEW i \in Ids, mem'[i] # None
            PROVE  \/ db'[i] # None /\ mem'[i].uuid = db'[i].uuid
                   \/ db'[i] = None /\ udp'.op = "write" /\ udp'.req.id = i
        <4>1. CASE i = d
          BY <4>1, <2>1, <2>2, <2>3, <2>6, ZenonT(60)
        <4>2. CASE i # d
          <5>1. mem[i] = mem'[i]
            BY <4>2, <2>6, ZenonT(60)
          <5>2. \/ db[i] # None /\ mem[i].uuid = db[i].uuid
                \/ db[i] = None /\ udp.op = "write" /\ udp.req.id = i
            BY <3>4, <5>1, ZenonT(60) DEF OwnerKnown
          <5> QED BY <5>1, <5>2, <2>1, <2>8, ZenonT(60)
        <4> QED BY <4>1, <4>2
      <3> QED BY <3>2, <3>3, <3>4, ZenonT(60) DEF OwnerKnown
    <2> QED BY <2>9, <2>10, <2>11, <2>12, <2>13
  <1> QED BY <1>1, <1>2, <1>3

\* A crash of hbbs, which keeps only the rows, keeps the invariant.
LEMMA RestartStep ==
    ASSUME IInv, Restart
    PROVE  IInv'
  BY ZenonT(60) DEF IInv, Restart, TypeOK, EntriesComplete, HeldRows, GuidHasRow, OwnerKnown, Idle,
         UdpStates, LookStates

\* Other parts of the system leave the registry alone.
LEMMA StutterStep ==
    ASSUME IInv, UNCHANGED vars
    PROVE  IInv'
  BY ZenonT(60) DEF IInv, vars, TypeOK, EntriesComplete, HeldRows, GuidHasRow, OwnerKnown

\* Every step of the registry keeps the invariant.
LEMMA RegistryStep ==
    ASSUME IInv, [Next]_vars
    PROVE  IInv'
  <1>1. CASE Step /\ UNCHANGED DbErrors
    <2>1. CASE \E d \in Ids, a \in Ips, b \in BOOLEAN : RegisterPeer(d, a, b)
      BY <1>1, <2>1, RegisterPeerStep
    <2>2. CASE \E r \in Requests, ok \in BOOLEAN, res \in Results : RegisterPk(r, ok, res)
      BY <1>1, <2>2, RegisterPkStep
    <2>3. CASE UdpDbRead
      BY <1>1, <2>3, UdpDbReadStep
    <2>4. CASE \E res \in Results : UdpLoad(res) \/ UdpDbWrite(res)
      BY <1>1, <2>4, UdpLoadStep, UdpDbWriteStep
    <2>5. CASE \E t \in Lookups : LookupDb(t) \/ LookupInsert(t)
                                  \/ \E d \in Ids : LookupMiss(t, d)
      BY <1>1, <2>5, LookupStep
    <2>6. CASE \E d \in Ids : Expire(d) \/ Elapse(d)
      BY <1>1, <2>6, ClockStep
    <2> QED BY <1>1, <2>1, <2>2, <2>3, <2>4, <2>5, <2>6 DEF Step
  <1>2. CASE Restart
    BY <1>2, RestartStep
  <1>3. CASE UNCHANGED vars
    BY <1>3, StutterStep
  <1> QED BY <1>1, <1>2, <1>3 DEF Next

-----------------------------------------------------------------------------
(* The theorems.                                                           *)

\* hbbs starts with an empty map and idle tasks, whatever is in the table.
LEMMA EmptyRegistry ==
    ASSUME mem = [i \in Ids |-> None], udp = Idle, look = [t \in Lookups |-> Idle]
    PROVE  /\ mem \in [Ids -> Entries \union {None}]
           /\ udp \in UdpStates /\ look \in [Lookups -> LookStates]
           /\ EntriesComplete /\ HeldRows /\ GuidHasRow /\ OwnerKnown
  <1>1. Idle.op = "idle" /\ "idle" # "loaded" /\ "idle" # "write" /\ "idle" # "row"
    BY DEF Idle
  <1>2. /\ udp.op = "idle" /\ \A t \in Lookups : look[t].op = "idle"
        /\ \A i \in Ids : mem[i] = None
    BY <1>1, Zenon
  <1>3. EntriesComplete /\ HeldRows /\ GuidHasRow /\ OwnerKnown
    BY <1>1, <1>2, Zenon DEF EntriesComplete, HeldRows, GuidHasRow, OwnerKnown
  <1> QED BY <1>3, Zenon DEF UdpStates, LookStates

\* The invariant is inductive.
THEOREM Inductive == Spec => []IInv
  <1>1. Init => IInv
    BY EmptyRegistry, Zenon DEF Init, IInv, TypeOK
  <1>2. IInv /\ [Next]_vars => IInv'
    BY RegistryStep
  <1> QED BY <1>1, <1>2, PTL DEF Spec

\* Every variable keeps its type; reg_pk never counts beyond three.
THEOREM TypeCorrect == Spec => []TypeOK
  <1>1. IInv => TypeOK
    BY DEF IInv
  <1> QED BY <1>1, Inductive, PTL

\* A device that counts as online has a key and the address it registered it from.
THEOREM OnlineAddressed == Spec => []OnlineIsAddressed
  <1>1. IInv => OnlineIsAddressed
    BY DEF IInv, EntriesComplete, OnlineIsAddressed
  <1> QED BY <1>1, Inductive, PTL

\* While the database works, memory never disagrees with it about an owner.
THEOREM MemoryOwner == Spec => []MemoryKnowsOwner
  <1>1. IInv => MemoryKnowsOwner
    BY DEF IInv, OwnerKnown, MemoryKnowsOwner
  <1> QED BY <1>1, Inductive, PTL

\* An entry with a guid has its row: an update never goes to a missing row.
THEOREM GuidsHaveRows == Spec => []GuidHasRow
  <1>1. IInv => GuidHasRow
    BY DEF IInv
  <1> QED BY <1>1, Inductive, PTL

\* No step of the registry changes the owner of a row: only update_pk writes rows.
LEMMA OwnersStep ==
    ASSUME IInv, [Next]_vars
    PROVE  OwnersKept
  <1> SUFFICES ASSUME db' # db PROVE OwnersKept
    BY DEF OwnersKept
  <1>1. PICK res \in Results : UdpDbWrite(res)
    BY ZenonT(60) DEF Next, Step, vars, RegisterPeer, RegisterPk, UdpDbRead, UdpLoad, LookupMiss, LookupDb,
           LookupInsert, Expire, Elapse, Restart
  <1> DEFINE r == udp.req
             i == r.id
  <1>2. udp.op = "write" /\ r \in Requests /\ i \in Ids
    BY <1>1, UdpTypes DEF UdpDbWrite, IInv
  <1>3. CASE udp.guid /\ db' = [db EXCEPT ![i].pk = r.pk, ![i].ip = r.ip]
    <2>1. db[i] # None /\ db[i] \in Rows
      BY <1>2, <1>3 DEF IInv, HeldRows, TypeOK
    <2> DEFINE row == [db[i] EXCEPT !.pk = r.pk, !.ip = r.ip]
    <2>2. row \in Rows /\ row.uuid = db[i].uuid
      BY <1>2, <2>1, ZenonT(60) DEF Rows, Requests
    <2>3. db' = [db EXCEPT ![i] = row]
      BY <1>2, <1>3, ZenonT(60) DEF IInv, TypeOK
    <2>4. row # None
      BY <2>2, RegistryAssumption
    <2> HIDE DEF row
    <2> QED BY <1>2, <2>2, <2>3, <2>4 DEF IInv, TypeOK, OwnersKept
  <1>4. CASE /\ ~udp.guid /\ db[i] = None
             /\ db' = [db EXCEPT ![i] = [uuid |-> r.uuid, pk |-> r.pk, ip |-> r.ip]]
    BY <1>2, <1>4 DEF IInv, TypeOK, OwnersKept
  <1> QED BY <1>1, <1>3, <1>4 DEF UdpDbWrite

\* Database errors, crashes and races included, a row never changes its owner.
THEOREM OwnerForever == Spec => OwnerIsForever
  <1>1. IInv /\ [Next]_vars => [OwnersKept]_db
    BY OwnersStep
  <1> QED BY <1>1, Inductive, PTL DEF Spec, OwnerIsForever

-----------------------------------------------------------------------------
(* The keys that are stored.  KeyIsStored is not inductive: it speaks      *)
(* about the entry in the map, and the entry is made of rows that tasks    *)
(* have read before an await.  Stored adds what those tasks hold.          *)

Writes(d) == udp.op = "write" /\ udp.req.id = d

\* Entry or row e has the key and the address of the row of id.
AsInTable(e, d) == e.pk = db[d].pk /\ e.ip = db[d].ip

MapStored ==
    \A d \in Ids : mem[d] # None /\ d \notin replaced /\ ~Writes(d) =>
        db[d] # None /\ AsInTable(mem[d], d)

\* A row that has been read is still the row of the table: for the UDP task,
\* which alone writes the table, and for a lookup until the id has an entry.
RowsCurrent ==
    /\ \A t \in Lookups : look[t].op = "row" /\ mem[look[t].id] = None =>
          AsInTable(look[t].row, look[t].id)
    /\ udp.op = "loaded" /\ udp.row # None => AsInTable(udp.row, udp.req.id)

\* A write under way stores what the map holds, unless a lookup has replaced the
\* entry; an insertion will not meet a row.
WriteCurrent ==
    udp.op = "write" =>
        /\ udp.attached => mem[udp.req.id].pk = udp.req.pk /\ mem[udp.req.id].ip = udp.req.ip
        /\ ~udp.attached => udp.req.id \in replaced
        /\ ~udp.guid => db[udp.req.id] = None /\ udp.attached

GuidsKnown == \A d \in Ids : mem[d] # None => mem[d].guid \/ (Writes(d) /\ ~udp.guid)

Stored == MapStored /\ RowsCurrent /\ WriteCurrent /\ GuidsKnown

-----------------------------------------------------------------------------
(* The steps that change an entry of the map.                              *)

\* The rows that the tasks hold stay current when one entry of the map changes and
\* the UDP task does not come to hold another row.
LEMMA RowsKept ==
    ASSUME TypeOK, RowsCurrent, db' = db, look' = look,
           udp' = udp \/ udp'.op # "loaded",
           NEW d \in Ids, mem'[d] # None, \A i \in Ids : i # d => mem'[i] = mem[i]
    PROVE  RowsCurrent'
  <1>1. ASSUME NEW t \in Lookups, look[t].op = "row", mem'[look[t].id] = None
        PROVE  look[t].row.pk = db[look[t].id].pk /\ look[t].row.ip = db[look[t].id].ip
    <2>1. look[t].id \in Ids
      BY <1>1, LookTypes
    <2>2. mem[look[t].id] = None
      BY <1>1, <2>1, Zenon
    <2> QED BY <1>1, <2>2, Zenon DEF RowsCurrent, AsInTable
  <1>2. udp'.op = "loaded" /\ udp'.row # None =>
            /\ udp'.row.pk = db[udp'.req.id].pk
            /\ udp'.row.ip = db[udp'.req.id].ip
    BY Zenon DEF RowsCurrent, AsInTable
  <1> QED BY <1>1, <1>2, Zenon DEF RowsCurrent, AsInTable

\* Deciding on an entry that is as in the table, or on a new one without a row
\* (handle_udp).
LEMMA DecideKeys ==
    ASSUME IInv, Stored, udp.op # "write", UNCHANGED <<db, look, replaced>>,
           NEW e \in Entries, NEW r \in Requests, NEW res, Decide(e, r, res),
           e.uuid = None => ~e.recent,
           \/ e.uuid = None /\ db[r.id] = None
           \/ e.guid /\ (r.id \notin replaced => db[r.id] # None /\ AsInTable(e, r.id))
    PROVE  Stored'
  <1> r.id \in Ids
    BY DEF Requests
  <1> None \notin Entries
    BY RegistryAssumption
  <1>0. db' = db /\ look' = look /\ replaced' = replaced
    OBVIOUS
  <1>1. CASE /\ udp' = Idle
             /\ e.uuid # None
             /\ \E f : mem' = [mem EXCEPT ![r.id] = f] /\ Kept(f, e)
    <2> PICK f : mem' = [mem EXCEPT ![r.id] = f] /\ Kept(f, e)
      BY <1>1, ZenonT(60)
    <2>1. mem'[r.id] = f /\ f # None /\ \A i \in Ids : i # r.id => mem'[i] = mem[i]
      BY DEF IInv, TypeOK, Kept
    <2>2. udp'.op = "idle"
      BY <1>1 DEF Idle
    <2>3. MapStored'
      <3> SUFFICES ASSUME NEW i \in Ids, mem'[i] # None, i \notin replaced
                   PROVE  db[i] # None /\ mem'[i].pk = db[i].pk /\ mem'[i].ip = db[i].ip
        BY <1>0, Zenon DEF MapStored, AsInTable
      <3>1. CASE i = r.id
        <4>1. f.pk = e.pk /\ f.ip = e.ip
          BY Zenon DEF Kept
        <4>2. db[r.id] # None /\ e.pk = db[r.id].pk /\ e.ip = db[r.id].ip
          BY <1>1, <3>1, Zenon DEF AsInTable
        <4> QED BY <2>1, <3>1, <4>1, <4>2, Zenon
      <3>2. CASE i # r.id
        BY <2>1, <3>2, Zenon DEF Stored, MapStored, Writes, AsInTable
      <3> QED BY <3>1, <3>2
    <2>4. RowsCurrent'
      BY <1>0, <2>1, <2>2, RowsKept, Zenon DEF IInv, Stored
    <2>5. GuidsKnown'
      <3>1. ASSUME NEW i \in Ids, mem'[i] # None PROVE mem'[i].guid
        <4>1. CASE i = r.id
          BY <1>1, <2>1, <4>1, Zenon DEF Kept
        <4>2. CASE i # r.id
          BY <2>1, <3>1, <4>2, Zenon DEF Stored, GuidsKnown, Writes
        <4> QED BY <4>1, <4>2
      <3> QED BY <3>1, Zenon DEF GuidsKnown
    <2> QED BY <2>2, <2>3, <2>4, <2>5 DEF Stored, WriteCurrent
  <1>2. CASE /\ udp' = [op |-> "write", req |-> r, guid |-> e.guid, attached |-> TRUE]
             /\ \E f : mem' = [mem EXCEPT ![r.id] = f] /\ Registered(f, e, r)
    <2> PICK f : mem' = [mem EXCEPT ![r.id] = f] /\ Registered(f, e, r)
      BY <1>2, ZenonT(60)
    <2>1. mem'[r.id] = f /\ f # None /\ \A i \in Ids : i # r.id => mem'[i] = mem[i]
      BY DEF IInv, TypeOK, Registered
    <2>2. udp'.op = "write" /\ udp'.req = r /\ udp'.guid = e.guid /\ udp'.attached
      BY <1>2
    <2>3. MapStored'
      <3> SUFFICES ASSUME NEW i \in Ids, mem'[i] # None, i \notin replaced, i # r.id
                   PROVE  db[i] # None /\ mem'[i].pk = db[i].pk /\ mem'[i].ip = db[i].ip
        BY <1>0, <2>2, Zenon DEF MapStored, AsInTable, Writes
      <3> QED BY <2>1, Zenon DEF Stored, MapStored, Writes, AsInTable
    <2>4. RowsCurrent'
      BY <1>0, <2>1, <2>2, RowsKept, Zenon DEF IInv, Stored
    <2>5. WriteCurrent'
      BY <2>1, <2>2 DEF WriteCurrent, Registered
    <2>6. GuidsKnown'
      BY <2>1, <2>2 DEF Stored, GuidsKnown, Writes, Registered
    <2> QED BY <2>3, <2>4, <2>5, <2>6 DEF Stored
  <1> QED BY <1>1, <1>2, DecideSummary

\* A change of an entry that leaves its key and address alone (update_addr and
\* the clock).
LEMMA TouchKeys ==
    ASSUME IInv, Stored, UNCHANGED <<db, udp, look, replaced>>,
           NEW d \in Ids, mem[d] # None, NEW f \in Entries,
           mem' = [mem EXCEPT ![d] = f],
           f.guid = mem[d].guid, f.pk = mem[d].pk, f.ip = mem[d].ip
    PROVE  Stored'
  <1>0. db' = db /\ udp' = udp /\ look' = look /\ replaced' = replaced
    OBVIOUS
  <1>1. mem'[d] = f /\ f # None /\ \A i \in Ids : i # d => mem'[i] = mem[i]
    BY RegistryAssumption DEF IInv, TypeOK
  <1>2. MapStored'
    <2> SUFFICES ASSUME NEW i \in Ids, mem'[i] # None, i \notin replaced, ~Writes(i)
                 PROVE  db[i] # None /\ mem'[i].pk = db[i].pk /\ mem'[i].ip = db[i].ip
      BY <1>0, Zenon DEF MapStored, AsInTable, Writes
    <2>1. mem[i] # None /\ mem'[i].pk = mem[i].pk /\ mem'[i].ip = mem[i].ip
      BY <1>1, Zenon
    <2> QED BY <2>1, Zenon DEF Stored, MapStored, AsInTable
  <1>3. RowsCurrent'
    BY <1>0, <1>1, RowsKept, Zenon DEF IInv, Stored
  <1>4. WriteCurrent'
    BY <1>1, UdpTypes DEF IInv, Stored, WriteCurrent
  <1>5. GuidsKnown'
    BY <1>1 DEF Stored, GuidsKnown, Writes
  <1> QED BY <1>2, <1>3, <1>4, <1>5 DEF Stored

-----------------------------------------------------------------------------
(* One step per action.                                                    *)

\* RegisterPeer and the clock touch an entry at most.
LEMMA TouchingKeys ==
    ASSUME IInv, Stored, NEW d \in Ids,
           Expire(d) \/ Elapse(d) \/ \E a \in Ips, b \in BOOLEAN : RegisterPeer(d, a, b)
    PROVE  Stored'
  <1> DEFINE e == mem[d]
  <1>0. UNCHANGED <<db, udp, look, replaced>>
    BY ZenonT(60) DEF Expire, Elapse, RegisterPeer
  <1>1. CASE UNCHANGED mem
    BY <1>0, <1>1 DEF Stored, MapStored, RowsCurrent, WriteCurrent, GuidsKnown, Writes, AsInTable
  <1>2. CASE e # None /\ mem' # mem
    <2>1. e \in Entries
      BY <1>2 DEF IInv, TypeOK
    <2>2. \/ mem' = [mem EXCEPT ![d] = [e EXCEPT !.fresh = FALSE]]
          \/ mem' = [mem EXCEPT ![d] = [e EXCEPT !.recent = FALSE]]
          \/ \E a \in Ips : mem' = [mem EXCEPT ![d] = [e EXCEPT !.addr = a, !.fresh = TRUE]]
      BY <1>2, ZenonT(60) DEF Expire, Elapse, RegisterPeer, IInv, TypeOK
    <2>3. \E f \in Entries : /\ mem' = [mem EXCEPT ![d] = f]
                             /\ f.guid = e.guid /\ f.pk = e.pk /\ f.ip = e.ip
      <3>1. CASE mem' = [mem EXCEPT ![d] = [e EXCEPT !.fresh = FALSE]]
        <4>1. LET f == [e EXCEPT !.fresh = FALSE]
              IN  f \in Entries /\ f.guid = e.guid /\ f.pk = e.pk /\ f.ip = e.ip
          BY <2>1, ZenonT(60) DEF Entries
        <4> QED BY <3>1, <4>1, ZenonT(60)
      <3>2. CASE mem' = [mem EXCEPT ![d] = [e EXCEPT !.recent = FALSE]]
        <4>1. LET f == [e EXCEPT !.recent = FALSE]
              IN  f \in Entries /\ f.guid = e.guid /\ f.pk = e.pk /\ f.ip = e.ip
          BY <2>1, ZenonT(60) DEF Entries
        <4> QED BY <3>2, <4>1, ZenonT(60)
      <3>3. ASSUME NEW a \in Ips, mem' = [mem EXCEPT ![d] = [e EXCEPT !.addr = a, !.fresh = TRUE]]
            PROVE  \E f \in Entries : /\ mem' = [mem EXCEPT ![d] = f]
                                      /\ f.guid = e.guid /\ f.pk = e.pk /\ f.ip = e.ip
        <4>1. LET f == [e EXCEPT !.addr = a, !.fresh = TRUE]
              IN  f \in Entries /\ f.guid = e.guid /\ f.pk = e.pk /\ f.ip = e.ip
          BY <2>1, ZenonT(60) DEF Entries
        <4> QED BY <3>3, <4>1, ZenonT(60)
      <3> QED BY <2>2, <3>1, <3>2, <3>3, ZenonT(60)
    <2> QED BY <1>0, <1>2, <2>3, TouchKeys, ZenonT(60)
  <1>3. CASE e = None
    BY <1>1, <1>3, ZenonT(60) DEF Expire, Elapse, RegisterPeer, RequestPk
  <1> QED BY <1>1, <1>2, <1>3

\* A RegisterPk on an entry of the map, or on none (handle_udp).
LEMMA RegisterPkKeys ==
    ASSUME IInv, Stored, ~DbErrors, NEW r \in Requests, NEW ok \in BOOLEAN, NEW res,
           RegisterPk(r, ok, res)
    PROVE  Stored'
  <1> r.id \in Ids
    BY DEF Requests
  <1>1. udp = Idle /\ udp.op = "idle" /\ UNCHANGED <<db, look, replaced>>
    BY DEF RegisterPk, Idle
  <1>2. CASE UNCHANGED <<mem, udp>>
    BY <1>1, <1>2 DEF Stored, MapStored, RowsCurrent, WriteCurrent, GuidsKnown, Writes, AsInTable
  <1>3. CASE mem[r.id] # None /\ Decide(mem[r.id], r, res)
    <2> DEFINE e == mem[r.id]
    <2>1. e \in Entries /\ e.uuid # None
      BY <1>3 DEF IInv, TypeOK, EntriesComplete
    <2>2. e.guid /\ (r.id \notin replaced => db[r.id] # None /\ AsInTable(e, r.id))
      BY <1>1, <1>3 DEF Stored, MapStored, GuidsKnown, Writes
    <2> HIDE DEF e
    <2> QED BY <1>1, <1>3, <2>1, <2>2, DecideKeys DEF e
  <1>4. CASE udp' = [op |-> "miss", req |-> r] /\ UNCHANGED mem
    <2>1. udp'.op = "miss"
      BY <1>4
    <2> QED BY <1>1, <1>4, <2>1
            DEF Stored, MapStored, RowsCurrent, WriteCurrent, GuidsKnown, Writes, AsInTable
  <1> QED BY <1>2, <1>3, <1>4 DEF RegisterPk

\* The UDP task reads the row it will decide on (get).
LEMMA UdpDbReadKeys ==
    ASSUME IInv, Stored, ~DbErrors, UdpDbRead
    PROVE  Stored'
  <1>1. udp.op = "miss" /\ UNCHANGED <<db, mem, look, replaced>>
    BY DEF UdpDbRead
  <1>2. udp' = [op |-> "loaded", req |-> udp.req, row |-> db[udp.req.id]]
    BY DEF UdpDbRead, DbRead
  <1>3. udp'.op = "loaded" /\ udp'.req = udp.req /\ udp'.row = db[udp.req.id]
    BY <1>2
  <1> QED BY <1>1, <1>3
          DEF Stored, MapStored, RowsCurrent, WriteCurrent, GuidsKnown, Writes, AsInTable

\* The UDP task decides on that row, or on a new entry for an id without one; an
\* entry that appeared meanwhile comes with a row (get_or).
LEMMA UdpLoadKeys ==
    ASSUME IInv, Stored, ~DbErrors, NEW res, UdpLoad(res)
    PROVE  Stored'
  <1> DEFINE d == udp.req.id
             r == udp.req
  <1>1. udp.op = "loaded" /\ r \in Requests /\ d \in Ids /\ udp.row \in Rows \union {None}
        /\ udp.op # "write" /\ UNCHANGED <<db, look, replaced>>
    BY UdpTypes DEF UdpLoad, IInv
  <1>2. CASE udp.row # None
    <2> DEFINE e == FromRow(udp.row)
    <2>1. Decide(e, r, res)
      BY <1>2 DEF UdpLoad
    <2>2. e.guid /\ e.pk = udp.row.pk /\ e.ip = udp.row.ip /\ ~e.recent
      BY DEF FromRow, DefaultPeer
    <2>3. e \in Entries
      BY <1>1, <1>2, EntryTypes
    <2>4. db[d] # None /\ AsInTable(e, d)
      BY <1>1, <1>2, <2>2 DEF IInv, HeldRows, Stored, RowsCurrent, AsInTable
    <2> HIDE DEF e
    <2> QED BY <1>1, <2>1, <2>2, <2>3, <2>4, DecideKeys
  <1>3. CASE udp.row = None
    <2> DEFINE e == DefaultPeer
    <2>1. db[d] = None
      BY <1>1, <1>3 DEF IInv, OwnerKnown
    <2>2. mem[d] = None
      BY <1>1, <2>1 DEF IInv, OwnerKnown
    <2>3. Decide(e, r, res)
      BY <1>3, <2>2 DEF UdpLoad
    <2>4. e.uuid = None /\ ~e.recent
      BY DEF DefaultPeer
    <2>5. e \in Entries
      BY EntryTypes
    <2> HIDE DEF e
    <2> QED BY <1>1, <2>1, <2>3, <2>4, <2>5, DecideKeys
  <1> QED BY <1>2, <1>3

\* The row is updated or inserted, and is what the entry in the map says if it is
\* still the one update_pk worked on (update_pk).
LEMMA UdpDbWriteKeys ==
    ASSUME IInv, Stored, ~DbErrors, NEW res, UdpDbWrite(res)
    PROVE  Stored'
  <1> DEFINE r == udp.req
             d == r.id
  <1>1. /\ udp.op = "write" /\ r \in Requests /\ d \in Ids /\ udp' = Idle /\ UNCHANGED look
        /\ replaced' = IF udp.attached THEN replaced \ {d} ELSE replaced
    BY UdpTypes DEF UdpDbWrite, IInv
  <1>2. udp'.op = "idle"
    BY <1>1 DEF Idle
  <1>3. mem[d] # None /\ mem[d] \in Entries
    BY <1>1 DEF IInv, HeldRows, TypeOK
  <1>4. /\ db'[d] # None /\ db'[d].pk = r.pk /\ db'[d].ip = r.ip
        /\ \A i \in Ids : i # d => db'[i] = db[i]
    <2> None \notin Rows
      BY RegistryAssumption
    <2>1. CASE udp.guid
      <3>1. db[d] # None /\ db[d] \in Rows
        BY <1>1, <2>1 DEF IInv, HeldRows, TypeOK
      <3>2. db' = [db EXCEPT ![d] = [db[d] EXCEPT !.pk = r.pk, !.ip = r.ip]]
        BY <1>1, <2>1, ZenonT(60) DEF UdpDbWrite, IInv, TypeOK
      <3> DEFINE row == [db[d] EXCEPT !.pk = r.pk, !.ip = r.ip]
      <3>3. row \in Rows /\ row.pk = r.pk /\ row.ip = r.ip
        BY <1>1, <3>1, ZenonT(60) DEF Rows, Requests
      <3> HIDE DEF row
      <3>4. db' = [db EXCEPT ![d] = row]
        BY <3>2 DEF row
      <3> QED BY <1>1, <3>3, <3>4 DEF IInv, TypeOK
    <2>2. CASE ~udp.guid
      <3>1. db[d] = None
        BY <1>1, <2>2 DEF Stored, WriteCurrent
      <3> DEFINE row == [uuid |-> r.uuid, pk |-> r.pk, ip |-> r.ip]
      <3>2. db' = [db EXCEPT ![d] = row]
        BY <2>2, <3>1 DEF UdpDbWrite
      <3>3. row \in Rows /\ row.pk = r.pk /\ row.ip = r.ip
        BY <1>1 DEF Rows, Requests
      <3> HIDE DEF row
      <3> QED BY <1>1, <3>2, <3>3 DEF IInv, TypeOK
    <2> QED BY <1>1, <2>1, <2>2 DEF IInv, TypeOK, UdpStates
  <1>5. /\ mem'[d] # None /\ mem'[d].pk = mem[d].pk /\ mem'[d].ip = mem[d].ip
        /\ mem'[d].guid
        /\ \A i \in Ids : i # d => mem'[i] = mem[i]
    <2>0. None \notin Entries
      BY RegistryAssumption
    <2>1. CASE udp.guid
      <3>1. mem' = mem
        BY <1>1, <2>1 DEF UdpDbWrite
      <3> QED BY <1>1, <1>3, <2>1, <3>1 DEF Stored, GuidsKnown
    <2>2. CASE ~udp.guid
      <3>1. db[d] = None /\ udp.attached
        BY <1>1, <2>2 DEF Stored, WriteCurrent
      <3> DEFINE f == [mem[d] EXCEPT !.guid = TRUE]
      <3>2. f \in Entries /\ f.pk = mem[d].pk /\ f.ip = mem[d].ip /\ f.guid
        BY <1>3, ZenonT(60) DEF Entries
      <3>3. mem' = [mem EXCEPT ![d] = f]
        BY <1>1, <2>2, <3>1 DEF UdpDbWrite, IInv, TypeOK
      <3> HIDE DEF f
      <3> QED BY <1>1, <2>0, <3>2, <3>3 DEF IInv, TypeOK
    <2> QED BY <2>1, <2>2
  <1>6. MapStored'
    <2>1. udp.attached => mem'[d].pk = db'[d].pk /\ mem'[d].ip = db'[d].ip
      BY <1>1, <1>4, <1>5 DEF Stored, WriteCurrent
    <2>2. ~udp.attached => d \in replaced'
      BY <1>1 DEF Stored, WriteCurrent
    <2> HIDE DEF d
    <2>3. \A i \in Ids : i # d /\ i \notin replaced' => i \notin replaced /\ ~Writes(i)
      BY <1>1 DEF Writes, d
    <2> QED BY <1>4, <1>5, <2>1, <2>2, <2>3 DEF Stored, MapStored, AsInTable
  <1>7. RowsCurrent'
    <2>1. ASSUME NEW t \in Lookups, look'[t].op = "row", mem'[look'[t].id] = None
          PROVE  AsInTable(look[t].row, look[t].id)'
      <3>1. look'[t] = look[t]
        BY <1>1, Zenon
      <3>2. look[t].op = "row" /\ look[t].op \in {"miss", "row"} /\ mem'[look[t].id] = None
        BY <2>1, <3>1, Zenon
      <3>3. look[t].id \in Ids /\ look[t].id # d
        BY <1>5, <3>2, LookTypes, Zenon DEF IInv
      <3>4. mem[look[t].id] = None /\ db'[look[t].id] = db[look[t].id]
        BY <1>4, <1>5, <3>2, <3>3, Zenon
      <3>5. AsInTable(look[t].row, look[t].id)
        BY <3>2, <3>4, Zenon DEF Stored, RowsCurrent
      <3> QED BY <3>1, <3>4, <3>5, Zenon DEF AsInTable
    <2>2. udp'.op # "loaded"
      BY <1>2
    <2> QED BY <2>1, <2>2, Zenon DEF RowsCurrent
  <1>8. GuidsKnown'
    BY <1>5 DEF Stored, GuidsKnown, Writes
  <1> QED BY <1>2, <1>6, <1>7, <1>8 DEF Stored, WriteCurrent

\* A lookup puts the row it has read into the map: over nothing, and then it is
\* still the row of the table, or over an entry (get).
LEMMA LookupKeys ==
    ASSUME IInv, Stored, ~DbErrors, NEW t \in Lookups,
           LookupDb(t) \/ LookupInsert(t) \/ \E d \in Ids : LookupMiss(t, d)
    PROVE  Stored'
  <1>0. \A u \in Lookups : u # t => look'[u] = look[u]
    BY DEF LookupDb, LookupInsert, LookupMiss, IInv, TypeOK
  <1>1. CASE \E d \in Ids : LookupMiss(t, d)
    <2>1. UNCHANGED <<db, mem, udp, replaced>> /\ look'[t].op = "miss"
      <3>1. PICK d \in Ids : LookupMiss(t, d)
        BY <1>1
      <3>2. look \in [Lookups -> LookStates]
        BY Zenon DEF IInv, TypeOK
      <3>3. look'[t] = [op |-> "miss", id |-> d]
        BY <3>1, <3>2, Zenon DEF LookupMiss
      <3>4. [op |-> "miss", id |-> d].op = "miss"
        BY Zenon
      <3> QED BY <3>1, <3>3, <3>4, Zenon DEF LookupMiss
    <2>2. RowsCurrent'
      BY <1>0, <2>1 DEF Stored, RowsCurrent, AsInTable
    <2> QED BY <2>1, <2>2 DEF Stored, MapStored, WriteCurrent, GuidsKnown, Writes, AsInTable
  <1>2. CASE LookupDb(t)
    <2> DEFINE d == look[t].id
    <2>1. UNCHANGED <<db, mem, udp, replaced>>
          /\ look'[t] = IF db[d] = None THEN Idle ELSE [op |-> "row", id |-> d, row |-> db[d]]
      BY <1>2 DEF LookupDb, DbRead, IInv, TypeOK
    <2>2. look'[t].op = "row" => look'[t].id = d /\ look'[t].row = db[d]
      <3>1. Idle.op # "row"
        BY DEF Idle
      <3>2. CASE db[d] = None
        BY <2>1, <3>1, <3>2, Zenon
      <3>3. CASE db[d] # None
        <4>1. look'[t] = [op |-> "row", id |-> d, row |-> db[d]]
          BY <2>1, <3>3, Zenon
        <4> DEFINE x == [op |-> "row", id |-> d, row |-> db[d]]
        <4>2. x.id = d /\ x.row = db[d]
          BY RowIs, Zenon
        <4>3. look'[t] = x
          BY <4>1, Zenon
        <4> HIDE DEF x
        <4>4. QED
          BY <4>2, <4>3, Zenon
      <3>4. QED
        BY <3>2, <3>3, Zenon
    <2>3. RowsCurrent'
      BY <1>0, <2>1, <2>2, ZenonT(60) DEF Stored, RowsCurrent, AsInTable
    <2> QED BY <2>1, <2>3 DEF Stored, MapStored, WriteCurrent, GuidsKnown, Writes, AsInTable
  <1>3. CASE LookupInsert(t)
    <2>1. PICK d \in Ids : d = look[t].id
      BY <1>3, LookTypes DEF LookupInsert, IInv
    <2>2. PICK f : f = FromRow(look[t].row)
      OBVIOUS
    <2>3. look[t].op = "row" /\ look[t].row \in Rows /\ UNCHANGED db /\ look'[t].op = "idle"
      BY <1>3, LookTypes DEF LookupInsert, IInv, TypeOK, Idle
    <2>4. f.guid /\ f.pk = look[t].row.pk /\ f.ip = look[t].row.ip /\ f # None
      BY <2>2, <2>3, EntryTypes, RegistryAssumption, ZenonT(60) DEF FromRow, DefaultPeer
    <2>5. mem'[d] = f /\ \A i \in Ids : i # d => mem'[i] = mem[i]
      BY <1>3, <2>1, <2>2 DEF LookupInsert, IInv, TypeOK
    <2>6. db[d] # None /\ (mem[d] = None => AsInTable(f, d))
      BY <2>1, <2>3, <2>4, ZenonT(60) DEF IInv, HeldRows, Stored, RowsCurrent, AsInTable
    <2>7. replaced' = IF mem[d] = None THEN replaced ELSE replaced \union {d}
      BY <1>3, <2>1 DEF LookupInsert
    <2>8. /\ udp'.op = udp.op
          /\ udp.op # "write" => udp' = udp
          /\ udp.op = "write" =>
                /\ udp'.req = udp.req /\ udp'.guid = udp.guid
                /\ udp'.attached = IF udp.req.id = d THEN FALSE ELSE udp.attached
      <3>1. CASE Writes(d)
        <4>1. udp \in [op : {"write"}, req : Requests, guid : BOOLEAN, attached : BOOLEAN]
          BY <3>1, WriteIs, Zenon DEF IInv, Writes
        <4>2. udp' = [udp EXCEPT !.attached = FALSE]
          BY <1>3, <2>1, <3>1 DEF LookupInsert, Writes
        <4> QED BY <3>1, <4>1, <4>2 DEF Writes
      <3>2. CASE ~Writes(d)
        <4>1. udp' = udp
          BY <1>3, <2>1, <3>2 DEF LookupInsert, Writes
        <4> QED BY <3>2, <4>1, ZenonT(60) DEF Writes
      <3> QED BY <3>1, <3>2, ZenonT(60)
    <2>9. \A i \in Ids : Writes(i)' <=> Writes(i)
      BY <2>8, ZenonT(60) DEF Writes
    <2>10. Writes(d) => mem[d] # None /\ udp.guid
      BY <2>6 DEF IInv, HeldRows, Stored, WriteCurrent, Writes
    <2>11. MapStored'
      BY <2>3, <2>5, <2>6, <2>7, <2>9 DEF Stored, MapStored, AsInTable
    <2>12. RowsCurrent'
      <3>1. ASSUME NEW u \in Lookups, look'[u].op = "row", mem'[look'[u].id] = None
            PROVE  AsInTable(look[u].row, look[u].id)'
        <4>1. u # t /\ look'[u] = look[u]
          BY <1>0, <2>3, <3>1
        <4>2. look[u].id \in Ids
          BY <3>1, <4>1, LookTypes DEF IInv
        <4>3. mem[look[u].id] = None
          BY <2>4, <2>5, <3>1, <4>1, <4>2, Zenon
        <4>4. AsInTable(look[u].row, look[u].id)
          BY <3>1, <4>1, <4>3, Zenon DEF Stored, RowsCurrent
        <4>5. QED
          BY <2>3, <4>1, <4>4, Zenon DEF AsInTable
      <3>2. ASSUME udp'.op = "loaded", udp'.row # None
            PROVE  AsInTable(udp.row, udp.req.id)'
        <4>1. udp' = udp
          BY <2>8, <3>2
        <4>2. AsInTable(udp.row, udp.req.id)
          BY <3>2, <4>1, Zenon DEF Stored, RowsCurrent
        <4>3. QED
          BY <2>3, <4>1, <4>2, Zenon DEF AsInTable
      <3>3. QED
        BY <3>1, <3>2, Zenon DEF RowsCurrent
    <2>13. WriteCurrent'
      <3>1. CASE Writes(d)
        BY <2>7, <2>8, <2>10, <3>1, ZenonT(60) DEF WriteCurrent, Writes
      <3>2. CASE ~Writes(d)
        BY <2>3, <2>5, <2>7, <2>8, <3>2, UdpTypes, ZenonT(60) DEF IInv, Stored, WriteCurrent, Writes
      <3> QED BY <3>1, <3>2
    <2>14. GuidsKnown'
      BY <2>4, <2>5, <2>8, <2>9, ZenonT(60) DEF Stored, GuidsKnown, Writes
    <2> QED BY <2>11, <2>12, <2>13, <2>14 DEF Stored
  <1> QED BY <1>1, <1>2, <1>3

\* Every step of the registry keeps what is known of the keys.
LEMMA KeysStep ==
    ASSUME IInv, ~DbErrors => Stored, [Next]_vars, ~DbErrors'
    PROVE  Stored'
  <1>1. CASE Step /\ UNCHANGED DbErrors
    <2>0. ~DbErrors /\ Stored
      BY <1>1
    <2>1. CASE \E d \in Ids : \/ Expire(d) \/ Elapse(d)
                               \/ \E a \in Ips, b \in BOOLEAN : RegisterPeer(d, a, b)
      BY <2>0, <2>1, TouchingKeys
    <2>2. CASE \E r \in Requests, ok \in BOOLEAN, res \in Results : RegisterPk(r, ok, res)
      BY <2>0, <2>2, RegisterPkKeys
    <2>3. CASE UdpDbRead
      BY <2>0, <2>3, UdpDbReadKeys
    <2>4. CASE \E res \in Results : UdpLoad(res) \/ UdpDbWrite(res)
      BY <2>0, <2>4, UdpLoadKeys, UdpDbWriteKeys
    <2>5. CASE \E t \in Lookups : LookupDb(t) \/ LookupInsert(t)
                                  \/ \E d \in Ids : LookupMiss(t, d)
      BY <2>0, <2>5, LookupKeys
    <2> QED BY <1>1, <2>1, <2>2, <2>3, <2>4, <2>5 DEF Step
  <1>2. CASE Restart
    BY <1>2 DEF Restart, Stored, MapStored, RowsCurrent, WriteCurrent, GuidsKnown, Idle
  <1>3. CASE UNCHANGED vars
    BY <1>3, ZenonT(60) DEF vars, Stored, MapStored, RowsCurrent, WriteCurrent, GuidsKnown, Writes, AsInTable
  <1> QED BY <1>1, <1>2, <1>3 DEF Next

-----------------------------------------------------------------------------
\* With an empty map and idle tasks nothing is left to store.
LEMMA EmptyStored ==
    ASSUME mem = [i \in Ids |-> None], udp = Idle, look = [t \in Lookups |-> Idle]
    PROVE  Stored
  <1>1. Idle.op = "idle" /\ "idle" # "loaded" /\ "idle" # "write" /\ "idle" # "row"
    BY DEF Idle
  <1>2. /\ udp.op = "idle" /\ \A t \in Lookups : look[t].op = "idle"
        /\ \A i \in Ids : mem[i] = None
    BY <1>1, Zenon
  <1> QED BY <1>1, <1>2, Zenon DEF Stored, MapStored, RowsCurrent, WriteCurrent, GuidsKnown, Writes

\* While the database works, the key in memory is the key in the table, except
\* during a write and for an entry a lookup has replaced (update_pk, get).
THEOREM KeysStored == Spec => []KeyIsStored
  <1> DEFINE KInv == ~DbErrors => Stored
  <1>1. Init => KInv
    BY EmptyStored, Zenon DEF Init
  <1>2. IInv /\ KInv /\ [Next]_vars => KInv'
    BY KeysStep, Zenon
  <1>3. KInv => KeyIsStored
    BY DEF Stored, MapStored, KeyIsStored, Writes, AsInTable
  <1> QED BY <1>1, <1>2, <1>3, Inductive, PTL DEF Spec

-----------------------------------------------------------------------------
(* The device and hbbs together (Registration).  ConfirmedHasRow speaks of *)
(* the configuration of the device and the table of hbbs; between the two  *)
(* are the datagrams in flight and the request hbbs is working on.         *)

Replies == {"request_pk", "registered", "OK", "UUID_MISMATCH", "TOO_FREQUENT"}

\* What the device has sent carries an id it has drawn.
Datagrams == [kind : {"peer"}, id : 1 .. id, ip : Ips]
               \union [kind : {"pk"}, id : 1 .. id, pk : Pks, ip : Ips]

\* hbbs has sent an OK only if the device has a row.
Answers == [res : {x \in Replies : x = "OK" => HasRow}, ip : Ips]

InFlight ==
    /\ id \in Ids /\ pk \in Pks /\ ip \in Ips
    /\ up \in Seq(Datagrams) /\ down \in Seq(Answers)
    /\ udp.op # "idle" => udp.req.uuid = uuid /\ udp.req.id \in 1 .. id

DInv == IInv /\ Stored /\ ~DbErrors /\ InFlight /\ OwnRowsOnly /\ ConfirmedHasRow

\* A queue stays one of the same datagrams when one of them is delivered or lost or
\* overtaken, and when one is added.
LEMMA QueueIs ==
    ASSUME NEW S, NEW q \in Seq(S)
    PROVE  /\ q # <<>> => Head(q) \in S /\ Tail(q) \in Seq(S)
           /\ q \o << >> \in Seq(S)
           /\ \A x \in S : q \o <<x>> \in Seq(S)
           /\ Disturbed(q) \subseteq Seq(S)
  <1>1. \A i \in 1 .. Len(q) : SubSeq(q, 1, i - 1) \o SubSeq(q, i + 1, Len(q)) \in Seq(S)
    OBVIOUS
  <1>2. \A i \in 1 .. Len(q) - 1 : [q EXCEPT ![i] = q[i + 1], ![i + 1] = q[i]] \in Seq(S)
    OBVIOUS
  <1>3. Disturbed(q) \subseteq Seq(S)
    BY <1>1, <1>2, Zenon DEF Disturbed
  <1> QED BY <1>3

\* A queue of some datagrams is a queue of more.
LEMMA QueueGrows ==
    ASSUME NEW S, NEW T, S \subseteq T, NEW q \in Seq(S)
    PROVE  q \in Seq(T)
  OBVIOUS

\* Only update_pk adds a row, and it is that of the device it serves.
LEMMA NewRow ==
    ASSUME IInv, [Next]_vars, NEW d \in Ids, db[d] = None, db'[d] # None
    PROVE  udp.op = "write" /\ d = udp.req.id /\ db'[d].uuid = udp.req.uuid
  <1>1. PICK res \in Results : UdpDbWrite(res)
    BY ZenonT(60) DEF Next, Step, vars, RegisterPeer, RegisterPk, UdpDbRead, UdpLoad, LookupMiss, LookupDb,
           LookupInsert, Expire, Elapse, Restart
  <1> DEFINE r == udp.req
             i == r.id
  <1>2. udp.op = "write" /\ r \in Requests /\ i \in Ids
    BY <1>1, UdpTypes DEF UdpDbWrite, IInv
  <1>3. db \in [Ids -> Rows \union {None}]
    BY DEF IInv, TypeOK
  <1>4. CASE udp.guid /\ db' = [db EXCEPT ![i].pk = r.pk, ![i].ip = r.ip]
    <2>1. db[i] # None
      BY <1>2, <1>4 DEF IInv, HeldRows
    <2> QED BY <1>3, <1>4, <2>1
  <1>5. CASE /\ ~udp.guid /\ db[i] = None
             /\ db' = [db EXCEPT ![i] = [uuid |-> r.uuid, pk |-> r.pk, ip |-> r.ip]]
    BY <1>2, <1>3, <1>5
  <1> QED BY <1>1, <1>2, <1>4, <1>5, Zenon DEF UdpDbWrite

\* Neither the ids the device has drawn nor its row go away.
LEMMA Grows ==
    ASSUME RegistrationAssumption, OwnersKept, id \in Ids, id' \in {id, id + 1}, id' \in Ids
    PROVE  /\ HasRow => HasRow'
           /\ Datagrams \subseteq Datagrams' /\ Answers \subseteq Answers'
           /\ 1 .. id \subseteq 1 .. id'
  <1>1. 1 .. id \subseteq Ids /\ 1 .. id \subseteq 1 .. id'
    BY DEF RegistrationAssumption
  <1>2. HasRow => HasRow'
    BY <1>1, Zenon DEF HasRow, OwnersKept
  <1>3. Datagrams \subseteq Datagrams'
    BY <1>1 DEF Datagrams
  <1>4. Answers \subseteq Answers'
    BY <1>2 DEF Answers
  <1> QED BY <1>1, <1>2, <1>3, <1>4

\* A step of the registry, of the device or of both keeps the invariant, if what it
\* puts on its way does.
LEMMA SystemStep ==
    ASSUME RegistrationAssumption, DInv, [Next]_vars, UNCHANGED DbErrors,
           id' \in {id, id + 1}, id' \in Ids, pk' \in Pks, ip' \in Ips,
           up' \in Seq(Datagrams'), down' \in Seq(Answers'),
           udp'.op # "idle" => udp'.req.uuid = uuid /\ udp'.req.id \in 1 .. id',
           key_confirmed' => HasRow'
    PROVE  DInv'
  <1>0. id \in Ids
    BY Zenon DEF DInv, InFlight
  <1>1. IInv' /\ OwnersKept
    BY RegistryStep, OwnersStep, Zenon DEF DInv
  <1>2. Stored'
    BY KeysStep, Zenon DEF DInv
  <1>3. OwnRowsOnly'
    <2> SUFFICES ASSUME NEW i \in Ids
                 PROVE  /\ i \in Owned => db'[i] # None /\ db'[i].uuid = other
                        /\ i \notin Owned /\ db'[i] # None => i <= id' /\ db'[i].uuid = uuid
      BY DEF OwnRowsOnly
    <2>0. /\ i \in Owned => db[i] # None /\ db[i].uuid = other
          /\ i \notin Owned /\ db[i] # None => i <= id /\ db[i].uuid = uuid
      BY DEF DInv, OwnRowsOnly
    <2>1. CASE db[i] # None
      <3>1. db'[i] # None /\ db'[i].uuid = db[i].uuid
        BY <1>1, <2>1, Zenon DEF OwnersKept
      <3>2. i <= id => i <= id'
        BY ONLY RegistrationAssumption, <1>0, id' \in {id, id + 1} DEF RegistrationAssumption
      <3> QED BY <2>0, <2>1, <3>1, <3>2, Zenon
    <2>2. CASE db[i] = None
      <3>1. i \notin Owned
        BY <2>0, <2>2, Zenon
      <3>2. ASSUME db'[i] # None PROVE i \in 1 .. id /\ db'[i].uuid = uuid
        <4>1. udp.op = "write" /\ i = udp.req.id /\ db'[i].uuid = udp.req.uuid
          BY <2>2, <3>2, NewRow, Zenon DEF DInv
        <4> QED BY <4>1 DEF DInv, InFlight
      <3>3. i \in 1 .. id => i <= id'
        BY ONLY RegistrationAssumption, <1>0, id' \in {id, id + 1} DEF RegistrationAssumption
      <3> QED BY <3>1, <3>2, <3>3, Zenon
    <2> QED BY <2>1, <2>2
  <1>4. InFlight'
    BY Zenon DEF InFlight
  <1> QED BY <1>1, <1>2, <1>3, <1>4, Zenon DEF DInv, ConfirmedHasRow

\* What the handlers of the device do to its id, its key and the confirmation.
LEMMA DeviceKeeps ==
    ASSUME NEW out, \/ M!Register(host, out) \/ M!SendPk(host, out) \/ M!Loop
                    \/ M!Connect(host) \/ M!ConfirmHost(host) \/ M!Tick(host)
                    \/ M!PeerResponse(host, TRUE) \/ M!PeerResponse(host, FALSE)
                    \/ M!PkOther(host)
    PROVE  UNCHANGED <<id, pk, key_confirmed>>
  BY Zenon DEF M!Register, M!SendPk, M!Loop, M!ReadServers, M!Spawn, M!Join, M!Connect,
         M!ConfirmHost, M!Tick, M!PeerResponse, M!PkOther, M!config

\* A mismatch makes the device draw the next id, without a confirmation
\* (handle_uuid_mismatch).
LEMMA DeviceDraws ==
    ASSUME RegistrationAssumption, id \in Ids, M!PkMismatch(host)
    PROVE  /\ id' \in {id, id + 1} /\ id' \in Ids /\ pk' = pk
           /\ key_confirmed' => key_confirmed
  BY DEF M!PkMismatch, M!SetKeyConfirmed, RegistrationAssumption

\* What the device sends and receives, and what the network does to it, keeps the
\* invariant: hbbs is not involved.
LEMMA DeviceStep ==
    ASSUME RegistrationAssumption, DInv, UNCHANGED vars,
           id' \in {id, id + 1}, id' \in Ids, pk' \in Pks, ip' \in Ips,
           up' \in Seq(Datagrams), down' \in Seq(Answers),
           key_confirmed' => key_confirmed \/ HasRow
    PROVE  DInv'
  <1>1. UNCHANGED <<db, udp, DbErrors>>
    BY DEF vars
  <1>2. id \in Ids /\ OwnersKept
    BY <1>1, Zenon DEF DInv, InFlight, OwnersKept
  <1>3. up' \in Seq(Datagrams') /\ down' \in Seq(Answers')
    BY <1>2, Grows, QueueGrows, Zenon
  <1>4. udp'.op # "idle" => udp'.req.uuid = uuid /\ udp'.req.id \in 1 .. id'
    BY <1>1, <1>2, Grows, Zenon DEF DInv, InFlight
  <1>5. key_confirmed' => HasRow'
    BY <1>2, Grows, Zenon DEF DInv, ConfirmedHasRow
  <1> QED BY <1>1, <1>3, <1>4, <1>5, SystemStep, Zenon

\* The steps of the device and of the network keep the invariant.
LEMMA DeviceSteps ==
    ASSUME RegistrationAssumption, DInv,
           Disturb \/ Send \/ Local \/ Tick \/ TickEarly \/ SyncKey \/ Move \/ Receive
    PROVE  DInv'
  <1>1. /\ id \in Ids /\ pk \in Pks /\ ip \in Ips
        /\ up \in Seq(Datagrams) /\ down \in Seq(Answers)
    BY DEF DInv, InFlight
  <1>2. CASE Disturb
    <2>1. UNCHANGED <<id, pk, key_confirmed, ip>> /\ UNCHANGED vars
      BY <1>2 DEF Disturb, mediator, registry
    <2>2. up' \in Seq(Datagrams) /\ down' \in Seq(Answers)
      BY <1>1, <1>2, QueueIs, Zenon DEF Disturb
    <2> QED BY <1>1, <2>1, <2>2, DeviceStep
  <1>3. CASE Send
    <2>1. PICK out \in M!Outs : /\ M!Register(host, out) \/ M!SendPk(host, out)
                                /\ up' = up \o Sent(out)
      BY <1>3 DEF Send
    <2>2. UNCHANGED <<id, pk, key_confirmed>> /\ UNCHANGED <<down, ip>> /\ UNCHANGED vars
      BY <1>3, <2>1, DeviceKeeps, Zenon DEF Send, registry
    <2>3. Sent(out) = << >> \/ \E x \in Datagrams : Sent(out) = <<x>>
      <3>1. id \in 1 .. id
        BY <1>1 DEF RegistrationAssumption
      <3>2. /\ [kind |-> "peer", id |-> id, ip |-> ip] \in Datagrams
            /\ [kind |-> "pk", id |-> id, pk |-> pk, ip |-> ip] \in Datagrams
        BY <1>1, <3>1 DEF Datagrams
      <3> QED BY <2>1, <3>2 DEF Sent, M!Outs
    <2>4. up' \in Seq(Datagrams)
      BY <1>1, <2>1, <2>3, QueueIs, Zenon
    <2> QED BY <1>1, <2>2, <2>4, DeviceStep
  <1>4. CASE Local \/ Tick \/ TickEarly
    <2>1. UNCHANGED <<id, pk, key_confirmed>>
      BY <1>4, DeviceKeeps, Zenon DEF Local, Tick, TickEarly
    <2>2. UNCHANGED <<up, down, ip>> /\ UNCHANGED vars
      BY <1>4 DEF Local, Tick, TickEarly, net, registry
    <2> QED BY <1>1, <2>1, <2>2, DeviceStep
  <1>5. CASE SyncKey
    <2>1. id' = id /\ pk' \in Pks /\ ~key_confirmed'
      BY <1>5, Zenon DEF SyncKey, M!SyncKey
    <2>2. UNCHANGED <<up, down, ip>> /\ UNCHANGED vars
      BY <1>5 DEF SyncKey, net, registry
    <2> QED BY <1>1, <2>1, <2>2, DeviceStep
  <1>6. CASE Move
    <2>1. UNCHANGED <<id, pk, key_confirmed, up, down>> /\ UNCHANGED vars /\ ip' \in Ips
      BY <1>6 DEF Move, mediator, registry
    <2> QED BY <1>1, <2>1, DeviceStep
  <1>7. CASE Receive
    <2> DEFINE m == Head(down)
    <2>1. m \in Answers /\ down' \in Seq(Answers)
      BY <1>1, <1>7, QueueIs, Zenon DEF Receive
    <2>2. m.res \in Replies /\ (m.res = "OK" => HasRow)
      BY <2>1 DEF Answers
    <2>3. UNCHANGED <<up, ip>> /\ UNCHANGED vars
      BY <1>7 DEF Receive, registry
    <2>4. /\ id' \in {id, id + 1} /\ id' \in Ids /\ pk' = pk
          /\ key_confirmed' => key_confirmed \/ HasRow
      <3> HIDE DEF m
      <3>1. CASE UNCHANGED mediator
        BY <1>1, <3>1 DEF mediator
      <3>2. CASE M!PeerResponse(host, TRUE) \/ M!PeerResponse(host, FALSE) \/ M!PkOther(host)
        BY <1>1, <3>2, DeviceKeeps, Zenon
      <3>3. CASE m.res = "OK" /\ M!PkOk(host)
        BY <1>1, <2>2, <3>3 DEF M!PkOk
      <3>4. CASE M!PkMismatch(host)
        BY <1>1, <3>4, DeviceDraws
      <3>5. \/ UNCHANGED mediator
            \/ CASE m.res = "request_pk"    -> M!PeerResponse(host, TRUE)
                 [] m.res = "registered"    -> M!PeerResponse(host, FALSE)
                 [] m.res = "OK"            -> M!PkOk(host)
                 [] m.res = "UUID_MISMATCH" -> M!PkMismatch(host)
                 [] m.res = "TOO_FREQUENT"  -> M!PkOther(host)
        BY <1>7, Zenon DEF Receive, m
      <3> QED BY <2>2, <3>1, <3>2, <3>3, <3>4, <3>5, Zenon DEF Replies
    <2> QED BY <1>1, <2>1, <2>3, <2>4, DeviceStep
  <1> QED BY <1>2, <1>3, <1>4, <1>5, <1>6, <1>7

\* What hbbs does keeps the invariant, if it says OK only to a device with a row.
LEMMA HbbsStep ==
    ASSUME RegistrationAssumption, DInv, [Next]_vars,
           UNCHANGED <<mediator, DbErrors, ip>>, up' \in Seq(Datagrams),
           \/ down' = down
           \/ \E res \in Results \union Replies, to \in Ips :
                  down' = down \o Answer(res, to) /\ (res = "OK" => HasRow'),
           udp'.op # "idle" => udp'.req.uuid = uuid /\ udp'.req.id \in 1 .. id
    PROVE  DInv'
  <1>1. UNCHANGED <<id, pk, key_confirmed, ip, DbErrors>>
    BY DEF mediator
  <1>2. /\ id \in Ids /\ pk \in Pks /\ ip \in Ips
        /\ down \in Seq(Answers)
    BY DEF DInv, InFlight
  <1>3. OwnersKept
    BY OwnersStep, Zenon DEF DInv
  <1>4. /\ HasRow => HasRow'
        /\ Datagrams \subseteq Datagrams' /\ Answers \subseteq Answers'
    BY <1>1, <1>2, <1>3, Grows, Zenon
  <1>5. up' \in Seq(Datagrams') /\ down \in Seq(Answers')
    BY <1>2, <1>4, QueueGrows, Zenon
  <1>6. down' \in Seq(Answers')
    <2>1. ASSUME NEW res \in Results \union Replies, NEW to \in Ips, res = "OK" => HasRow'
          PROVE  Answer(res, to) = << >> \/ \E x \in Answers' : Answer(res, to) = <<x>>
      <3>1. CASE res = "later"
        BY <3>1 DEF Answer
      <3>2. CASE res # "later"
        <4>1. res \in Replies
          BY <3>2 DEF Results, Replies
        <4>2. [res |-> res, ip |-> to] \in Answers'
          BY <2>1, <4>1 DEF Answers
        <4> QED BY <3>2, <4>2, Zenon DEF Answer
      <3> QED BY <3>1, <3>2
    <2> QED BY <1>5, <2>1, QueueIs, Zenon
  <1>7. key_confirmed' => HasRow'
    BY <1>1, <1>4, Zenon DEF DInv, ConfirmedHasRow
  <1> QED BY <1>1, <1>2, <1>5, <1>6, <1>7, SystemStep, Zenon

\* The decision about a request keeps the request, and OK at once means that the
\* entry is the device's (handle_udp).
LEMMA DecideReply ==
    ASSUME NEW e, NEW r, NEW res, Decide(e, r, res)
    PROVE  /\ udp'.op # "idle" => udp'.req = r
           /\ res = "OK" => e.uuid = r.uuid /\ e.uuid # None
  <1>1. udp' = Idle \/ udp' = [op |-> "write", req |-> r, guid |-> e.guid, attached |-> TRUE]
    BY Zenon DEF Decide
  <1>2. udp'.op # "idle" => udp'.req = r
    <2>1. /\ Idle.op = "idle"
          /\ [op |-> "write", req |-> r, guid |-> e.guid, attached |-> TRUE].req = r
      BY Zenon DEF Idle
    <2> QED BY <1>1, <2>1, Zenon
  <1>3. res = "OK" => ~Mismatch(e, r) /\ ~Changed(e, r)
    BY DEF Decide
  <1>4. res = "OK" => e.uuid = r.uuid /\ e.uuid # None
    BY <1>3, Zenon DEF Mismatch, Changed
  <1> QED BY <1>2, <1>4

\* An entry of the device that no write is under way for has the device's row.
LEMMA EntryHasRow ==
    ASSUME DInv, udp.op # "write", NEW d \in 1 .. id, d \in Ids, mem[d] # None, mem[d].uuid = uuid
    PROVE  HasRow
  <1>1. OwnerKnown
    BY Zenon DEF DInv, IInv
  <1>2. db[d] # None /\ mem[d].uuid = db[d].uuid
    BY <1>1, Zenon DEF OwnerKnown
  <1> QED BY <1>2, Zenon DEF HasRow

\* What a datagram of the device says.
LEMMA DatagramIs ==
    ASSUME RegistrationAssumption, DInv, up # << >>
    PROVE  LET m == Head(up)
           IN  /\ m.id \in 1 .. id /\ m.id \in Ids /\ m.ip \in Ips
               /\ m.kind = "pk" =>
                     [id |-> m.id, uuid |-> uuid, pk |-> m.pk, ip |-> m.ip] \in Requests
  <1> DEFINE m == Head(up)
  <1>0. id \in Ids
    BY Zenon DEF DInv, InFlight
  <1>1. 1 .. id \subseteq Ids
    BY ONLY <1>0, RegistrationAssumption DEF RegistrationAssumption
  <1>2. m \in Datagrams
    BY QueueIs, Zenon DEF DInv, InFlight
  <1>3. m.id \in 1 .. id /\ m.ip \in Ips /\ (m.kind = "pk" => m.pk \in Pks)
    BY <1>2 DEF Datagrams
  <1>4. uuid \in Uuids
    BY DEF RegistrationAssumption
  <1> HIDE DEF m
  <1>5. m.kind = "pk" => [id |-> m.id, uuid |-> uuid, pk |-> m.pk, ip |-> m.ip] \in Requests
    BY <1>1, <1>3, <1>4, Zenon DEF Requests
  <1> QED BY <1>1, <1>3, <1>5, Zenon DEF m

\* What hbbs does in the system is a step of the registry.
LEMMA HbbsIsNext ==
    ASSUME RegistrationAssumption, DInv,
           Arrive \/ Serve \/ Lookup \/ EntryExpires \/ WindowEnds \/ Crash
    PROVE  [Next]_vars
  <1>1. CASE Arrive
    <2> DEFINE m == Head(up)
               r == [id |-> m.id, uuid |-> uuid, pk |-> m.pk, ip |-> m.ip]
    <2>1. m.id \in Ids /\ m.ip \in Ips /\ (m.kind = "pk" => r \in Requests)
      BY <1>1, DatagramIs, Zenon DEF Arrive
    <2>2. /\ UNCHANGED DbErrors
          /\ \/ \E b \in BOOLEAN : RegisterPeer(m.id, m.ip, b)
             \/ m.kind = "pk" /\ \E res \in Results : RegisterPk(r, TRUE, res)
      BY <1>1, Zenon DEF Arrive
    <2> HIDE DEF m, r
    <2> QED BY <2>1, <2>2, Zenon DEF Next, Step
  <1>2. CASE Serve
    BY <1>2, Zenon DEF Serve, Next, Step
  <1>3. CASE Lookup \/ EntryExpires \/ WindowEnds \/ Crash
    <2>1. id \in Ids
      BY DEF DInv, InFlight
    <2> QED BY <1>3, <2>1, Zenon DEF Lookup, EntryExpires, WindowEnds, Crash, Next, Step
  <1> QED BY <1>1, <1>2, <1>3

\* A datagram of the device arrives at hbbs.
LEMMA ArriveStep ==
    ASSUME RegistrationAssumption, DInv, Arrive
    PROVE  DInv'
  <1> DEFINE m == Head(up)
             r == [id |-> m.id, uuid |-> uuid, pk |-> m.pk, ip |-> m.ip]
  <1>1. id \in Ids /\ UNCHANGED <<mediator, DbErrors, ip>> /\ up # << >>
    BY DEF DInv, InFlight, Arrive
  <1>2. up' \in Seq(Datagrams)
    BY QueueIs, Zenon DEF DInv, InFlight, Arrive
  <1>3. /\ m.id \in 1 .. id /\ m.id \in Ids /\ m.ip \in Ips
        /\ r.id = m.id /\ r.uuid = uuid
    BY <1>1, DatagramIs, Zenon
  <1>4. [Next]_vars
    BY HbbsIsNext
  <1> HIDE DEF m, r
  <1>5. ASSUME NEW b \in BOOLEAN, RegisterPeer(m.id, m.ip, b),
               down' = down \o Answer(IF b THEN "request_pk" ELSE "registered", m.ip)
        PROVE  DInv'
    <2>2. udp'.op = "idle"
      BY <1>5 DEF RegisterPeer, Idle
    <2> DEFINE res == IF b THEN "request_pk" ELSE "registered"
    <2>3. res \in Replies /\ res # "OK" /\ down' = down \o Answer(res, m.ip)
      BY <1>5 DEF Replies
    <2> HIDE DEF res
    <2> QED BY <1>1, <1>2, <1>3, <1>4, <2>2, <2>3, HbbsStep, Zenon
  <1>6. ASSUME NEW res \in Results, RegisterPk(r, TRUE, res), down' = down \o Answer(res, m.ip)
        PROVE  DInv'
    <2>4. udp = Idle /\ udp.op = "idle"
      BY <1>6 DEF RegisterPk, Idle
    <2>5. \/ res # "OK" /\ udp' = Idle
          \/ mem[r.id] # None /\ Decide(mem[r.id], r, res)
          \/ res # "OK" /\ udp' = [op |-> "miss", req |-> r]
      BY <1>6, <2>4, Zenon DEF RegisterPk
    <2>6. udp'.op # "idle" => udp'.req = r
      <3>1. Idle.op = "idle" /\ [op |-> "miss", req |-> r].req = r
        BY Zenon DEF Idle
      <3> QED BY <2>5, <3>1, DecideReply, Zenon
    <2>7. res = "OK" => HasRow
      BY <1>3, <2>4, <2>5, DecideReply, EntryHasRow, Zenon
    <2>8. HasRow => HasRow'
      <3>1. OwnersKept
        BY <1>4, OwnersStep, Zenon DEF DInv
      <3> QED BY <1>1, <3>1, Grows, Zenon DEF mediator
    <2> QED BY <1>1, <1>2, <1>3, <1>4, <1>6, <2>6, <2>7, <2>8, HbbsStep, Zenon
  <1> QED BY <1>5, <1>6, Zenon DEF Arrive, m, r

\* The UDP task of hbbs goes on with the request of the device.
LEMMA ServeStep ==
    ASSUME RegistrationAssumption, DInv, Serve
    PROVE  DInv'
  <1> DEFINE r == udp.req
  <1>1. IInv /\ TypeOK /\ ~DbErrors /\ OwnerKnown /\ HeldRows
    BY Zenon DEF DInv, IInv
  <1>2. id \in Ids /\ UNCHANGED <<mediator, DbErrors, ip>> /\ up' \in Seq(Datagrams)
    BY DEF DInv, InFlight, Serve
  <1>3. udp.op # "idle" => r.uuid = uuid /\ r.id \in 1 .. id
    BY Zenon DEF DInv, InFlight
  <1>4. udp.op \in {"miss", "loaded", "write"} => r \in Requests /\ r.id \in Ids /\ r.ip \in Ips
    BY <1>1, UdpTypes DEF Requests
  <1>5. CASE UdpDbRead /\ UNCHANGED down
    <2>1. [Next]_vars
      BY HbbsIsNext, Zenon
    <2>2. udp.op = "miss" /\ udp'.req = r
      <3>1. udp.op = "miss" /\ \E row : udp' = [op |-> "loaded", req |-> r, row |-> row]
        BY <1>5, Zenon DEF UdpDbRead
      <3>2. \A row : [op |-> "loaded", req |-> r, row |-> row].req = r
        BY Zenon
      <3> QED BY <3>1, <3>2, Zenon
    <2>3. udp'.req.uuid = uuid /\ udp'.req.id \in 1 .. id
      BY <1>3, <2>2
    <2> QED BY <1>2, <1>5, <2>1, <2>3, HbbsStep, Zenon
  <1>6. ASSUME NEW res \in Results, UdpLoad(res) \/ UdpDbWrite(res),
               down' = down \o Answer(res, r.ip)
        PROVE  DInv'
    <2>1. [Next]_vars
      BY HbbsIsNext, Zenon
    <2>2. udp.op \in {"loaded", "write"}
      BY <1>6, Zenon DEF UdpLoad, UdpDbWrite
    <2>3. r \in Requests /\ r.id \in Ids /\ r.ip \in Ips /\ r.uuid = uuid /\ r.id \in 1 .. id
      BY <1>3, <1>4, <2>2
    <2>4. OwnersKept
      BY <1>1, <2>1, OwnersStep, Zenon
    <2>5. HasRow => HasRow'
      BY <1>2, <2>4, Grows, Zenon DEF mediator
    <2>6. CASE UdpLoad(res)
      <3> DEFINE e == IF udp.row # None THEN FromRow(udp.row)
                      ELSE IF mem[r.id] # None THEN mem[r.id]
                      ELSE DefaultPeer
      <3>1. udp.op = "loaded" /\ Decide(e, r, res)
        BY <2>6, Zenon DEF UdpLoad
      <3>2. /\ udp'.op # "idle" => udp'.req = r
            /\ res = "OK" => e.uuid = uuid /\ e.uuid # None
        BY <2>3, <3>1, DecideReply, Zenon
      <3>3. ASSUME res = "OK" PROVE HasRow
        <4>1. CASE udp.row # None
          <5>1. FromRow(udp.row).uuid = udp.row.uuid
            BY DEF FromRow, DefaultPeer
          <5>2. db[r.id] # None /\ db[r.id].uuid = uuid
            BY <1>1, <3>1, <3>2, <3>3, <4>1, <5>1, Zenon DEF HeldRows
          <5> QED BY <2>3, <5>2, Zenon DEF HasRow
        <4>2. CASE udp.row = None /\ mem[r.id] # None
          BY <2>3, <3>1, <3>2, <3>3, <4>2, EntryHasRow
        <4>3. CASE udp.row = None /\ mem[r.id] = None
          BY <3>2, <3>3, <4>3 DEF DefaultPeer
        <4> QED BY <4>1, <4>2, <4>3
      <3> HIDE DEF e, r
      <3> QED BY <1>2, <1>6, <2>1, <2>3, <2>5, <3>2, <3>3, HbbsStep, Zenon
    <2>7. CASE UdpDbWrite(res)
      <3>1. udp.op = "write" /\ udp' = Idle
        BY <2>7, Zenon DEF UdpDbWrite
      <3>2. db'[r.id] # None /\ db'[r.id].uuid = uuid
        <4>1. CASE db[r.id] # None
          <5>1. db[r.id].uuid = r.uuid
            BY <1>1, <3>1, <4>1, Zenon DEF OwnerKnown
          <5> QED BY <2>3, <2>4, <4>1, <5>1, Zenon DEF OwnersKept
        <4>2. CASE db[r.id] = None
          <5>1. ~udp.guid
            BY <1>1, <3>1, <4>2, Zenon DEF HeldRows
          <5>2. db' = [db EXCEPT ![r.id] = [uuid |-> r.uuid, pk |-> r.pk, ip |-> r.ip]]
            BY <1>1, <2>7, <4>2, <5>1, Zenon DEF UdpDbWrite
          <5>3. [uuid |-> r.uuid, pk |-> r.pk, ip |-> r.ip] \in Rows
            BY <2>3 DEF Rows, Requests
          <5>4. db \in [Ids -> Rows \union {None}]
            BY <1>1 DEF TypeOK
          <5>5. db'[r.id] = [uuid |-> r.uuid, pk |-> r.pk, ip |-> r.ip]
            BY <2>3, <5>2, <5>4, Zenon
          <5>6. [uuid |-> r.uuid, pk |-> r.pk, ip |-> r.ip].uuid = r.uuid
            BY Zenon
          <5> QED BY <2>3, <5>3, <5>5, <5>6, RegistryAssumption, Zenon
        <4> QED BY <4>1, <4>2
      <3>3. HasRow'
        <4>1. r.id \in 1 .. id'
          BY <1>2, <2>3, Zenon DEF mediator
        <4> HIDE DEF r
        <4> QED BY <3>2, <4>1, Zenon DEF HasRow
      <3>4. udp'.op = "idle"
        BY <3>1 DEF Idle
      <3> HIDE DEF r
      <3> QED BY <1>2, <1>6, <2>1, <2>3, <3>3, <3>4, HbbsStep, Zenon
    <2> QED BY <1>6, <2>6, <2>7
  <1> QED BY <1>5, <1>6, Zenon DEF Serve, r

\* Lookups, time and a restart of hbbs.
LEMMA QuietStep ==
    ASSUME RegistrationAssumption, DInv, Lookup \/ EntryExpires \/ WindowEnds \/ Crash
    PROVE  DInv'
  <1>1. id \in Ids /\ UNCHANGED <<mediator, DbErrors, ip, up, down>> /\ up \in Seq(Datagrams)
    BY DEF DInv, InFlight, Lookup, EntryExpires, WindowEnds, Crash, net
  <1>2. [Next]_vars
    BY HbbsIsNext, Zenon
  <1>3. \/ udp' = Idle \/ udp' = udp
        \/ udp' = [udp EXCEPT !.attached = FALSE] /\ udp.op = "write"
    <2>1. CASE Lookup
      <3>1. PICK t \in Lookups : LookupMiss(t, id) \/ LookupDb(t) \/ LookupInsert(t)
        BY <2>1, Zenon DEF Lookup
      <3> QED BY <3>1, Zenon DEF LookupMiss, LookupDb, LookupInsert
    <2>2. CASE EntryExpires \/ WindowEnds
      BY <2>2, Zenon DEF EntryExpires, WindowEnds, Expire, Elapse
    <2>3. CASE Crash
      BY <2>3, Zenon DEF Crash, Restart
    <2> QED BY <2>1, <2>2, <2>3
  <1>4. udp'.op # "idle" => udp'.req = udp.req /\ udp.op # "idle"
    <2>1. CASE udp' = Idle \/ udp' = udp
      BY <2>1 DEF Idle
    <2>2. CASE udp' = [udp EXCEPT !.attached = FALSE] /\ udp.op = "write"
      <3>1. udp \in [op : {"write"}, req : Requests, guid : BOOLEAN, attached : BOOLEAN]
        BY <2>2, WriteIs, Zenon DEF DInv, IInv
      <3> QED BY <2>2, <3>1
    <2> QED BY <1>3, <2>1, <2>2
  <1>5. udp'.op # "idle" => udp'.req.uuid = uuid /\ udp'.req.id \in 1 .. id
    BY <1>4, Zenon DEF DInv, InFlight
  <1> QED BY <1>1, <1>2, <1>5, HbbsStep, Zenon

-----------------------------------------------------------------------------
\* The device and hbbs together keep the invariant, for every number of ids, of
\* lookups and of lost, late and overtaken datagrams, moves and crashes.
THEOREM SystemInductive ==
    ASSUME RegistrationAssumption
    PROVE  SystemSpec => []DInv
  <1>1. SystemInit => DInv
    <2> SUFFICES ASSUME SystemInit PROVE DInv
      OBVIOUS
    <2>1. /\ db = [i \in Ids |-> IF i \in Owned THEN OtherRow ELSE None]
          /\ mem = [i \in Ids |-> None] /\ udp = Idle /\ look = [t \in Lookups |-> Idle]
          /\ replaced = {} /\ DbErrors = FALSE
      BY DEF SystemInit, RegistryInit
    <2>2. OtherRow \in Rows /\ OtherRow # None /\ OtherRow.uuid = other
      <3>1. OtherRow \in Rows /\ OtherRow.uuid = other
        BY ONLY RegistrationAssumption DEF OtherRow, Rows, RegistrationAssumption
      <3> QED BY <3>1, RegistryAssumption, Zenon
    <2>3. TypeOK
      BY <2>1, <2>2, EmptyRegistry, Zenon DEF TypeOK
    <2>4. EntriesComplete /\ HeldRows /\ GuidHasRow /\ OwnerKnown
      BY <2>1, EmptyRegistry, Zenon
    <2>5. Stored
      BY <2>1, EmptyStored, Zenon
    <2>6. id = 1 /\ pk = FirstPk /\ key_confirmed = FALSE
      BY Zenon DEF SystemInit, M!Init
    <2>7. InFlight
      <3>1. id \in Ids /\ pk \in Pks /\ FirstIp \in Ips
        BY ONLY <2>6, RegistrationAssumption DEF RegistrationAssumption
      <3>2. Idle.op = "idle"
        BY DEF Idle
      <3>3. \A S : << >> \in Seq(S)
        OBVIOUS
      <3> QED BY <2>1, <3>1, <3>2, <3>3, Zenon DEF SystemInit, InFlight
    <2>8. OwnRowsOnly
      BY <2>1, <2>2, Zenon DEF OwnRowsOnly
    <2> QED BY <2>1, <2>3, <2>4, <2>5, <2>6, <2>7, <2>8, Zenon DEF DInv, IInv, ConfirmedHasRow
  <1>2. DInv /\ [SystemNext]_systemVars => DInv'
    <2> SUFFICES ASSUME DInv, [SystemNext]_systemVars PROVE DInv'
      OBVIOUS
    <2>1. CASE UNCHANGED systemVars
      <3>1. UNCHANGED <<id, pk, key_confirmed, up, down, ip>> /\ UNCHANGED vars
        BY <2>1, Zenon DEF systemVars, mediator, registry, net
      <3> QED BY <3>1, DeviceStep DEF DInv, InFlight
    <2> QED BY <2>1, DeviceSteps, ArriveStep, ServeStep, QuietStep, Zenon DEF SystemNext
  <1> QED BY <1>1, <1>2, PTL DEF SystemSpec

\* A device that takes its key for confirmed has a row at hbbs, whatever the network
\* does to its datagrams and however often hbbs restarts (handle_resp, update_pk).
THEOREM ConfirmedIsStored ==
    ASSUME RegistrationAssumption
    PROVE  SystemSpec => []ConfirmedHasRow
  <1>1. DInv => ConfirmedHasRow
    BY DEF DInv
  <1> QED BY <1>1, SystemInductive, PTL

\* The device takes no id from another one, and hbbs has no row for an id that is
\* not drawn yet (RegisterPk, handle_uuid_mismatch).
THEOREM OwnRows ==
    ASSUME RegistrationAssumption
    PROVE  SystemSpec => []OwnRowsOnly
  <1>1. DInv => OwnRowsOnly
    BY DEF DInv
  <1> QED BY <1>1, SystemInductive, PTL

\* With rows of another device in the table from the start, hbbs still agrees with
\* its table about owners and keys, and its online devices are addressed.
THEOREM SystemRegistry ==
    ASSUME RegistrationAssumption
    PROVE  SystemSpec => [](OnlineIsAddressed /\ MemoryKnowsOwner /\ KeyIsStored /\ GuidHasRow)
  <1>1. DInv => OnlineIsAddressed /\ MemoryKnowsOwner /\ GuidHasRow
    BY DEF DInv, IInv, EntriesComplete, OnlineIsAddressed, OwnerKnown, MemoryKnowsOwner
  <1>2. DInv => KeyIsStored
    BY DEF DInv, Stored, MapStored, KeyIsStored, Writes, AsInTable
  <1> QED BY <1>1, <1>2, SystemInductive, PTL

\* hbbs of the system is the registry: each step of the system is one of Registry or
\* leaves hbbs alone, and no row ever changes its owner.
THEOREM HbbsIsRegistry ==
    ASSUME RegistrationAssumption
    PROVE  SystemSpec => [][Next]_vars /\ OwnerIsForever
  <1>1. DInv /\ [SystemNext]_systemVars => [Next]_vars
    <2>1. ASSUME \/ UNCHANGED systemVars \/ Disturb \/ Send \/ Local
                 \/ Tick \/ TickEarly \/ SyncKey \/ Move \/ Receive
          PROVE  UNCHANGED vars
      BY <2>1, Zenon DEF systemVars, registry, Disturb, Send, Local, Tick, TickEarly, SyncKey, Move, Receive
    <2> QED BY <2>1, HbbsIsNext, Zenon DEF SystemNext
  <1>2. DInv /\ [Next]_vars => [OwnersKept]_db
    BY OwnersStep DEF DInv
  <1> QED BY <1>1, <1>2, SystemInductive, PTL DEF SystemSpec, OwnerIsForever

\* The device of the system is a mediator: each of its steps, the answers of hbbs
\* included, is one of Mediator, so what holds of every mediator holds of it.
THEOREM DeviceIsMediator ==
    ASSUME RegistrationAssumption
    PROVE  SystemSpec => M!Spec
  <1>1. SystemInit => M!Init
    BY DEF SystemInit
  <1>2. DInv /\ [SystemNext]_systemVars => [M!Next]_(M!vars)
    <2> SUFFICES ASSUME DInv, [SystemNext]_systemVars PROVE [M!Next]_(M!vars)
      OBVIOUS
    <2>1. UNCHANGED mediator => UNCHANGED M!vars
      BY Zenon DEF mediator, M!vars, M!loop, M!config, M!deploy
    <2>2. CASE UNCHANGED systemVars
      BY <2>1, <2>2 DEF systemVars
    <2>3. CASE Disturb \/ Move \/ Arrive \/ Serve \/ Lookup \/ EntryExpires \/ WindowEnds \/ Crash
      BY <2>1, <2>3, Zenon DEF Disturb, Move, Arrive, Serve, Lookup, EntryExpires, WindowEnds, Crash
    <2>4. CASE Send
      BY <2>4, Zenon DEF Send, M!Next, M!Work
    <2>5. CASE Local \/ Tick \/ TickEarly
      BY <2>5, Zenon DEF Local, Tick, TickEarly, M!Next, M!Timer, M!Work
    <2>6. CASE SyncKey
      BY <2>6, Zenon DEF SyncKey, M!Next
    <2>7. CASE Receive
      <3> DEFINE m == Head(down)
      <3>1. \/ UNCHANGED mediator
            \/ CASE m.res = "request_pk"    -> M!PeerResponse(host, TRUE)
                 [] m.res = "registered"    -> M!PeerResponse(host, FALSE)
                 [] m.res = "OK"            -> M!PkOk(host)
                 [] m.res = "UUID_MISMATCH" -> M!PkMismatch(host)
                 [] m.res = "TOO_FREQUENT"  -> M!PkOther(host)
        BY <2>7, Zenon DEF Receive
      <3>2. m \in Answers
        BY <2>7, QueueIs, Zenon DEF DInv, InFlight, Receive
      <3>3. m.res \in Replies
        BY <3>2 DEF Answers
      <3> HIDE DEF m
      <3>4. \/ UNCHANGED mediator
            \/ M!PeerResponse(host, TRUE) \/ M!PeerResponse(host, FALSE)
            \/ M!PkOk(host) \/ M!PkMismatch(host) \/ M!PkOther(host)
        BY <3>1, <3>3, Zenon DEF Replies
      <3> QED BY <2>1, <3>4, Zenon DEF M!Next, M!Response
    <2> QED BY <2>2, <2>3, <2>4, <2>5, <2>6, <2>7, Zenon DEF SystemNext
  <1> QED BY <1>1, <1>2, SystemInductive, PTL DEF SystemSpec, M!Spec
=============================================================================
