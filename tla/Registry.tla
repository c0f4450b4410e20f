------------------------------ MODULE Registry ------------------------------
(***************************************************************************)
(* Registration of devices at hbbs, the rendezvous server: the peer map    *)
(* and its database (server/src/peer.rs, database.rs) and the handlers of  *)
(* RegisterPeer and RegisterPk (server/src/rendezvous_server.rs).          *)
(*                                                                         *)
(* One task handles all UDP messages, one after the other.  Every TCP      *)
(* connection is a task of its own that looks devices up (PeerMap::get).   *)
(* A lookup that misses the map reads the database and then inserts the    *)
(* row into the map without looking at the map again; the UDP task may     *)
(* have registered the device in between.  RegisterPk writes the map entry *)
(* first and the database afterwards, and ignores the result.              *)
(*                                                                         *)
(* An address is its ip; NoAddr is port 0.  Time is abstracted: an entry   *)
(* may expire, and a rate limiting window may end, at any moment.          *)
(***************************************************************************)
EXTENDS Naturals

CONSTANTS
    Ids, Uuids, Pks, Ips,
    ShortIds,       \* ids of less than six characters
    Loopback,       \* the loopback address, if it is one of Ips
    Lookups,        \* TCP tasks that look devices up
    Restarts,       \* may the server crash and restart
    None            \* empty uuid, pk or ip; no row, entry or address

MaxRegPk == 2       \* reg_pk.0 > 2 is too frequent

Rows == [uuid : Uuids, pk : Pks, ip : Ips]
Entries == [guid : BOOLEAN, uuid : Uuids \union {None}, pk : Pks \union {None},
            ip : Ips \union {None}, addr : Ips \union {None}, fresh : BOOLEAN,
            count : 0 .. MaxRegPk + 1, recent : BOOLEAN]
Requests == [id : Ids, uuid : Uuids, pk : Pks, ip : Ips]

ASSUME RegistryAssumption ==
    /\ None \notin Uuids \union Pks \union Ips
    /\ None \notin Rows \union Entries
    /\ Restarts \in BOOLEAN

VARIABLES
    db,         \* the table peer: id -> row
    mem,        \* PeerMap.map: id -> entry
    udp,        \* what the UDP task is doing
    look,       \* what each TCP task is doing
    DbErrors,   \* does the database fail now and then, until hbbs is restarted
    replaced    \* history: ids whose live entry a lookup has replaced by a row
                \* of the database since the last write of its key

vars == <<db, mem, udp, look, DbErrors, replaced>>

\* impl Default for Peer
DefaultPeer == [guid |-> FALSE, uuid |-> None, pk |-> None, ip |-> None,
                addr |-> None, fresh |-> FALSE, count |-> 0, recent |-> FALSE]

FromRowOnline(row) == [DefaultPeer EXCEPT !.guid = TRUE, !.uuid = row.uuid,
                                          !.pk = row.pk, !.ip = row.ip, !.fresh = TRUE]

\* PeerMap::get: the entry made of a database row; it has no address and is expired.
FromRow(row) == [DefaultPeer EXCEPT !.guid = TRUE, !.uuid = row.uuid,
                                    !.pk = row.pk, !.ip = row.ip]

Idle == [op |-> "idle"]

UdpStates ==
    {Idle} \union [op : {"miss"}, req : Requests]
           \union [op : {"loaded"}, req : Requests, row : Rows \union {None}]
           \union [op : {"write"}, req : Requests, guid : BOOLEAN, attached : BOOLEAN]

LookStates ==
    {Idle} \union [op : {"miss"}, id : Ids] \union [op : {"row"}, id : Ids, row : Rows]

Init ==
    /\ db = [i \in Ids |-> None]
    /\ mem = [i \in Ids |-> None]
    /\ udp = Idle
    /\ look = [t \in Lookups |-> Idle]
    /\ replaced = {}
    /\ DbErrors \in BOOLEAN

-----------------------------------------------------------------------------
(* RegisterPeer.                                                           *)

IpChange(e, ip) == ip # (IF e.addr # None THEN e.addr ELSE e.ip) /\ ip # Loopback

\* update_addr: must the device register its public key (again)?
RequestPk(id, ip) ==
    mem[id] = None \/ mem[id].pk = None \/ IpChange(mem[id], ip)

RegisterPeer(id, ip, request_pk) ==
    /\ udp = Idle
    /\ request_pk = RequestPk(id, ip)
    /\ mem' = IF request_pk THEN mem
              ELSE [mem EXCEPT ![id].addr = ip, ![id].fresh = TRUE]
    /\ UNCHANGED <<db, udp, look, replaced>>

-----------------------------------------------------------------------------
(* RegisterPk.                                                             *)

MismatchKeyOnly(e, r) == e.uuid # None /\ e.ip # r.ip /\ e.pk # r.pk

Mismatch(e, r) ==
    e.uuid # None /\ (e.uuid # r.uuid \/ (e.ip # r.ip /\ e.pk # r.pk))

TooFrequent(e) == e.recent /\ e.count > MaxRegPk

Changed(e, r) == e.uuid = None \/ e.pk # r.pk \/ e.ip # r.ip

Counted(e) == [e EXCEPT !.count = IF e.recent THEN @ + 1 ELSE 1, !.recent = TRUE]

\* handle_udp on the entry e: the checks, the rate limit, and the write to the
\* entry that update_pk starts with.  res is the reply, or "later" when the
\* database is still to be written.
Decide(e, r, res) ==
    \/ /\ Mismatch(e, r)
       /\ res = "UUID_MISMATCH"
       /\ mem' = [mem EXCEPT ![r.id] = e]
       /\ udp' = Idle
    \/ /\ ~Mismatch(e, r) /\ TooFrequent(e)
       /\ res = "TOO_FREQUENT"
       /\ mem' = [mem EXCEPT ![r.id] = e]
       /\ udp' = Idle
    \/ /\ ~Mismatch(e, r) /\ ~TooFrequent(e) /\ ~Changed(e, r)
       /\ res = "OK"
       /\ mem' = [mem EXCEPT ![r.id] = Counted(e)]
       /\ udp' = Idle
    \/ /\ ~Mismatch(e, r) /\ ~TooFrequent(e) /\ Changed(e, r)
       /\ res = "later"
       /\ mem' = [mem EXCEPT ![r.id] =
                     [Counted(e) EXCEPT !.addr = r.ip, !.uuid = r.uuid, !.pk = r.pk,
                                        !.fresh = TRUE, !.ip = r.ip]]
       /\ udp' = [op |-> "write", req |-> r, guid |-> e.guid, attached |-> TRUE]

\* handle_udp: a RegisterPk arrives; allowed is the answer of check_ip_blocker.
RegisterPk(r, allowed, res) ==
    /\ udp = Idle
    /\ \/ /\ r.id \in ShortIds
          /\ res = "UUID_MISMATCH"
          /\ UNCHANGED <<mem, udp>>
       \/ /\ r.id \notin ShortIds /\ ~allowed
          /\ res = "TOO_FREQUENT"
          /\ UNCHANGED <<mem, udp>>
       \/ /\ r.id \notin ShortIds /\ allowed
          /\ mem[r.id] # None
          /\ Decide(mem[r.id], r, res)
       \/ /\ r.id \notin ShortIds /\ allowed
          /\ mem[r.id] = None
          /\ res = "later"
          /\ udp' = [op |-> "miss", req |-> r]
          /\ UNCHANGED mem
    /\ UNCHANGED <<db, look, replaced>>

\* What select ... from peer returns; get treats an error as no row.
DbRead(id) == IF DbErrors THEN {db[id], None} ELSE {db[id]}

\* get, called by get_or: the map has no entry, the database is read.
UdpDbRead ==
    /\ udp.op = "miss"
    /\ \E row \in DbRead(udp.req.id) :
           udp' = [op |-> "loaded", req |-> udp.req, row |-> row]
    /\ UNCHANGED <<db, mem, look, replaced>>

\* get inserts the row; without one get_or looks at the map again and inserts a
\* default entry.
UdpLoad(res) ==
    /\ udp.op = "loaded"
    /\ LET id == udp.req.id
           e == IF udp.row # None THEN FromRow(udp.row)
                ELSE IF mem[id] # None THEN mem[id]
                ELSE DefaultPeer
       IN Decide(e, udp.req, res)
    /\ UNCHANGED <<db, look, replaced>>

UdpDbWriteIpOnly(res) ==
    LET r == udp.req IN
    /\ udp.op = "write"
    /\ res = "OK"
    /\ \/ /\ udp.guid
          /\ db' = [db EXCEPT ![r.id].ip = r.ip]
          /\ UNCHANGED mem
       \/ /\ ~udp.guid /\ db[r.id] = None
          /\ db' = [db EXCEPT ![r.id] = [uuid |-> r.uuid, pk |-> r.pk, ip |-> r.ip]]
          /\ mem' = IF udp.attached THEN [mem EXCEPT ![r.id].guid = TRUE] ELSE mem
    /\ udp' = Idle
    /\ replaced' = IF udp.attached THEN replaced \ {r.id} ELSE replaced
    /\ UNCHANGED look

UdpDbWriteReplacing(res) ==
    LET r == udp.req IN
    /\ udp.op = "write"
    /\ res = "OK"
    /\ db' = [db EXCEPT ![r.id] = [uuid |-> r.uuid, pk |-> r.pk, ip |-> r.ip]]
    /\ mem' = IF udp.attached THEN [mem EXCEPT ![r.id].guid = TRUE] ELSE mem
    /\ udp' = Idle
    /\ replaced' = IF udp.attached THEN replaced \ {r.id} ELSE replaced
    /\ UNCHANGED look

\* update_pk writes the database: a row is inserted when the entry has no guid,
\* which the unique index on id may refuse.  The reply is OK in any case.
UdpDbWrite(res) ==
    LET r == udp.req IN
    /\ udp.op = "write"
    /\ res = "OK"
    /\ \/ /\ udp.guid
          /\ db' = [db EXCEPT ![r.id].pk = r.pk, ![r.id].ip = r.ip]
          /\ UNCHANGED mem
       \/ /\ ~udp.guid /\ db[r.id] = None
          /\ db' = [db EXCEPT ![r.id] = [uuid |-> r.uuid, pk |-> r.pk, ip |-> r.ip]]
          /\ mem' = IF udp.attached THEN [mem EXCEPT ![r.id].guid = TRUE] ELSE mem
       \/ /\ DbErrors \/ (~udp.guid /\ db[r.id] # None)
          /\ UNCHANGED <<db, mem>>
    /\ udp' = Idle
    /\ replaced' = IF udp.attached THEN replaced \ {r.id} ELSE replaced
    /\ UNCHANGED look

-----------------------------------------------------------------------------
(* PeerMap::get in a TCP task (punch hole requests, get_pk).               *)

LookupMiss(t, id) ==
    /\ look[t].op = "idle"
    /\ mem[id] = None
    /\ look' = [look EXCEPT ![t] = [op |-> "miss", id |-> id]]
    /\ UNCHANGED <<db, mem, udp, replaced>>

LookupDb(t) ==
    /\ look[t].op = "miss"
    /\ \E row \in DbRead(look[t].id) :
           look' = [look EXCEPT ![t] =
                       IF row = None THEN Idle
                       ELSE [op |-> "row", id |-> look[t].id, row |-> row]]
    /\ UNCHANGED <<db, mem, udp, replaced>>

\* The row goes into the map whatever is there now; an entry the UDP task is
\* still working on is no longer the one in the map.
LookupInsert(t) ==
    LET id == look[t].id IN
    /\ look[t].op = "row"
    /\ mem' = [mem EXCEPT ![id] = FromRow(look[t].row)]
    /\ udp' = IF udp.op = "write" /\ udp.req.id = id
              THEN [udp EXCEPT !.attached = FALSE] ELSE udp
    /\ replaced' = IF mem[id] = None THEN replaced ELSE replaced \union {id}
    /\ look' = [look EXCEPT ![t] = Idle]
    /\ UNCHANGED db

-----------------------------------------------------------------------------
(* Time and crashes.                                                       *)

\* last_reg_time becomes older than REG_TIMEOUT.
Expire(id) ==
    /\ mem[id] # None /\ mem[id].fresh
    /\ mem' = [mem EXCEPT ![id].fresh = FALSE]
    /\ UNCHANGED <<db, udp, look, replaced>>

\* reg_pk.1 becomes older than six seconds.
Elapse(id) ==
    /\ mem[id] # None /\ mem[id].recent
    /\ mem' = [mem EXCEPT ![id].recent = FALSE]
    /\ UNCHANGED <<db, udp, look, replaced>>

\* hbbs exits at any point (also by test_hbbs) and is started again.
Restart ==
    /\ Restarts
    /\ mem' = [i \in Ids |-> None]
    /\ udp' = Idle
    /\ look' = [t \in Lookups |-> Idle]
    /\ replaced' = {}
    /\ DbErrors' \in BOOLEAN
    /\ UNCHANGED db

Results == {"OK", "UUID_MISMATCH", "TOO_FREQUENT", "later"}

Step ==
    \/ \E id \in Ids, ip \in Ips, b \in BOOLEAN : RegisterPeer(id, ip, b)
    \/ \E r \in Requests, ok \in BOOLEAN, res \in Results : RegisterPk(r, ok, res)
    \/ UdpDbRead
    \/ \E res \in Results : UdpLoad(res) \/ UdpDbWrite(res)
    \/ \E t \in Lookups : LookupDb(t) \/ LookupInsert(t) \/ \E id \in Ids : LookupMiss(t, id)
    \/ \E id \in Ids : Expire(id) \/ Elapse(id)

Next ==
    \/ Step /\ UNCHANGED DbErrors
    \/ Restart

Spec == Init /\ [][Next]_vars

-----------------------------------------------------------------------------
(* Properties.                                                             *)

\* Every variable of the registry has its type; the count of reg_pk included,
\* which the rate limit keeps at three.
TypeOK ==
    /\ db \in [Ids -> Rows \union {None}]
    /\ mem \in [Ids -> Entries \union {None}]
    /\ udp \in UdpStates
    /\ look \in [Lookups -> LookStates]
    /\ replaced \subseteq Ids /\ DbErrors \in BOOLEAN

\* A device that counts as online has registered its key, and its address is the
\* one it registered the key from, or the loopback address (update_addr,
\* update_pk): an entry a lookup loads from the database is never online.
OnlineIsAddressed ==
    \A id \in Ids : mem[id] # None /\ mem[id].fresh =>
        /\ mem[id].uuid # None /\ mem[id].pk # None
        /\ mem[id].addr # None
        /\ mem[id].addr \in {mem[id].ip, Loopback}

\* A step keeps every row and its owner.
OwnersKept ==
    \A id \in Ids : db[id] # None => db'[id] # None /\ db'[id].uuid = db[id].uuid

\* The uuid that owns an id never changes once it is in the database, whatever
\* fails, crashes or interleaves (RegisterPk, update_pk, insert_peer).
OwnerIsForever == [][OwnersKept]_db

\* As long as the database works, the entry of an id in memory has the owner the
\* database has, also while lookups replace entries (get, get_or, update_pk).
MemoryKnowsOwner ==
    ~DbErrors => \A id \in Ids :
        mem[id] # None /\ mem[id].uuid # None /\ db[id] # None => mem[id].uuid = db[id].uuid

\* As long as the database works, memory and database hold the same key when no
\* write is under way, unless a lookup has put an old row over a live entry.
KeyIsStored ==
    ~DbErrors => \A id \in Ids :
        mem[id] # None /\ mem[id].uuid # None /\ id \notin replaced
          /\ ~(udp.op = "write" /\ udp.req.id = id)
        => db[id] # None /\ mem[id].pk = db[id].pk /\ mem[id].ip = db[id].ip

\* An entry that claims a row has one: update_pk never updates a missing row.
GuidHasRow ==
    \A id \in Ids : mem[id] # None /\ mem[id].guid => db[id] # None
=============================================================================
