# A TLA+ verification of CodeDesk

CodeDesk is a remote desktop: devices register at a rendezvous server (`hbbs`),
a client asks `hbbs` for a device, the two meet directly or at a relay server
(`hbbr`), and the controlled side then feeds its connections from a set of
services and keeps terminals for them. This directory models the parts of it whose correctness depends on
interleavings, lost messages, crashes and timers. TLC checks them on small
instances, and TLAPS proves the safety properties that matter most for every
value of the constants. `PROJECT.json` is the index: components, runs, the
source lines behind every definition, hazards, findings, theorems.

    tlc -config Relay.cfg MCRelay             # a run
    tlapm Relay_proofs.tla                    # the proofs of a module

## 1. Inventory

### Modelled

| Part | State it keeps | Operations | What is hard about it |
|---|---|---|---|
| `hbbr` (`server/src/relay_server.rs`) | `PEERS`, `USAGE`, the lists of the operator, one task per socket | accept, handshake, request, insert, wake, copy, tick, end; console | lookup and insertion are two lock acquisitions; a sleeper clears whatever is under its uuid; hang-ups at any point |
| registry of `hbbs` (`peer.rs`, `database.rs`, the UDP handlers of `rendezvous_server.rs`) | the peer map, the table `peer` | RegisterPeer, RegisterPk, `PeerMap::get` of TCP tasks, expiry, restart | memory written before the database, lookups that insert what they read before an await, database errors, crashes |
| rendezvous mediator (`src/src/rendezvous_mediator.rs`) | server list, one task per server, confirmed keys, deployment throttle, UUID mismatch being solved | start_all, timers, register_peer, register_pk, answers, restart | tasks share flags read and written under separate locks; rounds end together |
| registration | mediator + registry + network | all of the above over UDP | loss, delay, reordering, moving devices, restarts, a taken id, a new key pair |
| brokering of a connection (`client.rs`, `rendezvous_server.rs`, `rendezvous_mediator.rs`) | `tcp_punch`, `LAST_MSG`, the connection of each client | punch hole and relay requests, forwarding, answers, retries, closing | sinks kept under an address, duplicated datagrams, late answers, shared addresses |
| services (`server/service.rs`, `server.rs`, `input_service.rs`) | `subscribes`, `new_subscribes`, `active`, state of the callback | add/remove connection, subscribe, the thread of `repeat`, snapshot, join | the thread and the server change the maps under separate short locks |
| terminal service (`server/terminal_service.rs`) | the registry of services, sessions with shell, reader, output buffer and channel, one polling thread per connection | attach, open, close, resize, read, poll, stop, cleanup, reap | a session survives its connection: threads of old and new connections share it; output is replayed, drained and polled by different threads; bytes of one character arrive in two reads |
| authorised connections and wake lock (`server/connection.rs`) | `AUTHED_CONNS`, the counts sent to the wake lock's thread, the option | authorise, drop, count, send, receive, timer | counts are read under one lock and sent under another |

The parts interact as follows. The mediator sends RegisterPeer/RegisterPk to the
registry and reacts to its answers (`Registration` composes the two). A client
reaches a device through `hbbs` (`Punch`), and the uuid on which client and
device agree there is the uuid under which they meet in `hbbr` (`Relay`). The
connection made in this way is then authorised (`WakeLock`) and added to the
`Server`, whose services it subscribes to (`Service`); a terminal connection
attaches to the terminal service of its service id (`Terminal`).

### Not modelled

`PROJECT.json` lists every part with its reason. In short: what a model could
still reach is in section 9; device I/O (capture, codecs, input injection, audio,
printers, clipboards of the operating systems), user interfaces, the HTTP side
(its server is not in the repository), cryptography and the vendored libraries
are out of reach or hold no protocol state.

## 2. Modules

| Module | Models |
|---|---|
| `Relay`, `MCRelay` | hbbr |
| `RelayPairing` | what hbbr promises its clients: pairs made and ended at once |
| `Registry`, `MCRegistry` | the registry of hbbs |
| `Mediator`, `MCMediator` | the mediator of a device; its servers may answer anything at any time |
| `Registration`, `MCRegistration` | a device (`INSTANCE Mediator`) and hbbs (`EXTENDS Registry`) with a network between them |
| `Punch`, `MCPunch` | client, hbbs and device from the request to the answer |
| `Service`, `MCService` | a service, its thread and its subscribers |
| `TerminalBuffer` | the output buffer and the UTF-8 accumulator as operators on sequences of bytes |
| `Terminal`, `MCTerminal` | the terminal service of one service id |
| `WakeLock`, `MCWakeLock` | the authorised connections and the wake lock |
| `*_proofs` | the theorems about `Relay`, `Registry` (with `Registration`), `Mediator`, `Punch`, `Service`, `Terminal` and the operators of `TerminalBuffer` |
| `Terminal_output` | on top of the two proof modules of the terminal: what is buffered and what clients are shown |

An `MC` module holds only the values its `.cfg` gives to the constants.
Operators such as `RequestNoRemove` or `SwapReplaces`, each placed before the
definition whose name it extends, are variants of that definition as a plausible
mistake would leave it. They are used by no specification. Replacing the
original by the variant makes TLC report the property `PROJECT.json` names: this
is how each property is known to depend on the code.

### Conventions

* One action per handler, or per part of a handler between two awaits or two
  lock acquisitions, because that is where other tasks get in. Sends and trailing
  writes of the same part belong to the same action.
* Time is nondeterministic: a timeout or a timer may fire at any moment, a rate
  limiting window may end at any moment. Every interleaving the real durations
  allow is included. Two durations of `Punch` are compared by the code's constants
  and kept as guards: hbbs closes a connection (30 s) only when the client no
  longer waits on it (3 + 6 + 9 s), and what a device remembers in `LAST_MSG` is old
  by the time a client tries again.
* Keys, uuids, ids and addresses are model values. An address is its ip where
  the code compares ips, and the whole socket address where it is a map key.
* Variables marked "history" in the modules record what a property needs and
  are read by no guard.

## 3. How state and actions correspond to the code

**Relay.** `task[c]` is the position of the task of socket `c` in `make_pair` and
`make_pair_`: `handshake` (websocket), `recv` (waiting for RequestRelay), `insert`
(between the lookup in `PEERS` and the insertion), `sleep` (30 s), `paired`,
`relay`, `closing`, `done`. `Request` includes the check of the key and the
removal of the first party; `Insert` drops the stream it overwrites; `Wake`
removes the entry under its uuid whoever it belongs to, as the code does. `Tick`
is the once-a-second branch of `relay`: it reads the lists, updates the usage
entry and ends the relay of a blocked address. `Forward` moves one chunk.

**Registry.** `mem[id]` is the `Peer` of an id (`guid`, `uuid`, `pk`, `info.ip`,
`socket_addr`, whether `last_reg_time` is within REG_TIMEOUT, the `reg_pk`
counter), `db[id]` its row. `udp` is where the one UDP task stands inside
RegisterPk: the read of the database in `get_or`, the insertion, the write of
`update_pk`. `look[t]` is a TCP task inside `PeerMap::get`. `DbErrors` says whether
the database may fail; it is fixed until the next restart.

**Mediator.** `phase` is the position of `start_all`, `task[h]` that of the task of
server `h`; the other variables carry the names of the statics and config fields
they model. `Tick`/`Register` are the timer branch, `PeerResponse`, `PkOk`,
`ConfirmHost`, `PkMismatch`, `PkNotDeployed`, `Withdraw`, `PkOther` the branches of
`handle_resp`, split where the code takes another lock.

**Registration.** `up` and `down` are the datagrams in flight. `Disturb` loses one
or lets it be overtaken, `TickEarly` lets a timer fire while an answer is still
on its way, `Move` changes the address, `Crash` restarts hbbs. The registry's actions are
those of `Registry`, taken with what a datagram carries; the table begins with the rows
of another device (`Owned`), and the database works throughout (`DbErrors` is FALSE).

**Punch.** `task`, `tcp_punch`, `mail` are hbbs, `cl`, `tries` the client's
connections, `handlers`, `LAST_MSG`, `uuids` the devices. Every datagram to a device
is handled in a task of its own: `Receive` reads `LAST_MSG`, `HandlePunchHole`
decides and answers. `Forward` stands for both ways a request reaches the device;
`Toggle` lets a mobile device expire from the registry and return.

**Service.** `pc` is the thread of `repeat` between two uses of the service's
lock: `top` (active), `subs` (has_subscribes), `callback`, `snapshot`, `send`, `swap`.
`subscribe` takes three steps, because `is_subed` reads the two maps one after the
other and the change is made later. The callback is `run_cursor`; `screen` is the
cursor of the system, `state` the one sent last.

**Terminal.** `reg` is the entry of the service id in `TERMINAL_SERVICES`, `svc` and
`ses` the objects it refers to, `loop[c]` the polling thread of connection `c`, `act[c]`
what a handler of `c` holds between `get_service` and the lock of the service. `Attach`
is `init_terminal_service`; `Open`, `Reopen`, `handle_close` and `handle_resize` are the
parts of `handle_action` under that lock; `Poll` is one session of `read_outputs` with
the two-phase resize that makes a shell redraw; `Read` and `ReadEof` are the reader thread with
`Utf8ChunkAccumulator`; `ChooseIdle` and `RemoveIdle` are the two halves of
`cleanup_inactive_services`; `Reap` is the waiting for killed shells. A byte is its
number and its role in UTF-8 (ASCII, newline, lead, continuation).

**WakeLock.** `conn[c]` is the position of a connection between `AuthedConnID::new` and
its `Drop`; `CountConns`, `CountRemotes` and `SendCounts` are the three lock acquisitions of
`check_wake_lock`; `Recv` is one round of the wake lock's thread.

## 4. Runs

| Run | Question | Instance | Distinct states |
|---|---|---|---|
| `relay` | do pairs match, exclude each other and leave no socket, stream or usage entry behind; does `Relay` implement `RelayPairing`; is every request settled, every relay of a client that hung up ended, every list change applied | 3 clients, 1 uuid, a right and a wrong key, 2 chunks from one client, operator commands | 109,068 |
| `registry_safety` | does an id keep its owner, do memory and database agree, is whoever is online addressable | 2 ids, 2 uuids, 2 keys, 2 addresses (one loopback), 2 lookups, restarts, with and without database errors | 177,106 |
| `mediator` | honest latency, throttle, tasks of one round only; does a round end together, does a new server list take effect | 2 servers of one prefix, one over UDP and one over TCP, lists and key change | 396,462 |
| `registration_live` | has a device that takes its key for confirmed a row at hbbs; does the device come (back) online and end with an id of its own | 1 server, first id taken, 1 lookup, 2 upsets | 364,024 |
| `registration_key` | violated, see section 7 | 1 upset, 1 new key | |
| `punch` | does a client get its own answer, once, and name the uuid its device names; are clients answered and sinks dropped | 3 connections to one mobile device, two of them with one address, 2 attempts of one client, 1 fault | 434,842 |
| `punch_dup` | violated, see section 7 | 2 connections, 1 device, 2 faults | |
| `service_live` | do the two maps stay consistent, is everybody served, does the thread end | 2 connections, 2 cursors | 42,002 |
| `service_snapshot` | violated, see section 7 | the same | |
| `terminal` | is the output continuous across a reconnection, are characters whole and buffers bounded, do sizes come back, are shells reaped and services removed | 11 workloads of up to 3 connections, 2 terminals, 2 sessions, 4 bytes | 157,354 |
| `terminal_idle` | violated, see section 7 | a client that only watches | |
| `wakelock` | violated, see section 7 | 2 connections, 1 change of the option | |

Why the bounds are enough for what is asked:

* Relay: the races are between two parties of a uuid and a third that asks under
  the same uuid. c2 and c3 share the usage key `ip:0`, as websocket clients behind a
  proxy do. Two chunks are the least that can change places. That entries of
  different uuids do not mix is left to the proofs, which have any number of them.
* Registry: two devices that claim one id, and a second id (shorter than six
  characters, which RegisterPk refuses) that must not be touched. Two lookups, so
  that one may insert what the other has made stale. The rate limit counter is
  modelled up to its real limit.
* Mediator: two hosts, because a round ends with its first task. MAX_FAILS1 has its real value 2 and MAX_FAILS2 is 3 instead of 4, so that
  each of the three outcomes of an overdue answer has a count that leads to it.
* Registration: `MaxUpsets = 2` takes any two of loss, overtaking, a late answer,
  a move, a restart and a new key. More upsets repeat these from states the runs
  already contain; the liveness properties speak about the time after them.
* Punch: two attempts instead of three; the fault budget is smaller than the
  number of attempts, which `AskedIsAnswered` states as its condition.
* Service: one connection in each map, and one that moves.
* Terminal: a workload fixes what shells print and what clients ask for in one
  behaviour, so that the instances of different questions do not multiply. The
  printing ones have two lines against MAX_BUFFER_LINES = 1, a line longer than
  MAX_OUTPUT_BUFFER_SIZE, characters of two and three bytes against reads of at
  most two bytes, and a stray continuation byte. A channel of one message is full at once.
  The others have shells that end, idle services, closing, ids given anew, a
  changing persistence, too many services, a third connection and failing resizes.
* WakeLock: one connection that leaves while another comes is what the race needs.

## 5. Fairness

* Relay: weak fairness of the tasks' own steps and of the timer of each. A task's own
  steps bring it nearer to its end, so that fairness of all of them together is
  fairness of each. Every wait in
  `make_pair_` and `relay` is bounded by a tokio timeout. The websocket handshake is
  not, so `RequestSettles` starts after it. Clients and the operator are not fair.
* Mediator: `start_all`, a started connection attempt, a handler in progress and a
  restart that has been requested go on. Strong fairness of `\E h : Exit(h)`, because
  a task tests SHOULD_EXIT at each timer tick and the other branches of its select
  cannot hold the timer off for ever. No connection has to fail.
* Registration: the device's timer, handlers on both sides, delivery of the
  datagrams that are not lost (losses are bounded by `MaxUpsets`), and the end of
  the rate limiting window.
* Punch: one weak fairness of the steps of handlers, tasks and client timeouts
  together. Each of these steps uses up a request, a message, an attempt or a
  connection, so none can be put off for ever by the others. Clients need not
  connect.
* Service: the calls of the server return and the thread is scheduled; strong
  fairness of `Callback`: the cursor can be read now and then.
* Terminal: handlers return, polling threads and the cleanup thread run, dropped
  sessions are destroyed, time passes, and a shell whose terminal is closed ends.
  Shells need not print or end by themselves, clients need not do anything.
* WakeLock: tasks, the once-a-second timer of a connection and the wake lock's
  thread run; nobody has to connect or to leave.

Most liveness properties have the form `[]<>P`: nothing bad lasts for ever. Where the
bad condition, once there, stays until the good one, this says the same as
leads-to.

`CHECK_DEADLOCK FALSE` stands where the system may come to rest: all clients of a
finite instance have been served, or the server is dropped.

## 6. Proofs

The proof modules prove `Spec => []IInv` for an inductive invariant and take the
properties from it; where one invariant is not enough, a second one is proved on
top of the first. The constants are arbitrary but for the named ASSUMEs of the
modules (special values are not members of the sets, bounds are naturals, a shell
prints a finite sequence of kinds of bytes).

* **Relay** (`TypeOK`, `EntryHasSleeper`, `PairsMatch`, `PairsExclusive`, `NoOrphan`).
  None of these is inductive alone. `Support` adds what the code relies on without
  saying so: a stream in `PEERS` is open, a task past its request has a uuid and the
  right key, and the task of a first party only sleeps or has ended while its
  stream is relayed, so it can no longer take the stream away. The step lemmas go
  by what an action does to the pairing (keep, insert, replace, link, end).
* **Registry** (`TypeOK`, `OnlineIsAddressed`, `MemoryKnowsOwner`, `GuidHasRow`, and the
  action property `OwnerIsForever`). `HeldRows` says that a row a task has read
  before an await still has the owner of the table when it is used; `OwnerKnown`,
  needed while the database works, that an id without a row has an entry only
  while the UDP task is about to insert the row of that owner.
* **Mediator** (`TypeOK`, `OnePkPerInterval`, `StatusIsHonest`, `TasksOfRound`).
  `WindowOpen` ties the counted RegisterPk to an interval that is still recent.
* **Service** (`OldOrNew`, `ClosedIsGone`, `SubscribedStays`, `NoOutdated`). `CallTrue`
  says that what a call has read of `subscribes` holds until it returns, because
  only calls remove entries and calls exclude each other; `NewInStep` that a new
  subscriber has been sent nothing, or exactly the state with which it is moved.
* **Relay, second part** (`UsageBacked`, `DeliveredInOrder`, `RefinesPairing`). `Links` says
  that a link is for life: who has been linked once is never linked again nor put into
  `PEERS`, and a link whose task has ended has both sockets closed. `Stream`
  strengthens the order of delivery by how much of the partner's data hbbr has read.
  For the refinement, `PhaseMap` and `PartnerMap` describe the mapped state of a client
  by cases, and one lemma per kind of step (before the request, of a sleeper, of a
  relay, the meeting itself) shows that it is a step of `RelayPairing` or a stutter.
* **Registry, second part** (`KeyIsStored`). `Stored` ties each row a task holds to the table
  (`RowsCurrent`) and each write under way to the entry it was begun for
  (`WriteCurrent`): without the latter nothing says that the write that ends stores
  what the map holds.
* **Registration** (`ConfirmedHasRow`, `OwnRowsOnly`, in the third part of `Registry_proofs`),
  with any number of ids, lookups, lost, late and overtaken datagrams, moves and
  crashes. `ConfirmedHasRow` relates the configuration of the device to the table of
  hbbs; what lies between them is in `InFlight`: a datagram carries an id the device has
  drawn, the request hbbs is working on is the device's, and an OK is on its way only
  if the row is there. That hbbs says OK only then needs the registry's own invariant:
  an entry with the device's uuid has the device's row unless a write is under way
  (`OwnerKnown`), and the OK of that write comes after it. The same steps show that the
  system implements its parts: `HbbsIsRegistry` (each step is one of `Registry` or leaves
  hbbs alone; `SystemRegistry` has the registry's invariants although the table is not
  empty at first) and `DeviceIsMediator` (the device is a `Mediator`, the answers of
  hbbs being among those a mediator is specified for). The theorems assume
  `RegistrationAssumption` (the ids are numbered, the two uuids differ), which
  `MCRegistration` evaluates; those about `Registry` alone do not use it.
* **Punch** (`SinkOfOpenTask`, `AnsweredOnce`, `AnswerIsMine`, `RelayAgrees`), with any
  number of clients, devices, attempts and faults. A sink belongs to a connection
  that has not been served (`SinkOK`), and every answer on its way tells the truth
  about the session its device went to (`AnswerOK`), also when it is late or doubled.
* **Terminal** (`SizeRestored`, and `HandedOver`, which is stated in the proof module).
  `Resizing` says, while no resize has failed, that a resize in progress has attempts
  left and that a watched session that is not being resized has its own size.
  `HandedOver` says that a child leaves its session only into the reaper's hands.
* **TerminalBuffer**. Lemmas about the operators, for every sequence of bytes: what
  `append`, `append_all`, `get_recent` and the accumulator's split return is a piece
  of what went in, ends where it ends, keeps the limits and cuts no character. The
  drain loops are recursive functions over the chunks. The library's induction
  theorems take an operator and cannot be used here, so `SetInduction` states
  induction for a set of numbers (it follows from the least element of its
  complement), and each induction defines the set of the lengths for which its claim
  holds.
* **Terminal output** (`BufferBounded`, `WholeChars`, `Continuous`), in three layers.
  `OutputInv` has the types of the byte sequences, the limits of each buffer, and,
  while a shell that prints text runs, that everything in the session is whole
  characters and that what the reader holds back begins with one; this gives the
  first two. `Links` says who refers to what: a service has a session under one
  terminal at most, and a polling thread holds a service and sessions only between
  the steps of one poll. `Flows` numbers the bytes: buffer and replay end at
  the same byte, the chunks in the channel go on from there to what the reader has
  sent. `Calm` says that while `plain` holds the threads of older connections are over,
  one service is in use, and what the client has been shown of a terminal ends where
  the buffer of its session ends. `Continuous` needs all of it: the numbers of `Flows`
  make a poll go on from the replay, and without `Calm` another thread could drain
  the channel in between. Most actions leave bytes alone; the step lemmas
  classify what an action does to a session (keep, reopen, poll) and treat each kind
  once.

`TypeOK` of `Relay`, `Registry` and `Mediator` is proved and is not checked by a run.

`GuidHasRow`, `OwnRowsOnly` and `HandedOver` are proved and not checked by a run either.

Only model-checked: the liveness properties (liveness under fairness is beyond the
prover), those of `Registration` included; every safety property of a passing run
is also proved. `WakeLock` has one
property, which is violated (section 7), and nothing to prove.

## 7. Findings

* `KeyIsReregistered` (`registration_key`). The comment of `CheckIfResendPk` says that
  a change of the key triggers a re-registration. A RegisterPkResponse does not
  name the key it is about: an OK for the old key that arrives after the change
  confirms the new key, which hbbs has not been sent.
* `DuplicatesSkipped` (`punch_dup`). `handle_punch_hole` is commented "skip duplicate
  punch hole messages", but reads and writes `LAST_MSG` under two locks in tasks
  that run concurrently; both copies may pass. `AnsweredOnce` still holds: the sink
  can be taken only once.
* `SnapshotSent` (`service_snapshot`). A snapshot is sent to the new subscribers
  under one lock and all new subscribers are moved under another; who subscribes
  in between is moved without having been sent it.
* `InactiveOnly` (`terminal_idle`). "Clean up inactive services" goes by the time of the
  client's last action. Output does not count, although each session records it: a
  client that watches a long job for an hour without typing loses its terminal.
* `KeptAwake` (`wakelock`). The option is to "keep host system awake during incoming
  sessions". A count of 0 read when one connection left may be sent after the 1
  of a connection that came; the wake lock is dropped and nothing brings it back
  while that connection stays alone.

Some observations are conditions of properties that hold. A restart between
reading the server list and clearing SHOULD_EXIT is lost (`missed` in
`RestartTakesEffect`). A lookup may put an older row over a live entry (`replaced` in
`KeyIsStored`). With a shared address, a client may be handed the answer to
another's request (`OwnAddress` in `AnswerIsMine`). And because `is_subed` reads two
maps under two locks, an unsubscription may return without effect while the thread
moves the entry; no text of the repository promises the contrary, so the model
only shows that subscriptions are not lost (`SubscribedStays`). When the thread of an
older connection is still polling a session, or a session is given another id, the
client may miss output or see it again: `Continuous` is about the other cases (`plain`).

## 8. What the models leave out

Relay: byte counts and rates (a limiter delays, it does not change the order), TLS
and the console's output. Registry: the IP blocker's counting (its verdict is an
input of RegisterPk), the connection pool. Mediator: DNS, NAT tests, the direct and
IPv6 listeners. Punch: the sockets opened after an answer, the lookup in the
registry (`online` stands for it), the licence key test. Service: the loop `run`,
the other callbacks, services added at run time. Terminal: what is typed into a
shell, the helper process of Windows, the texts of responses, the joins of `stop()`;
the lines of the buffer are one sequence of bytes. WakeLock: sessions, the quality
of service and the virtual displays that are restored with the wallpaper.

## 9. What could follow

Further modules, in this order: `RelayList` (the relay lists of hbbs, their check in
the background, the console), `Connection` (authorisation, sessions, permissions, the
connection manager), `VideoQos` and the wait for fetched frames in the video service,
`Jobs` (file transfer), `PrivacyMode`, `LoginFailure`, `IpBlocker`, `Kcp` (endpoint
states), the codec of `bytes_codec` as operators. Compositions: `Punch` with `Relay` on
the uuid; `Connection` with `Service`.
