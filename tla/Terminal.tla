------------------------------ MODULE Terminal ------------------------------
(***************************************************************************)
(* The terminal service of a controlled device                             *)
(* (src/src/server/terminal_service.rs) under one service id: the global   *)
(* registry, the sessions with their shells and reader threads, one polling *)
(* thread per connection, the handlers a connection calls, and the cleanup *)
(* thread.  A client that lost its connection comes back under the same    *)
(* service id, so that the threads of several connections share a service. *)
(*                                                                         *)
(* Locks: a step is what a thread does while it holds one lock.  The input *)
(* of a shell, the Windows helper process and the texts of the responses   *)
(* are left out.                                                           *)
(***************************************************************************)
EXTENDS TerminalBuffer, Functions

CONSTANTS
    Conns,              \* connections, numbered in the order they are made
    Terminals,          \* terminal ids, a set of numbers
    Sessions,           \* TerminalSession objects, each with its shell; numbers
    Services,           \* PersistentTerminalService objects; numbers
    NoService, NoConn,
    Workloads,          \* what clients and shells do in one behaviour
    CHANNEL_BUFFER_SIZE, MAX_SIGWINCH_PHASE_ATTEMPTS,
    MaxRead             \* bytes one read of the PTY returns

ASSUME TerminalAssumption ==
    /\ Conns \subseteq Nat /\ Terminals \subseteq Nat
    /\ Sessions \subseteq Nat /\ Services \subseteq Nat
    /\ NoService \notin Services /\ NoConn \notin Conns
    /\ {CHANNEL_BUFFER_SIZE, MAX_SIGWINCH_PHASE_ATTEMPTS, MaxRead} \subseteq Nat \ {0}
    /\ \A w \in Workloads : w.prints \in Seq(Kinds)

VARIABLES
    load,       \* the workload: what is printed, which operations on which ids the
                \* connections ask for and how often, which events happen
    reg,        \* TERMINAL_SERVICES[service_id]
    svc,        \* the service objects
    ses,        \* the session objects
    proc,       \* the shell of a session: "none", "run", "exit", "reaped"
    tasks,      \* TERMINAL_TASKS, the shells that wait for their end
    conn,       \* connections: "new", "on", "gone"
    act,        \* the service a handler of the connection has got, and its action
    acts,       \* actions a connection has taken
    loop,       \* polling threads
    doomed,     \* cleanup_inactive_services has put the id in to_remove
    fails,      \* resizes that failed
    last,       \* the connection that attached last
    asked,      \* terminals the client of that connection asked for
    got,        \* the output that client has, per terminal
    plain       \* no older connection was still being served when it attached,
                \* and no session was given another id for it

vars == <<load, reg, svc, ses, proc, tasks, conn, act, acts, loop, doomed,
          fails, last, asked, got, plain>>

NoAct == [op |-> "none", svc |-> NoService, t |-> 0]
Thread(pc) == [pc |-> pc, svc |-> NoService, persistent |-> FALSE, todo |-> {},
               closed |-> {}, kept |-> <<>>]
Idle == [phase |-> "idle", retries |-> 0]
NewSession ==
    [active |-> TRUE, pending |-> <<>>, sigwinch |-> Idle, size |-> "rows",
     child |-> TRUE, told |-> FALSE, stopped |-> FALSE, reader |-> "run", read |-> 0,
     sent |-> 0, rem |-> <<>>, out |-> <<>>, buf |-> <<>>, recent |-> TRUE]
NewService(p) == [persistent |-> p, sync |-> FALSE, idle |-> FALSE, sessions |-> <<>>]

Init ==
    /\ load \in Workloads /\ reg = NoService
    /\ svc = [o \in Services |-> NewService(FALSE)]
    /\ ses = [s \in Sessions |-> NewSession]
    /\ proc = [s \in Sessions |-> "none"] /\ tasks = {}
    /\ conn = [c \in Conns |-> "new"] /\ act = [c \in Conns |-> NoAct]
    /\ acts = [c \in Conns |-> 0] /\ loop = [c \in Conns |-> Thread("none")]
    /\ doomed = FALSE /\ fails = 0
    /\ last = NoConn /\ asked = {} /\ got = [t \in Terminals |-> <<>>]
    /\ plain = TRUE

Without(f, t) == Restrict(f, DOMAIN f \ {t})
With(f, t, s) == [x \in DOMAIN f \union {t} |-> IF x = t THEN s ELSE f[x]]
Entries(o) == {<<t, svc[o].sessions[t]>> : t \in DOMAIN svc[o].sessions}
SessionsOf(o) == Range(svc[o].sessions)

\* Services and sessions that some thread or the registry still refers to.
LiveServices == {reg} \union {act[c].svc : c \in Conns} \union {loop[c].svc : c \in Conns}
Held(s) ==
    \/ \E o \in LiveServices \ {NoService} : s \in SessionsOf(o)
    \/ \E c \in Conns : \/ \E e \in loop[c].todo : e[2] = s
                        \/ s \in Range(loop[c].kept)

\* TerminalSession::stop: the channel and the PTY are closed, the threads end.
Stopped(x) ==
    [x EXCEPT !.active = FALSE, !.pending = <<>>, !.sigwinch = Idle, !.out = <<>>,
              !.reader = "none", !.rem = <<>>, !.child = FALSE, !.stopped = TRUE,
              !.size = "none", !.read = 0, !.recent = FALSE]

\* stop() of every session of S: a child that is still there is killed and
\* handed to the reaper.
StopAll(S) ==
    /\ ses' = [s \in Sessions |-> IF s \in S THEN Stopped(ses[s]) ELSE ses[s]]
    /\ proc' = [s \in Sessions |->
                  IF s \in S /\ ses[s].child /\ proc[s] = "run" THEN "exit" ELSE proc[s]]
    /\ tasks' = tasks \union {s \in S : ses[s].child}

\* remove_service: whatever the id stands for now.
remove_service ==
    /\ reg' = NoService
    /\ StopAll(IF reg = NoService THEN {} ELSE SessionsOf(reg))

-----------------------------------------------------------------------------
(* Connections.                                                            *)

IsNext(c) == conn[c] = "new" /\ c \in DOMAIN load.acts /\ \A d \in Conns : d < c => conn[d] # "new"

\* An object that no thread has in its hands.
FreshService == Min(Services \ LiveServices)

\* init_terminal_service: get_or_create_service with its reset_status, the new
\* polling thread and the subscription of the connection.
Attach(c, p) ==
    /\ IsNext(c) /\ p \in load.persistent
    /\ \E o \in Services :
         /\ o = IF reg # NoService THEN reg ELSE FreshService
         /\ reg' = o
         /\ svc' = [svc EXCEPT ![o] = [(IF reg = o THEN @ ELSE NewService(p))
                                          EXCEPT !.persistent = p, !.sync = TRUE]]
         /\ ses' = [s \in Sessions |->
                      IF reg = o /\ s \in SessionsOf(o)
                      THEN [ses[s] EXCEPT !.active = FALSE, !.pending = <<>>, !.sigwinch = Idle]
                      ELSE ses[s]]
    /\ conn' = [conn EXCEPT ![c] = "on"]
    /\ loop' = [loop EXCEPT ![c] = Thread("spawned")]
    /\ last' = c /\ asked' = {} /\ got' = [t \in Terminals |-> <<>>]
    /\ plain' = \A d \in Conns : loop[d].pc \in {"none", "end"}
    /\ UNCHANGED <<load, proc, tasks, act, acts, doomed, fails>>

\* MAX_SERVICES other services exist: the connection gets a thread and no service.
AttachRefused(c) ==
    /\ IsNext(c) /\ reg = NoService /\ "full" \in load.events
    /\ conn' = [conn EXCEPT ![c] = "on"]
    /\ loop' = [loop EXCEPT ![c] = Thread("spawned")]
    /\ last' = c /\ asked' = {} /\ got' = [t \in Terminals |-> <<>>]
    /\ plain' = \A d \in Conns : loop[d].pc \in {"none", "end"}
    /\ UNCHANGED <<load, reg, svc, ses, proc, tasks, act, acts, doomed, fails>>

\* The connection is dropped: its polling thread is told to end.
Disconnect(c) ==
    /\ conn[c] = "on" /\ act[c] = NoAct
    /\ conn' = [conn EXCEPT ![c] = "gone"]
    /\ UNCHANGED <<load, reg, svc, ses, proc, tasks, act, acts, loop, doomed, fails,
                   last, asked, got, plain>>

\* update_terminal_persistence, set_persistent.
SetPersistent(c, p) ==
    /\ conn[c] = "on" /\ act[c] = NoAct /\ acts[c] < load.acts[c]
    /\ reg # NoService /\ svc[reg].persistent # p /\ p \in load.persistent
    /\ svc' = [svc EXCEPT ![reg].persistent = p]
    /\ acts' = [acts EXCEPT ![c] = @ + 1]
    /\ UNCHANGED <<load, reg, ses, proc, tasks, conn, act, loop, doomed, fails,
                   last, asked, got, plain>>

\* handle_action up to the service's lock: get_service, update_activity.  The
\* client asks for a terminal once: it numbers its tabs upwards.
handle_action(c, op, t) ==
    /\ conn[c] = "on" /\ act[c] = NoAct /\ acts[c] < load.acts[c] /\ reg # NoService
    /\ op \in load.ops /\ t \in load.ids
    /\ c = last => (op = "open") = (t \notin asked)
    /\ asked' = IF c = last THEN asked \union {t} ELSE asked
    /\ act' = [act EXCEPT ![c] = [op |-> op, svc |-> reg, t |-> t]]
    /\ acts' = [acts EXCEPT ![c] = @ + 1]
    /\ svc' = [svc EXCEPT ![reg].idle = FALSE]
    /\ UNCHANGED <<load, reg, ses, proc, tasks, conn, loop, doomed, fails,
                   last, got, plain>>

Handling(c, op) == act[c].op = op /\ act' = [act EXCEPT ![c] = NoAct]

\* The sessions after a surviving one has taken the id that was asked for.
Remap(o, t) ==
    LET m == svc[o].sessions
    IN  IF t \notin DOMAIN m /\ svc[o].sync /\ m # <<>>
        THEN With(Without(m, Min(DOMAIN m)), t, m[Min(DOMAIN m)])
        ELSE m

\* Mutant: what is replayed was taken from the buffer before the backlog.
ReattachedStale(x) ==
    [x EXCEPT !.out = <<>>, !.buf = append_all(x.buf, x.out), !.active = TRUE,
              !.pending = get_recent(x.buf, DEFAULT_RECONNECT_BUFFER_BYTES),
              !.sigwinch = [phase |-> "temp", retries |-> MAX_SIGWINCH_PHASE_ATTEMPTS]]

\* handle_open on a terminal that exists: the backlog of the channel goes to the
\* buffer, what is replayed is the end of the buffer after that.
Reattached(x) ==
    LET buf == append_all(x.buf, x.out)
    IN  [x EXCEPT !.out = <<>>, !.buf = buf, !.active = TRUE,
                  !.pending = get_recent(buf, DEFAULT_RECONNECT_BUFFER_BYTES),
                  !.sigwinch = [phase |-> "temp", retries |-> MAX_SIGWINCH_PHASE_ATTEMPTS]]

Reopen(c) ==
    LET o == act[c].svc
        m == Remap(o, act[c].t)
    IN  /\ Handling(c, "open")
        /\ act[c].t \in DOMAIN m
        /\ svc' = [svc EXCEPT ![o].sessions = m, ![o].sync = FALSE]
        /\ \E x \in {Reattached(ses[m[act[c].t]])} : ses' = [ses EXCEPT ![m[act[c].t]] = x]
        /\ plain' = (plain /\ m = svc[o].sessions)
        /\ UNCHANGED <<load, reg, proc, tasks, conn, acts, loop, doomed, fails,
                       last, asked, got>>

\* handle_open of a new terminal: the PTY, the shell and the two threads.
Open(c) ==
    LET o == act[c].svc
    IN  /\ Handling(c, "open")
        /\ act[c].t \notin DOMAIN Remap(o, act[c].t)
        /\ \E s \in Sessions :
             /\ proc[s] = "none" /\ \A x \in Sessions : x < s => proc[x] # "none"
             /\ proc' = [proc EXCEPT ![s] = "run"]
             /\ svc' = [svc EXCEPT ![o].sessions = With(@, act[c].t, s), ![o].sync = FALSE]
        /\ UNCHANGED <<load, reg, ses, tasks, conn, acts, loop, doomed, fails,
                       last, asked, got, plain>>

\* handle_open: the PTY or the shell could not be made.
OpenFailed(c) ==
    /\ Handling(c, "open")
    /\ act[c].t \notin DOMAIN Remap(act[c].svc, act[c].t)
    /\ UNCHANGED <<load, reg, svc, ses, proc, tasks, conn, acts, loop, doomed, fails,
                   last, asked, got, plain>>

\* Mutant: the killed shell is not handed to the reaper.
CloseUnreaped(c) ==
    LET o == act[c].svc
        m == svc[o].sessions
        S == {m[x] : x \in {act[c].t} \cap DOMAIN m}
    IN  /\ Handling(c, "close")
        /\ svc' = [svc EXCEPT ![o].sessions = Without(@, act[c].t)]
        /\ ses' = [s \in Sessions |->
                     IF s \in S THEN [ses[s] EXCEPT !.child = FALSE] ELSE ses[s]]
        /\ proc' = [s \in Sessions |->
                     IF s \in S /\ proc[s] = "run" THEN "exit" ELSE proc[s]]
        /\ UNCHANGED <<load, reg, tasks, conn, acts, loop, doomed, fails,
                       last, asked, got, plain>>

\* handle_close: the session leaves the service, its shell is killed.
handle_close(c) ==
    LET o == act[c].svc
        m == svc[o].sessions
        S == {m[x] : x \in {act[c].t} \cap DOMAIN m}
        killed == {s \in S : ses[s].child}
    IN  /\ Handling(c, "close")
        /\ svc' = [svc EXCEPT ![o].sessions = Without(@, act[c].t)]
        /\ ses' = [s \in Sessions |->
                     IF s \in S THEN [ses[s] EXCEPT !.child = FALSE] ELSE ses[s]]
        /\ proc' = [s \in Sessions |->
                     IF s \in killed /\ proc[s] = "run" THEN "exit" ELSE proc[s]]
        /\ tasks' = tasks \union killed
        /\ UNCHANGED <<load, reg, conn, acts, loop, doomed, fails,
                       last, asked, got, plain>>

\* handle_resize: the PTY gets the size of the session, or the call fails.
handle_resize(c) ==
    LET o == act[c].svc
        m == svc[o].sessions
        S == {m[x] : x \in {act[c].t} \cap DOMAIN m}
    IN  /\ Handling(c, "resize")
        /\ \E failed \in BOOLEAN :
             /\ failed => S # {} /\ fails < load.fails
             /\ fails' = IF failed THEN fails + 1 ELSE fails
             /\ ses' = [s \in Sessions |->
                          IF s \notin S THEN ses[s]
                          ELSE [ses[s] EXCEPT !.recent = TRUE,
                                   !.size = IF failed \/ @ = "none" THEN @ ELSE "rows"]]
        /\ UNCHANGED <<load, reg, svc, proc, tasks, conn, acts, loop, doomed,
                       last, asked, got, plain>>

-----------------------------------------------------------------------------
(* The shell and the reader thread of a session.                           *)

\* try_send_output: numbered as it enters the channel; lost when that is full.
Send(x, data) ==
    IF data = <<>> \/ Len(x.out) = CHANNEL_BUFFER_SIZE THEN x
    ELSE [x EXCEPT !.out = Append(@, [i \in DOMAIN data |-> <<x.sent + i, data[i][2]>>]),
                   !.sent = @ + Len(data)]

\* The reader thread reads n bytes.
Read(s, n) ==
    LET x == ses[s]
        data == [i \in 1 .. n |-> <<0, load.prints[x.read + i]>>]
        r == push_chunk(x.rem, data)
    IN  /\ proc[s] \in {"run", "exit"} /\ x.reader = "run"
        /\ x.read + n <= Len(load.prints)
        /\ ses' = [ses EXCEPT ![s] = Send([x EXCEPT !.read = x.read + n, !.rem = r.remainder], r.data)]
        /\ UNCHANGED <<load, reg, svc, proc, tasks, conn, act, acts, loop, doomed, fails,
                       last, asked, got, plain>>

\* The reader thread finds the end of the output of a shell that has ended.
ReadEof(s) ==
    LET x == ses[s]
    IN  /\ proc[s] \in {"exit", "reaped"} /\ x.reader = "run"
        /\ ses' = [ses EXCEPT ![s] = Send([x EXCEPT !.reader = "done", !.rem = <<>>], x.rem)]
        /\ UNCHANGED <<load, reg, svc, proc, tasks, conn, act, acts, loop, doomed, fails,
                       last, asked, got, plain>>

\* The shell ends by itself.
Exit(s) ==
    /\ proc[s] = "run" /\ ("exit" \in load.events \/ ses[s].stopped)
    /\ proc' = [proc EXCEPT ![s] = "exit"]
    /\ UNCHANGED <<load, reg, svc, ses, tasks, conn, act, acts, loop, doomed, fails,
                   last, asked, got, plain>>

\* Drop for TerminalSession: nobody refers to the session any more.
DropSession(s) ==
    /\ proc[s] # "none" /\ ~ses[s].stopped /\ ~Held(s)
    /\ StopAll({s})
    /\ UNCHANGED <<load, reg, svc, conn, act, acts, loop, doomed, fails,
                   last, asked, got, plain>>
-----------------------------------------------------------------------------
(* The polling thread of a connection: run and read_outputs.               *)

At(c, pc) == loop[c].pc = pc
Goto(c, pc) == loop' = [loop EXCEPT ![c] = Thread(pc)]
LoopOnly == UNCHANGED <<load, reg, svc, ses, proc, tasks, conn, act, acts, doomed, fails,
                        last, asked, got, plain>>

\* GenericService::run calls run once it sees the subscription, and ends with the
\* connection: it may never have called it.
Enter(c) == At(c, "spawned") /\ Goto(c, IF conn[c] = "on" THEN "poll" ELSE "end") /\ LoopOnly

\* sp.ok(), then the flag and the sessions of the service.
Collect(c) ==
    /\ At(c, "poll") /\ conn[c] = "on" /\ reg # NoService /\ svc[reg].sessions # <<>>
    /\ loop' = [loop EXCEPT ![c] = [Thread("read") EXCEPT
                   !.svc = reg, !.persistent = svc[reg].persistent, !.todo = Entries(reg)]]
    /\ LoopOnly

\* read_outputs returns once every session is read and no ended one is left.
Onward(l) == IF l.todo = {} /\ l.closed = {} THEN Thread("poll") ELSE l

\* Mutant: the attempts are counted before the last one is made.
SigwinchGivesUp(x, ok) ==
    {[sigwinch |-> IF x.sigwinch.phase = "temp"
                   THEN [phase |-> "restore", retries |-> MAX_SIGWINCH_PHASE_ATTEMPTS] ELSE Idle,
      size |-> IF x.sigwinch.phase = "temp" THEN "temp"
               ELSE IF x.sigwinch.retries > 1 THEN "rows" ELSE x.size]}

\* One step of the two-phase resize of a reattached session: the phase and the size
\* it leaves.
Sigwinch(x, ok) ==
    LET phase == x.sigwinch.phase
        left == x.sigwinch.retries
        to(p, n, size) == {[sigwinch |-> [phase |-> p, retries |-> n], size |-> size]}
    IN  CASE phase = "idle" \/ left = 0 -> to("idle", 0, x.size)
          [] phase # "idle" /\ left > 0 /\ ~ok -> to(phase, left - 1, x.size)
          [] phase = "temp" /\ left > 0 /\ ok -> to("restore", MAX_SIGWINCH_PHASE_ATTEMPTS, "temp")
          [] phase = "restore" /\ left > 0 /\ ok -> to("idle", 0, "rows")

\* The shell has ended and nobody has been told.
Ended(s) ==
    LET x == ses[s] IN ~x.told /\ (x.reader = "done" \/ (x.child /\ proc[s] = "exit"))

\* The channel is drained into the buffer whether the session is active or not.
Drained(s) ==
    LET x == ses[s]
    IN  [x EXCEPT !.told = @ \/ Ended(s), !.out = <<>>, !.buf = append_all(x.buf, x.out)]

\* What the client of connection c is shown under terminal t.
Deliver(c, t, data) ==
    got' = IF c = last /\ conn[c] = "on" /\ t \in asked
           THEN [got EXCEPT ![t] = @ \o [i \in DOMAIN data |-> data[i][1]]] ELSE got

\* read_outputs on one session, under its lock.
Poll(c, e) ==
    LET s == e[2]
        x == ses[s]
        l == loop[c]
    IN  /\ At(c, "read") /\ e \in l.todo
        /\ loop' = [loop EXCEPT ![c] = Onward([l EXCEPT !.todo = l.todo \ {e},
                        !.closed = IF Ended(s) THEN l.closed \union {e[1]} ELSE l.closed])]
        /\ \E y \in {Drained(s)} :
             \/ /\ ~x.active
                /\ ses' = [ses EXCEPT ![s] = y]
                /\ UNCHANGED <<fails, got>>
             \/ /\ x.active
                /\ Deliver(c, e[1], x.pending \o Concat(x.out))
                /\ \E ok \in BOOLEAN :
                     /\ ok => x.size # "none" \/ x.sigwinch.retries = 0
                     /\ ~ok => x.sigwinch.retries > 0 /\ (x.size = "none" \/ fails < load.fails)
                     /\ fails' = IF ok \/ x.size = "none" THEN fails ELSE fails + 1
                     /\ \E w \in Sigwinch(x, ok) :
                          ses' = [ses EXCEPT ![s] =
                                    [y EXCEPT !.pending = <<>>, !.recent = y.recent \/ x.out # <<>>,
                                              !.sigwinch = w.sigwinch, !.size = w.size]]
        /\ UNCHANGED <<load, reg, svc, proc, tasks, conn, act, acts, doomed,
                       last, asked, plain>>

\* try_lock fails: another thread is in the session.
Skip(c, e) ==
    LET l == loop[c]
    IN  /\ At(c, "read") /\ e \in l.todo
        /\ loop' = [loop EXCEPT ![c] = Onward([l EXCEPT !.todo = l.todo \ {e}])]
        /\ LoopOnly

\* All sessions are read: those whose shell has ended are looked up again.
Reread(c) ==
    /\ At(c, "read") /\ loop[c].todo = {}
    /\ loop' = [loop EXCEPT ![c].pc = "clean", ![c].kept = svc[loop[c].svc].sessions]
    /\ LoopOnly

\* A terminal whose shell has ended leaves the service, by its id; the session
\* found under that id gives its child to the reaper.
Clean(c, t) ==
    LET l == loop[c]
        found == {l.kept[x] : x \in {t} \cap DOMAIN l.kept}
        gone == IF l.persistent THEN {s \in found : ses[s].told} ELSE found
    IN  /\ At(c, "clean") /\ t \in l.closed
        /\ svc' = [svc EXCEPT ![l.svc].sessions = IF gone = {} THEN @ ELSE Without(@, t)]
        /\ ses' = [s \in Sessions |->
                     IF s \in found THEN [ses[s] EXCEPT !.child = FALSE] ELSE ses[s]]
        /\ tasks' = tasks \union {s \in found : ses[s].child}
        /\ loop' = [loop EXCEPT ![c] = Onward([l EXCEPT !.closed = l.closed \ {t},
                                   !.kept = IF gone = {} THEN l.kept ELSE Without(l.kept, t)])]
        /\ UNCHANGED <<load, reg, proc, conn, act, acts, doomed, fails,
                       last, asked, got, plain>>

\* The loop ends with the connection: is the service to go?
Leave(c) ==
    /\ At(c, "poll") /\ conn[c] = "gone"
    /\ Goto(c, IF reg # NoService /\ ~svc[reg].persistent THEN "remove" ELSE "end")
    /\ LoopOnly

RemoveService(c) ==
    /\ At(c, "remove") /\ Goto(c, "end")
    /\ remove_service
    /\ UNCHANGED <<load, svc, conn, act, acts, doomed, fails, last, asked, got, plain>>

-----------------------------------------------------------------------------
(* The cleanup thread.                                                     *)

AllGone == \A c \in DOMAIN load.acts : conn[c] = "gone"

\* The time-out passes with no action on the service.
Age ==
    /\ reg # NoService /\ ~svc[reg].idle
    /\ "idle" \in load.events \/ AllGone
    /\ svc' = [svc EXCEPT ![reg].idle = TRUE]
    /\ ses' = [s \in Sessions |-> [ses[s] EXCEPT !.recent = FALSE]]
    /\ UNCHANGED <<load, reg, proc, tasks, conn, act, acts, loop, doomed, fails,
                   last, asked, got, plain>>

\* Mutant: only empty services are cleaned up.
ChooseEmpty ==
    /\ ~doomed /\ reg # NoService /\ svc[reg].idle /\ svc[reg].sessions = <<>>
    /\ doomed' = TRUE
    /\ UNCHANGED <<load, reg, svc, ses, proc, tasks, conn, act, acts, loop, fails,
                   last, asked, got, plain>>

\* cleanup_inactive_services, first half: the service is put on the list.
ChooseIdle ==
    /\ ~doomed /\ reg # NoService /\ svc[reg].idle
    /\ svc[reg].persistent => svc[reg].sessions = <<>>
    /\ doomed' = TRUE
    /\ UNCHANGED <<load, reg, svc, ses, proc, tasks, conn, act, acts, loop, fails,
                   last, asked, got, plain>>

\* Second half, after the registry was unlocked: the id is removed.
RemoveIdle ==
    /\ doomed /\ doomed' = FALSE
    /\ remove_service
    /\ UNCHANGED <<load, svc, conn, act, acts, loop, fails, last, asked, got, plain>>

\* check_zombie_terminals.
Reap(s) ==
    /\ s \in tasks /\ proc[s] = "exit"
    /\ tasks' = tasks \ {s}
    /\ proc' = [proc EXCEPT ![s] = "reaped"]
    /\ UNCHANGED <<load, reg, svc, ses, conn, act, acts, loop, doomed, fails,
                   last, asked, got, plain>>

LoopStep(c) ==
    \/ Enter(c) \/ Collect(c) \/ Reread(c) \/ Leave(c) \/ RemoveService(c)
    \/ \E t \in Terminals : Clean(c, t)
    \/ \E e \in loop[c].todo : Skip(c, e) \/ Poll(c, e)

Handle(c) == Reopen(c) \/ Open(c) \/ OpenFailed(c) \/ handle_close(c) \/ handle_resize(c)

\* What the cleanup thread does in turn.
CleanupStep == ChooseIdle \/ RemoveIdle \/ \E s \in Sessions : Reap(s)

Next ==
    \/ \E c \in Conns :
         \/ \E p \in BOOLEAN : Attach(c, p) \/ SetPersistent(c, p)
         \/ AttachRefused(c) \/ Disconnect(c)
         \/ \E op \in {"open", "close", "resize"}, t \in Terminals : handle_action(c, op, t)
         \/ Handle(c) \/ LoopStep(c)
    \/ \E s \in Sessions :
         \/ \E n \in 1 .. MaxRead : Read(s, n)
         \/ ReadEof(s) \/ Exit(s) \/ DropSession(s)
    \/ Age \/ CleanupStep

Spec == Init /\ [][Next]_vars

\* Handlers return and sessions are dropped, the polling threads and the cleanup
\* thread are scheduled, time passes, and a shell whose terminal is closed ends.
FairSpec ==
    /\ Spec
    /\ \A c \in Conns : WF_vars(Handle(c)) /\ WF_vars(LoopStep(c))
    /\ WF_vars(CleanupStep) /\ WF_vars(Age)
    /\ WF_vars(\E s \in Sessions : DropSession(s))
    /\ WF_vars(\E s \in Sessions : ses[s].stopped /\ Exit(s))

-----------------------------------------------------------------------------
(* Properties.                                                             *)

\* A client that attached when no older connection was still being served is shown
\* the output of a terminal in order, with no byte twice and, from the first byte on,
\* none missing: nothing that reached the channel falls between the replayed end of
\* the buffer, the backlog that handle_open drains and what read_outputs sends.
Continuous ==
    plain => \A t \in Terminals :
        \A i \in 1 .. Len(got[t]) - 1 : got[t][i + 1] = got[t][i] + 1

\* No message ends or begins inside a character, in the channel or in a replay, as
\* long as the shell is there to complete what it prints.
WholeChars ==
    \A s \in Sessions :
        /\ ses[s].reader = "run"
        /\ IsUtf8([i \in DOMAIN load.prints |-> <<i, load.prints[i]>>])
        => /\ IsUtf8(ses[s].pending)
           /\ \A i \in DOMAIN ses[s].out : IsUtf8(ses[s].out[i])

\* OutputBuffer keeps its limits but for the line that is still being written:
\* append does not trim before that line ends.
BufferBounded ==
    \A s \in Sessions :
        LET b == ses[s].buf
            whole == IF last_line_incomplete(b) THEN Max(LineStarts(b)) ELSE Len(b)
        IN  /\ whole <= MAX_OUTPUT_BUFFER_SIZE
            /\ Cardinality(LineStarts(b)) <= MAX_BUFFER_LINES

\* A session that a client watches is back at its own size once the two resizes of
\* reattaching are over, whatever connection was lost between them.
SizeRestored ==
    \A s \in Sessions :
        fails = 0 /\ ses[s].active /\ ses[s].sigwinch = Idle => ses[s].size # "temp"

\* A session that no service and no thread refers to has its shell killed and
\* waited for, however it was lost.
ShellsReaped ==
    \A s \in Sessions : []<>(proc[s] # "none" /\ ~Held(s) => proc[s] = "reaped")

\* When the connections are gone a service that is not persistent goes: by the
\* loop that ends, or by the cleanup if that loop never ran.
ServiceGoes ==
    []<>(AllGone => reg = NoService \/ svc[reg].persistent)

\* "Clean up inactive services": the cleanup does not end a service with a terminal
\* whose output went to a connected client within the time-out.
InactiveOnly ==
    [][RemoveIdle /\ reg # NoService =>
          ~ \E s \in SessionsOf(reg) : ses[s].active /\ ses[s].recent]_vars
=============================================================================
