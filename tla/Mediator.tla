------------------------------ MODULE Mediator ------------------------------
(***************************************************************************)
(* The rendezvous mediator of a device (src/src/rendezvous_mediator.rs):   *)
(* start_all runs one task per rendezvous server, again and again; a task  *)
(* keeps the device registered at its server (start_udp, start_tcp) and    *)
(* handles the answers (handle_resp).  The tasks share the configuration   *)
(* (id, key pair, which keys are confirmed), the host whose UUID_MISMATCH  *)
(* is being solved, and the wait for deployment.                           *)
(*                                                                         *)
(* The servers are open: any answer may arrive at any time.  Timers may    *)
(* fire at any moment.  out is what an action sends: a RegisterPeer, a     *)
(* RegisterPk, or nothing.                                                 *)
(***************************************************************************)
EXTENDS Integers, FiniteSets

CONSTANTS
    Hosts,
    Prefix,         \* host -> its prefix, under which its key is confirmed
    Configs,        \* server lists the options may hold; {} is stop-service
    FirstConfig,
    UseTcp,         \* host -> start_tcp (proxy, websocket or UDP disabled) or start_udp
    Pks, FirstPk,
    MaxFails1, MaxFails2,   \* MAX_FAILS1 and MAX_FAILS2, 2 and 4 in the code
    MaxId,          \* bound on the ids update_id draws
    MaxChanges,     \* bound on changes of the options and of the key pair
    NoHost

Prefixes == {Prefix[h] : h \in Hosts}

ASSUME MediatorAssumption ==
    /\ NoHost \notin Hosts
    /\ Configs \subseteq SUBSET Hosts /\ FirstConfig \in Configs
    /\ UseTcp \in [Hosts -> BOOLEAN]
    /\ FirstPk \in Pks
    /\ MaxFails1 \in Nat \ {0} /\ MaxFails2 \in Nat /\ MaxFails1 <= MaxFails2
    /\ MaxId \in Nat \ {0} /\ MaxChanges \in Nat

VARIABLES
    phase,          \* start_all: sleeping, about to clear the flags, joining the tasks
    conf,           \* the option rendezvous-servers
    used,           \* the servers start_all has read
    restarting,     \* a changed option whose restart() is still to come
    SHOULD_EXIT,
    task,           \* of each host: where its task is
    pending,        \* last_register_sent is Some
    fails,
    status,         \* ONLINE: 1 latency known, 0 connecting or unknown, -1 failing
    key_confirmed, host_confirmed,
    id, pk,
    SENT_REGISTER_PK,
    solving,        \* SOLVING_PK_MISMATCH
    NEEDS_DEPLOY,
    lastND,         \* LAST_NOT_DEPLOYED_REGISTER: none, recent or old
    burst,          \* history: RegisterPk sent in this deployment interval
    missed,         \* history: a restart came between the read and the clearing
    changes         \* changes made so far

config == <<key_confirmed, host_confirmed, id, pk>>
loop == <<phase, conf, used, restarting, missed, changes>>
deploy == <<NEEDS_DEPLOY, lastND, burst>>
vars == <<loop, SHOULD_EXIT, task, pending, fails, status, config, SENT_REGISTER_PK,
          solving, deploy>>

Init ==
    /\ phase = "pause" /\ conf = FirstConfig /\ used = {} /\ restarting = FALSE
    /\ SHOULD_EXIT = FALSE
    /\ task = [h \in Hosts |-> "off"]
    /\ pending = [h \in Hosts |-> FALSE]
    /\ fails = [h \in Hosts |-> 0]
    /\ status = [h \in Hosts |-> 0]
    /\ key_confirmed = FALSE /\ host_confirmed = [p \in Prefixes |-> FALSE]
    /\ id = 1 /\ pk = FirstPk /\ SENT_REGISTER_PK = FALSE
    /\ solving = NoHost
    /\ NEEDS_DEPLOY = FALSE /\ lastND = "none" /\ burst = 0
    /\ missed = FALSE /\ changes = 0

-----------------------------------------------------------------------------
(* start_all.                                                              *)

ReadServersOnce ==
    /\ phase = "pause"
    /\ solving' = NoHost
    /\ used' = IF used = {} THEN conf ELSE used
    /\ phase' = IF conf = {} THEN "pause" ELSE "read"
    /\ missed' = FALSE
    /\ UNCHANGED <<conf, restarting, changes, SHOULD_EXIT, task, pending, fails, status,
                   config, SENT_REGISTER_PK, deploy>>

\* A round begins: the mismatch is forgotten and the server list is read.
ReadServers ==
    /\ phase = "pause"
    /\ solving' = NoHost
    /\ used' = conf
    /\ phase' = IF conf = {} THEN "pause" ELSE "read"
    /\ missed' = FALSE
    /\ UNCHANGED <<conf, restarting, changes, SHOULD_EXIT, task, pending, fails, status,
                   config, SENT_REGISTER_PK, deploy>>

\* SHOULD_EXIT is cleared and the tasks are spawned.
Spawn ==
    /\ phase = "read"
    /\ phase' = "run"
    /\ SHOULD_EXIT' = FALSE
    /\ missed' = (used # conf /\ ~restarting)
    /\ task' = [h \in Hosts |-> IF h \in used THEN "connect" ELSE "off"]
    /\ pending' = [h \in Hosts |-> FALSE]
    /\ fails' = [h \in Hosts |-> 0]
    /\ UNCHANGED <<conf, used, restarting, changes, status, config, SENT_REGISTER_PK,
                   solving, deploy>>

JoinAny ==
    /\ phase = "run" /\ \E h \in used : task[h] = "off"
    /\ phase' = "pause"
    /\ status' = [h \in Hosts |-> 0]
    /\ UNCHANGED <<conf, used, restarting, missed, changes, SHOULD_EXIT, task, pending,
                   fails, config, SENT_REGISTER_PK, solving, deploy>>

\* join_all returns when every task has ended; reset_online.
Join ==
    /\ phase = "run" /\ \A h \in Hosts : task[h] = "off"
    /\ phase' = "pause"
    /\ status' = [h \in Hosts |-> 0]
    /\ UNCHANGED <<conf, used, restarting, missed, changes, SHOULD_EXIT, task, pending,
                   fails, config, SENT_REGISTER_PK, solving, deploy>>

\* An option is written; the restart() for it comes when the writer is done.
SetOption(c) ==
    /\ changes < MaxChanges /\ c # conf
    /\ conf' = c /\ restarting' = TRUE /\ changes' = changes + 1
    /\ UNCHANGED <<phase, used, missed, SHOULD_EXIT, task, pending, fails, status, config,
                   SENT_REGISTER_PK, solving, deploy>>

restart ==
    /\ restarting
    /\ restarting' = FALSE
    /\ SHOULD_EXIT' = TRUE
    /\ UNCHANGED <<phase, conf, used, missed, changes, task, pending, fails, status, config,
                   SENT_REGISTER_PK, solving, deploy>>

-----------------------------------------------------------------------------
(* Registering.                                                            *)

Confirmed(h) == key_confirmed /\ host_confirmed[Prefix[h]]

\* Config::set_key_confirmed: FALSE also forgets the hosts, unless it is FALSE already.
SetKeyConfirmed(v) ==
    /\ key_confirmed' = v
    /\ host_confirmed' = IF key_confirmed /\ ~v THEN [p \in Prefixes |-> FALSE]
                         ELSE host_confirmed

deploy_register_throttled == NEEDS_DEPLOY /\ lastND = "recent"

register_pkUnlocked(out) ==
    /\ out = "pk"
    /\ lastND' = IF NEEDS_DEPLOY THEN "recent" ELSE "none"
    /\ burst' = IF NEEDS_DEPLOY THEN burst + 1 ELSE burst
    /\ SENT_REGISTER_PK' = TRUE
    /\ UNCHANGED NEEDS_DEPLOY

\* register_pk: while the device awaits its deployment, once per interval.
register_pk(out) ==
    /\ out = IF deploy_register_throttled THEN "none" ELSE "pk"
    /\ lastND' = IF NEEDS_DEPLOY THEN "recent" ELSE "none"
    /\ burst' = IF NEEDS_DEPLOY /\ out = "pk" THEN burst + 1 ELSE burst
    /\ SENT_REGISTER_PK' = (SENT_REGISTER_PK \/ out = "pk")
    /\ UNCHANGED NEEDS_DEPLOY

\* register_peer: silent while another host solves its mismatch.
register_peer(h, out) ==
    \/ /\ solving \notin {NoHost, h}
       /\ out = "none"
       /\ UNCHANGED <<deploy, SENT_REGISTER_PK>>
    \/ /\ solving \in {NoHost, h} /\ ~Confirmed(h)
       /\ register_pk(out)
    \/ /\ solving \in {NoHost, h} /\ Confirmed(h)
       /\ out = "peer"
       /\ UNCHANGED <<deploy, SENT_REGISTER_PK>>

-----------------------------------------------------------------------------
(* The task of a host.                                                     *)

\* new_udp_for or connect_tcp succeeds; start_tcp does not trust an old confirmation.
Connect(h) ==
    /\ task[h] = "connect"
    /\ task' = [task EXCEPT ![h] = "wait"]
    /\ host_confirmed' = IF UseTcp[h] THEN [host_confirmed EXCEPT ![Prefix[h]] = FALSE]
                         ELSE host_confirmed
    /\ UNCHANGED <<loop, SHOULD_EXIT, pending, fails, status, key_confirmed, id, pk,
                   SENT_REGISTER_PK, solving, deploy>>

FailAlone(h) ==
    /\ task[h] \in {"connect", "wait", "register", "send"}
    /\ task' = [task EXCEPT ![h] = "off"]
    /\ UNCHANGED <<loop, SHOULD_EXIT, pending, fails, status, config, SENT_REGISTER_PK,
                   solving, deploy>>

\* Connecting, receiving, rebinding or sending fails, the server hangs up, or
\* keep_alive runs out: the task ends, and with it the others.  register_pk has
\* started its interval when the sending fails.
Fail(h) ==
    /\ task[h] \in {"connect", "wait", "register", "send"}
    /\ task' = [task EXCEPT ![h] = "off"]
    /\ SHOULD_EXIT' = TRUE
    /\ \/ UNCHANGED lastND
       \/ task[h] \in {"register", "send"} /\ lastND' = IF NEEDS_DEPLOY THEN "recent" ELSE "none"
    /\ UNCHANGED <<loop, pending, fails, status, config, SENT_REGISTER_PK, solving,
                   NEEDS_DEPLOY, burst>>

\* The timer ticks and the task breaks out of its loop.
Exit(h) ==
    /\ task[h] = "wait" /\ SHOULD_EXIT
    /\ task' = [task EXCEPT ![h] = "off"]
    /\ UNCHANGED <<loop, SHOULD_EXIT, pending, fails, status, config, SENT_REGISTER_PK,
                   solving, deploy>>

StatusAfterLate(n, old) ==
    CASE n >= MaxFails2 -> -1 [] n > MaxFails1 /\ n < MaxFails2 -> 0 [] n <= MaxFails1 -> old

\* What ONLINE says of a host after n overdue answers in a row.
StatusAfter(n, old) ==
    CASE n >= MaxFails2 -> -1 [] n >= MaxFails1 /\ n < MaxFails2 -> 0 [] n < MaxFails1 -> old

\* The timer ticks and the task decides to register: nothing is pending and the
\* last answer is old, or the answer is overdue, which counts as a failure.
\* A throttled tick changes nothing.
Tick(h) ==
    /\ task[h] = "wait" /\ ~SHOULD_EXIT
    /\ IF UseTcp[h]
       THEN ~Confirmed(h) /\ UNCHANGED <<fails, status>>
       ELSE /\ ~deploy_register_throttled
            /\ \/ ~pending[h] /\ UNCHANGED <<fails, status>>
               \/ /\ pending[h]
                  /\ fails' = [fails EXCEPT ![h] = IF @ < MaxFails2 THEN @ + 1 ELSE @]
                  /\ status' = [status EXCEPT ![h] = StatusAfter(fails'[h], @)]
    /\ task' = [task EXCEPT ![h] = "register"]
    /\ UNCHANGED <<loop, SHOULD_EXIT, pending, config, SENT_REGISTER_PK, solving, deploy>>

\* The registration goes out; other tasks may have run since the tick.
Register(h, out) ==
    /\ task[h] = "register"
    /\ task' = [task EXCEPT ![h] = "wait"]
    /\ IF UseTcp[h] THEN register_pk(out) ELSE register_peer(h, out)
    /\ pending' = [pending EXCEPT ![h] = TRUE]
    /\ UNCHANGED <<loop, SHOULD_EXIT, fails, status, config, solving>>

-----------------------------------------------------------------------------
(* handle_resp.                                                            *)

\* The closure update_latency.  An answer nothing was sent for has latency 0
\* (over UDP the average, if there is one); over UDP a slow answer and a latency
\* close to the one shown leave ONLINE alone.
update_latency(h) ==
    /\ fails' = [fails EXCEPT ![h] = 0]
    /\ pending' = [pending EXCEPT ![h] = IF UseTcp[h] THEN @ ELSE FALSE]
    /\ \/ (UseTcp[h] => pending[h]) /\ status' = [status EXCEPT ![h] = 1]
       \/ ~pending[h] /\ (UseTcp[h] \/ status[h] # 1) /\ status' = [status EXCEPT ![h] = 0]
       \/ ~UseTcp[h] /\ UNCHANGED status

PeerResponseIgnored(h, request_pk) ==
    /\ task[h] = "wait"
    /\ update_latency(h)
    /\ UNCHANGED <<loop, SHOULD_EXIT, task, config, SENT_REGISTER_PK, solving, deploy>>

\* RegisterPeerResponse; register_pk follows when the server asks for it.
PeerResponse(h, request_pk) ==
    /\ task[h] = "wait"
    /\ update_latency(h)
    /\ task' = IF request_pk THEN [task EXCEPT ![h] = "send"] ELSE task
    /\ UNCHANGED <<loop, SHOULD_EXIT, config, SENT_REGISTER_PK, solving, deploy>>

\* The register_pk of a request_pk or of a mismatch.
SendPk(h, out) ==
    /\ task[h] = "send"
    /\ task' = [task EXCEPT ![h] = "wait"]
    /\ register_pk(out)
    /\ UNCHANGED <<loop, SHOULD_EXIT, pending, fails, status, config, solving>>

\* RegisterPkResponse OK: first the key is confirmed ...
PkOk(h) ==
    /\ task[h] = "wait"
    /\ update_latency(h)
    /\ SetKeyConfirmed(TRUE)
    /\ task' = [task EXCEPT ![h] = "confirm"]
    /\ UNCHANGED <<loop, SHOULD_EXIT, id, pk, SENT_REGISTER_PK, solving, deploy>>

\* ... then the host, and the mismatch and the wait for deployment are over.
ConfirmHost(h) ==
    /\ task[h] = "confirm"
    /\ host_confirmed' = [host_confirmed EXCEPT ![Prefix[h]] = TRUE]
    /\ solving' = NoHost
    /\ NEEDS_DEPLOY' = FALSE /\ burst' = 0
    /\ task' = [task EXCEPT ![h] = "wait"]
    /\ UNCHANGED <<loop, SHOULD_EXIT, pending, fails, status, key_confirmed, id, pk,
                   SENT_REGISTER_PK, lastND>>

PkMismatchKeepsId(h) ==
    /\ task[h] = "wait"
    /\ update_latency(h)
    /\ SetKeyConfirmed(FALSE)
    /\ task' = [task EXCEPT ![h] = "send"]
    /\ UNCHANGED <<loop, SHOULD_EXIT, id, pk, SENT_REGISTER_PK, solving, deploy>>

\* handle_uuid_mismatch: the first host to report it changes the id.
PkMismatch(h) ==
    /\ task[h] = "wait"
    /\ update_latency(h)
    /\ \/ /\ solving \in {NoHost, h} /\ id < MaxId
          /\ SetKeyConfirmed(FALSE)
          /\ id' = id + 1
          /\ solving' = h
          /\ task' = [task EXCEPT ![h] = "send"]
       \/ /\ solving \notin {NoHost, h}
          /\ UNCHANGED <<key_confirmed, host_confirmed, id, solving, task>>
    /\ UNCHANGED <<loop, SHOULD_EXIT, pk, SENT_REGISTER_PK, deploy>>

\* NOT_DEPLOYED: the wait for deployment begins, then the confirmations go.
PkNotDeployed(h) ==
    /\ task[h] = "wait"
    /\ update_latency(h)
    /\ NEEDS_DEPLOY' = TRUE
    /\ task' = [task EXCEPT ![h] = "withdraw"]
    /\ UNCHANGED <<loop, SHOULD_EXIT, config, SENT_REGISTER_PK, solving, lastND, burst>>

Withdraw(h) ==
    /\ task[h] = "withdraw"
    /\ key_confirmed' = FALSE
    /\ host_confirmed' = [p \in Prefixes |->
           ~key_confirmed /\ p # Prefix[h] /\ host_confirmed[p]]
    /\ task' = [task EXCEPT ![h] = "wait"]
    /\ UNCHANGED <<loop, SHOULD_EXIT, pending, fails, status, id, pk, SENT_REGISTER_PK,
                   solving, deploy>>

\* Any other result, such as TOO_FREQUENT, is only logged.
PkOther(h) ==
    /\ task[h] = "wait"
    /\ update_latency(h)
    /\ UNCHANGED <<loop, SHOULD_EXIT, task, config, SENT_REGISTER_PK, solving, deploy>>

\* ConfigureUpdate brings another server list.
ConfigureUpdate(h, c) ==
    /\ task[h] = "wait" /\ changes < MaxChanges /\ c # conf
    /\ conf' = c /\ changes' = changes + 1
    /\ SHOULD_EXIT' = TRUE
    /\ UNCHANGED <<phase, used, restarting, missed, task, pending, fails, status, config,
                   SENT_REGISTER_PK, solving, deploy>>

-----------------------------------------------------------------------------
(* Time, and the synchronisation of the configuration with root (macOS).   *)

\* LAST_NOT_DEPLOYED_REGISTER becomes older than DEPLOY_RETRY_INTERVAL.
Age ==
    /\ lastND = "recent"
    /\ lastND' = "old" /\ burst' = 0
    /\ UNCHANGED <<loop, SHOULD_EXIT, task, pending, fails, status, config,
                   SENT_REGISTER_PK, solving, NEEDS_DEPLOY>>

\* The configuration of root replaces ours: its key pair p, and its confirmations,
\* of all hosts or of none; the id is the same.  CheckIfResendPk withdraws them.
SyncKey(p, confirmed) ==
    /\ changes < MaxChanges /\ p # pk
    /\ changes' = changes + 1
    /\ pk' = p
    /\ key_confirmed' = (confirmed /\ ~SENT_REGISTER_PK)
    /\ host_confirmed' = [x \in Prefixes |-> confirmed /\ ~SENT_REGISTER_PK]
    /\ UNCHANGED <<phase, conf, used, restarting, missed, SHOULD_EXIT, task, pending, fails,
                   status, id, SENT_REGISTER_PK, solving, deploy>>

Outs == {"none", "peer", "pk"}

Loop == ReadServers \/ Spawn \/ Join

Timer(h) == Connect(h) \/ Exit(h) \/ Tick(h)

\* What a task does between two waits.
Work(h) == \/ \E out \in Outs : Register(h, out) \/ SendPk(h, out)
           \/ ConfirmHost(h) \/ Withdraw(h)

Response(h) ==
    \/ \E b \in BOOLEAN : PeerResponse(h, b)
    \/ PkOk(h) \/ PkMismatch(h) \/ PkNotDeployed(h) \/ PkOther(h)
    \/ \E c \in Configs : ConfigureUpdate(h, c)

Next ==
    \/ Loop \/ restart \/ Age
    \/ \E h \in Hosts : Timer(h) \/ Work(h) \/ Response(h) \/ Fail(h)
    \/ \E c \in Configs : SetOption(c)
    \/ \E p \in Pks, b \in BOOLEAN : SyncKey(p, b)

Spec == Init /\ [][Next]_vars

\* start_all goes on whenever it can, the writer of an option calls restart(),
\* connecting ends with CONNECT_TIMEOUT, and select! serves the timer of some task
\* even when messages keep arriving.  No connection has to fail.
Fairness ==
    /\ WF_vars(Loop) /\ WF_vars(restart)
    /\ \A h \in Hosts : /\ WF_vars(task[h] = "connect" /\ (Connect(h) \/ Fail(h)))
                        /\ WF_vars(Work(h))
    /\ SF_vars(\E h \in Hosts : Exit(h))

FairSpec == Spec /\ Fairness

-----------------------------------------------------------------------------
(* Properties.                                                             *)

\* Every variable of the mediator has its type.
TypeOK ==
    /\ phase \in {"pause", "read", "run"} /\ conf \in Configs /\ used \subseteq Hosts
    /\ restarting \in BOOLEAN /\ SHOULD_EXIT \in BOOLEAN /\ missed \in BOOLEAN
    /\ task \in [Hosts -> {"off", "connect", "wait", "register", "send", "confirm", "withdraw"}]
    /\ pending \in [Hosts -> BOOLEAN]
    /\ fails \in [Hosts -> 0 .. MaxFails2]
    /\ status \in [Hosts -> {-1, 0, 1}]
    /\ key_confirmed \in BOOLEAN /\ host_confirmed \in [Prefixes -> BOOLEAN]
    /\ id \in 1 .. MaxId /\ pk \in Pks /\ SENT_REGISTER_PK \in BOOLEAN
    /\ solving \in Hosts \union {NoHost}
    /\ NEEDS_DEPLOY \in BOOLEAN /\ lastND \in {"none", "recent", "old"}
    /\ burst \in Nat
    /\ changes \in 0 .. MaxChanges

\* ONLINE shows a latency only for a server that has answered: after two overdue
\* answers in a row it never does (start_udp, MAX_FAILS1).
StatusIsHonest == \A h \in Hosts : status[h] = 1 => fails[h] < MaxFails1

\* A device that awaits its deployment sends at most one RegisterPk per
\* DEPLOY_RETRY_INTERVAL, however many tasks tick and whatever the servers ask
\* for (register_pk, deploy_register_throttled).
OnePkPerInterval == burst <= 1

\* A task runs only for a server of this round (start_all).
TasksOfRound == \A h \in Hosts : task[h] # "off" => phase = "run" /\ h \in used

\* No round goes on for ever without one of its tasks: once one exits, the others
\* also exit and the round ends (start_all).
ExitTogether == []<>~(phase = "run" /\ \E h \in used : task[h] = "off")

\* A changed server list is taken up, unless the restart came between reading
\* the list and clearing SHOULD_EXIT (start_all, restart).
RestartTakesEffect == []<>(used = conf \/ missed)
=============================================================================
