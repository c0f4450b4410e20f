------------------------------ MODULE WakeLock ------------------------------
(***************************************************************************)
(* The list of the authorised connections of the controlled side and what  *)
(* follows its length (module raii of src/src/server/connection.rs): the   *)
(* wake lock that keeps the machine awake, held by a thread of its own     *)
(* that is sent the counts, and the wallpaper, taken away for remote       *)
(* control.  Connections are tasks of a runtime with several threads;      *)
(* every use of a lock is a step of its own.                               *)
(***************************************************************************)
EXTENDS Sequences, Naturals, FiniteSets

CONSTANTS
    Conns,          \* connections
    MaxChanges,     \* bound: changes of the option by the user
    MaxQueue        \* bound: counts in the channel when one is added by the timer

VARIABLES
    AUTHED_CONNS,   \* authorised connections, each with its type
    conn,           \* where the task of a connection is
    seen,           \* the counts check_wake_lock of a connection has read so far
    channel,        \* WAKELOCK_SENDER: counts on their way to the thread
    wakelock,       \* the wake lock: "none", or whether it is for the display too
    cached,         \* WAKELOCK_KEEP_AWAKE_OPTION: the option as last read, {} before
    keep_awake,     \* the option keep-awake-during-incoming-sessions
    changes,        \* how often the user has changed it
    wallpaper       \* WALLPAPER_REMOVER: is the wallpaper taken away?

lists == <<AUTHED_CONNS, wallpaper>>
thread == <<wakelock, cached>>
user == <<keep_awake, changes>>
vars == <<lists, conn, seen, channel, thread, user>>

Types == {"Remote", "Other"}
remote_count == Cardinality({a \in AUTHED_CONNS : a.conn_type = "Remote"})

Init ==
    /\ AUTHED_CONNS = {} /\ wallpaper = FALSE
    /\ conn = [c \in Conns |-> "new"] /\ seen = [c \in Conns |-> <<>>]
    /\ channel = <<>>
    /\ wakelock = "none" /\ cached = {}
    /\ keep_awake = TRUE /\ changes = 0

Goes(c, from, to) == conn[c] = from /\ conn' = [conn EXCEPT ![c] = to]

-----------------------------------------------------------------------------
(* check_wake_lock, entered at "authed", "changed" or "retained".          *)

Checking(c) == conn[c] \in {"authed", "changed", "retained"}

CountConns(c) ==
    /\ Checking(c) /\ seen[c] = <<>>
    /\ seen' = [seen EXCEPT ![c] = <<Cardinality(AUTHED_CONNS)>>]
    /\ UNCHANGED <<conn, lists, channel, thread, user>>

CountRemotes(c) ==
    /\ Checking(c) /\ Len(seen[c]) = 1
    /\ seen' = [seen EXCEPT ![c] = Append(@, remote_count)]
    /\ UNCHANGED <<conn, lists, channel, thread, user>>

SendCounts(c) ==
    /\ Checking(c) /\ Len(seen[c]) = 2
    /\ channel' = Append(channel, seen[c])
    /\ seen' = [seen EXCEPT ![c] = <<>>]
    /\ \/ Goes(c, "authed", "logon")
       \/ Goes(c, "changed", "open")
       \/ Goes(c, "retained", "closed")
    /\ UNCHANGED <<lists, thread, user>>

check_wake_lock(c) == CountConns(c) \/ CountRemotes(c) \/ SendCounts(c)

-----------------------------------------------------------------------------
(* A connection: authorised, open, dropped.                                *)

\* AuthedConnID::new
new(c, type) ==
    /\ Goes(c, "new", "authed")
    /\ AUTHED_CONNS' = AUTHED_CONNS \union {[conn_id |-> c, conn_type |-> type]}
    /\ UNCHANGED <<seen, channel, wallpaper, thread, user>>

\* The rest of the log-on: the wallpaper is taken away once for all remote connections.
on_remote_authorized(c) ==
    /\ Goes(c, "logon", "open")
    /\ wallpaper' = (wallpaper \/ [conn_id |-> c, conn_type |-> "Remote"] \in AUTHED_CONNS)
    /\ UNCHANGED <<AUTHED_CONNS, seen, channel, thread, user>>

\* The timer of every connection compares the option with what the thread has read.
check_wake_lock_on_setting_changed(c) ==
    /\ IF cached # {keep_awake}
       THEN Len(channel) < MaxQueue /\ Goes(c, "open", "changed")
       ELSE Goes(c, "open", "open")
    /\ UNCHANGED <<seen, channel, lists, thread, user>>

\* Drop for AuthedConnID: out of the list ...
drop(c) ==
    /\ Goes(c, "open", "dropped")
    /\ AUTHED_CONNS' = {a \in AUTHED_CONNS : a.conn_id # c}
    /\ UNCHANGED <<seen, channel, wallpaper, thread, user>>

\* ... are there remote connections left ...
DropCount(c) ==
    /\ Goes(c, "dropped", IF remote_count = 0 THEN "restore" ELSE "retained")
    /\ UNCHANGED <<seen, channel, lists, thread, user>>

\* ... and if not, the desktop is as it was.
DropRestore(c) ==
    /\ Goes(c, "restore", "retained")
    /\ wallpaper' = FALSE
    /\ UNCHANGED <<AUTHED_CONNS, seen, channel, thread, user>>

-----------------------------------------------------------------------------
(* start_wakelock_thread: one round of its loop.  The wake lock of Windows *)
(* and macOS can be turned to the display and back while it is held.       *)

Recv ==
    /\ channel # <<>>
    /\ channel' = Tail(channel)
    /\ cached' = {keep_awake}
    /\ LET conn_count == Head(channel)[1]
           display == Head(channel)[2] > 0 IN
       wakelock' = IF conn_count = 0 \/ ~keep_awake THEN "none"
                   ELSE IF display THEN "display" ELSE "system"
    /\ UNCHANGED <<lists, conn, seen, user>>

\* The user changes the option.
SetOption ==
    /\ changes < MaxChanges
    /\ changes' = changes + 1 /\ keep_awake' = ~keep_awake
    /\ UNCHANGED <<lists, conn, seen, channel, thread>>

-----------------------------------------------------------------------------

Step(c) ==
    \/ check_wake_lock(c) \/ on_remote_authorized(c)
    \/ DropCount(c) \/ DropRestore(c)

Next ==
    \/ \E c \in Conns :
         \/ \E type \in Types : new(c, type)
         \/ Step(c) \/ check_wake_lock_on_setting_changed(c) \/ drop(c)
    \/ Recv \/ SetOption

\* Tasks and threads are scheduled and the timer ticks every second; nobody has to
\* connect, to leave or to change the option.
FairSpec ==
    /\ Init /\ [][Next]_vars
    /\ WF_vars(Recv)
    /\ \A c \in Conns : WF_vars(Step(c)) /\ WF_vars(check_wake_lock_on_setting_changed(c))

-----------------------------------------------------------------------------

\* While a connection is open and the option is set the machine is kept awake, as
\* the comment on the option says: the wake lock is there or comes (check_wake_lock,
\* start_wakelock_thread).
KeptAwake ==
    \A c \in Conns :
        (conn[c] = "open" /\ keep_awake) ~> (wakelock # "none" \/ conn[c] # "open" \/ ~keep_awake)
=============================================================================
