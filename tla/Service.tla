------------------------------ MODULE Service -------------------------------
(***************************************************************************)
(* A service of the controlled side (src/src/server/service.rs): a thread  *)
(* that produces messages and the connections subscribed to it, changed by *)
(* the server on behalf of the connections (src/src/server.rs).  The       *)
(* thread is the one of repeat; its callback is that of the mouse cursor   *)
(* (run_cursor in src/src/server/input_service.rs), which sends what has   *)
(* changed to its subscribers and the present state to new ones.           *)
(*                                                                         *)
(* The calls of the server hold the lock of the server, one at a time; the *)
(* thread does not take it.  Every use of the lock of the service is a     *)
(* step of its own.                                                        *)
(***************************************************************************)
EXTENDS Naturals

CONSTANTS
    Conns,          \* connections
    Screens,        \* what there is to be shown: the cursors of the system
    NeedSnapshot,   \* need_snapshot of the service
    None

ASSUME ServiceAssumption == NeedSnapshot \in BOOLEAN /\ None \notin Screens

VARIABLES
    conns,          \* Server.connections: "new", "open" or "closed"
    call,           \* the call of Server::subscribe in progress
    joined,         \* the server is dropped: join
    active, subscribes, new_subscribes,     \* ServiceInner
    pc,             \* where the thread of the service is
    may_reset,      \* local variable of repeat
    screen,         \* the present cursor of the system
    state,          \* StateCursor: the cursor last sent, None after a reset
    got,            \* history: what a connection has been sent since it subscribed
    wish            \* history: connections whose last call asked for the service

inner == <<active, subscribes, new_subscribes>>
server == <<conns, call, joined, wish>>
thread == <<pc, may_reset, state>>
vars == <<inner, server, thread, screen, got>>

NoCall == [op |-> "none"]
has_subscribes == subscribes \union new_subscribes # {}

Init ==
    /\ conns = [c \in Conns |-> "new"] /\ call = NoCall /\ joined = FALSE /\ wish = {}
    /\ active = TRUE /\ subscribes = {} /\ new_subscribes = {}
    /\ pc = "top" /\ may_reset = FALSE /\ state = None
    /\ screen \in Screens
    /\ got = [c \in Conns |-> None]

-----------------------------------------------------------------------------
(* The server.                                                             *)

Unsubscribed(c) == c \notin subscribes \union new_subscribes

on_subscribeAlways(c) ==
    /\ new_subscribes' = new_subscribes \union {c}
    /\ UNCHANGED <<active, subscribes>>
    /\ got' = IF Unsubscribed(c) THEN [got EXCEPT ![c] = None] ELSE got

on_subscribe(c) ==
    /\ IF c \in subscribes \/ ~NeedSnapshot
       THEN /\ subscribes' = subscribes \union {c}
            /\ UNCHANGED new_subscribes
       ELSE /\ new_subscribes' = new_subscribes \union {c}
            /\ UNCHANGED subscribes
    /\ UNCHANGED active
    /\ got' = IF Unsubscribed(c) THEN [got EXCEPT ![c] = None] ELSE got

on_unsubscribeOld(c) ==
    /\ subscribes' = subscribes \ {c}
    /\ UNCHANGED <<active, new_subscribes, got>>

\* A connection is looked for among the new ones only if it is not an old one.
on_unsubscribe(c) ==
    /\ IF c \in subscribes
       THEN subscribes' = subscribes \ {c} /\ UNCHANGED new_subscribes
       ELSE new_subscribes' = new_subscribes \ {c} /\ UNCHANGED subscribes
    /\ UNCHANGED <<active, got>>

Free == call = NoCall /\ ~joined

\* A connection is authorised; noperms may exclude the service.
add_connection(c, permitted) ==
    /\ Free /\ conns[c] = "new"
    /\ conns' = [conns EXCEPT ![c] = "open"]
    /\ IF permitted
       THEN on_subscribe(c) /\ wish' = wish \union {c}
       ELSE UNCHANGED <<inner, got, wish>>
    /\ UNCHANGED <<call, joined, thread, screen>>

remove_connection(c) ==
    /\ Free /\ conns[c] = "open"
    /\ conns' = [conns EXCEPT ![c] = "closed"]
    /\ on_unsubscribe(c)
    /\ wish' = wish \ {c}
    /\ UNCHANGED <<call, joined, thread, screen>>

\* subscribe: is_subed reads subscribes ...
subscribe(c, sub) ==
    /\ Free /\ conns[c] = "open"
    /\ call' = [op |-> "reading", conn |-> c, sub |-> sub, old |-> c \in subscribes]
    /\ UNCHANGED <<conns, joined, wish, inner, thread, screen, got>>

\* ... and then new_subscribes; what the call asks for may be the case already.
is_subed ==
    /\ call.op = "reading"
    /\ LET subed == call.old \/ call.conn \in new_subscribes IN
       call' = IF subed = call.sub THEN [call EXCEPT !.op = "return"]
               ELSE [call EXCEPT !.op = "change"]
    /\ UNCHANGED <<conns, joined, wish, inner, thread, screen, got>>

Change ==
    /\ call.op = "change"
    /\ IF call.sub THEN on_subscribe(call.conn) ELSE on_unsubscribe(call.conn)
    /\ call' = [call EXCEPT !.op = "return"]
    /\ UNCHANGED <<conns, joined, wish, thread, screen>>

Return ==
    /\ call.op = "return"
    /\ call' = NoCall
    /\ wish' = IF call.sub THEN wish \union {call.conn} ELSE wish \ {call.conn}
    /\ UNCHANGED <<conns, joined, inner, thread, screen, got>>

\* Server::drop: every service is told to stop and its thread is waited for.
join ==
    /\ Free
    /\ joined' = TRUE /\ active' = FALSE
    /\ UNCHANGED <<conns, call, wish, subscribes, new_subscribes, thread, screen, got>>

-----------------------------------------------------------------------------
(* The thread: repeat with run_cursor.                                     *)

TopAlways ==
    /\ pc = "top"
    /\ pc' = "subs"
    /\ UNCHANGED <<may_reset, state, inner, server, screen, got>>

Top ==
    /\ pc = "top"
    /\ pc' = IF active THEN "subs" ELSE "exited"
    /\ UNCHANGED <<may_reset, state, inner, server, screen, got>>

\* The callback is called, or the state is reset, once, when nobody listens.
Subs ==
    /\ pc = "subs"
    /\ IF has_subscribes
       THEN pc' = "callback" /\ may_reset' = TRUE /\ UNCHANGED state
       ELSE /\ pc' = "top" /\ may_reset' = FALSE
            /\ state' = IF may_reset THEN None ELSE state
    /\ UNCHANGED <<inner, server, screen, got>>

CallbackSilent ==
    /\ pc = "callback"
    /\ pc' = "snapshot" /\ state' = screen
    /\ UNCHANGED <<got, may_reset, inner, server, screen>>

\* A cursor that has changed goes to the subscribers (send_shared).
Callback ==
    /\ pc = "callback"
    /\ pc' = "snapshot" /\ state' = screen
    /\ got' = IF screen = state THEN got
              ELSE [c \in Conns |-> IF c \in subscribes THEN screen ELSE got[c]]
    /\ UNCHANGED <<may_reset, inner, server, screen>>

\* The system shows no cursor at present.
CallbackNoCursor ==
    /\ pc = "callback"
    /\ pc' = "snapshot"
    /\ UNCHANGED <<may_reset, state, inner, server, screen, got>>

\* The cursor cannot be read; the thread sleeps and tries again.
CallbackError ==
    /\ pc = "callback"
    /\ pc' = "top"
    /\ UNCHANGED <<may_reset, state, inner, server, screen, got>>

SnapshotForOld ==
    /\ pc = "snapshot"
    /\ pc' = IF new_subscribes # {} /\ subscribes # {} THEN "send" ELSE "top"
    /\ UNCHANGED <<may_reset, state, inner, server, screen, got>>

\* snapshot: are there new subscribers?
Snapshot ==
    /\ pc = "snapshot"
    /\ pc' = IF new_subscribes # {} THEN "send" ELSE "top"
    /\ UNCHANGED <<may_reset, state, inner, server, screen, got>>

\* ServiceSwap::send_shared: the present state goes to the new subscribers.
SendNew ==
    /\ pc = "send"
    /\ pc' = "swap"
    /\ got' = [c \in Conns |-> IF c \in new_subscribes THEN state ELSE got[c]]
    /\ UNCHANGED <<may_reset, state, inner, server, screen>>

SwapReplaces ==
    /\ pc = "swap"
    /\ pc' = "top"
    /\ subscribes' = new_subscribes /\ new_subscribes' = {}
    /\ UNCHANGED <<active, may_reset, state, server, screen, got>>

\* ServiceSwap::drop
Swap ==
    /\ pc = "swap"
    /\ pc' = "top"
    /\ subscribes' = subscribes \union new_subscribes /\ new_subscribes' = {}
    /\ UNCHANGED <<active, may_reset, state, server, screen, got>>

-----------------------------------------------------------------------------

ChangeScreen ==
    /\ screen' \in Screens \ {screen}
    /\ UNCHANGED <<inner, server, thread, got>>

Call == is_subed \/ Change \/ Return
Thread == Top \/ Subs \/ Callback \/ CallbackNoCursor \/ CallbackError
            \/ Snapshot \/ SendNew \/ Swap

Next ==
    \/ \E c \in Conns, b \in BOOLEAN : add_connection(c, b) \/ subscribe(c, b)
    \/ \E c \in Conns : remove_connection(c)
    \/ Call \/ join \/ Thread \/ ChangeScreen

Spec == Init /\ [][Next]_vars

\* The threads are scheduled, and the cursor can be read now and then.
Fairness == WF_vars(Call) /\ WF_vars(Thread) /\ SF_vars(Callback)

FairSpec == Spec /\ Fairness

-----------------------------------------------------------------------------
(* Properties.                                                             *)

\* A connection is an old or a new subscriber, never both: on_unsubscribe, which
\* stops at the first map that has it, leaves no second entry behind.
OldOrNew == subscribes \intersect new_subscribes = {}

\* A closed connection has no entry in the service, whatever the thread was doing
\* when it was removed (remove_connection).
ClosedIsGone == \A c \in Conns : conns[c] # "open" => Unsubscribed(c)

\* A connection that has been added or subscribed stays subscribed until it asks
\* for the contrary or closes, while the thread moves it from one map to the
\* other (subscribe, swap_new_subscribes).
SubscribedStays == \A c \in wish : call = NoCall \/ call.conn # c => ~Unsubscribed(c)

\* No subscriber is left with a cursor that is no longer the last one sent
\* (run_cursor, send_shared).
NoOutdated == \A c \in subscribes : got[c] \in {None, state}

\* A new subscriber is served, unless it leaves or the service stops (snapshot).
NewIsServed == \A c \in Conns : c \in new_subscribes ~> (c \notin new_subscribes \/ ~active)

\* The thread ends once the server is dropped, so that join returns.
JoinReturns == joined ~> pc = "exited"

\* Between two rounds of the thread every subscriber has been sent the present
\* state: the snapshot goes to new subscribers, as the comment at the call of
\* snapshot in try_broadcast_display_changed says.
SnapshotSent == NeedSnapshot /\ pc = "top" => \A c \in subscribes : got[c] = state
=============================================================================
