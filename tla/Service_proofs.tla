--------------------------- MODULE Service_proofs ---------------------------
(***************************************************************************)
(* Proofs about Service: for any number of connections and cursors, with   *)
(* and without need_snapshot.                                              *)
(***************************************************************************)
EXTENDS Service, TLAPS

Types ==
    /\ conns \in [Conns -> {"new", "open", "closed"}]
    /\ call \in {NoCall} \union [op : {"reading", "change", "return"}, conn : Conns,
                                 sub : BOOLEAN, old : BOOLEAN]
    /\ wish \subseteq Conns /\ subscribes \subseteq Conns /\ new_subscribes \subseteq Conns
    /\ got \in [Conns -> Screens \union {None}]
    /\ screen \in Screens /\ state \in Screens \union {None}

\* A call is made for an open connection, and what it has read of subscribes
\* holds until it returns: only calls of the server remove subscribers.
CallTrue ==
    call # NoCall =>
        /\ conns[call.conn] = "open"
        /\ call.op = "reading" /\ call.old => call.conn \in subscribes
        /\ call.op = "return" /\ call.sub => ~Unsubscribed(call.conn)

\* New subscribers have been sent nothing, or the state that is about to make
\* them old ones.
NewInStep ==
    /\ \A c \in new_subscribes : got[c] = None \/ (pc = "swap" /\ got[c] = state)
    /\ ~NeedSnapshot => new_subscribes = {}

IInv == Types /\ OldOrNew /\ ClosedIsGone /\ CallTrue /\ SubscribedStays /\ NoOutdated /\ NewInStep

USE ServiceAssumption
-----------------------------------------------------------------------------

\* The calls that change the maps, of add_connection and of subscribe.
LEMMA SubscribeStep ==
    ASSUME IInv, NEW c \in Conns, conns'[c] = "open",
           conns' = conns \/ conns' = [conns EXCEPT ![c] = "open"],
           on_subscribe(c), UNCHANGED <<thread, screen>>
    PROVE  /\ OldOrNew' /\ ClosedIsGone' /\ NoOutdated' /\ NewInStep'
           /\ subscribes' \subseteq Conns /\ new_subscribes' \subseteq Conns
           /\ got' \in [Conns -> Screens \union {None}]
           /\ ~Unsubscribed(c)'
           /\ \A d \in Conns : ~Unsubscribed(d) => ~Unsubscribed(d)'
           /\ subscribes \subseteq subscribes'
  <1> USE DEF IInv, Types, on_subscribe, Unsubscribed
  <1>1. OldOrNew'
    BY DEF OldOrNew, NewInStep
  <1>2. ClosedIsGone'
    BY DEF ClosedIsGone
  <1>3. \A d \in Conns : got'[d] = IF d = c /\ Unsubscribed(c) THEN None ELSE got[d]
    OBVIOUS
  <1>4. NoOutdated' /\ NewInStep'
    BY <1>3 DEF NoOutdated, NewInStep, OldOrNew, thread
  <1>5. QED
    BY <1>1, <1>2, <1>4

\* The calls that remove from the maps, of remove_connection and of subscribe.
LEMMA UnsubscribeStep ==
    ASSUME IInv, NEW c \in Conns,
           conns' = conns \/ conns' = [conns EXCEPT ![c] = "closed"],
           on_unsubscribe(c), UNCHANGED <<thread, screen>>
    PROVE  /\ OldOrNew' /\ ClosedIsGone' /\ NoOutdated' /\ NewInStep'
           /\ subscribes' \subseteq Conns /\ new_subscribes' \subseteq Conns
           /\ got' \in [Conns -> Screens \union {None}]
           /\ \A d \in Conns \ {c} : ~Unsubscribed(d) => ~Unsubscribed(d)'
  BY DEF IInv, Types, on_unsubscribe, Unsubscribed, OldOrNew, ClosedIsGone, NoOutdated,
         NewInStep, thread

\* Every step of the server keeps the invariant.
LEMMA ServerStep ==
    ASSUME IInv,
           \/ \E c \in Conns, b \in BOOLEAN : add_connection(c, b) \/ subscribe(c, b)
           \/ \E c \in Conns : remove_connection(c)
           \/ Call \/ join
    PROVE  IInv'
  <1>1. ASSUME NEW c \in Conns, NEW b \in BOOLEAN, add_connection(c, b) PROVE IInv'
    <2>1. CASE b
      <3>1. conns'[c] = "open"
        BY <1>1 DEF add_connection, IInv, Types
      <3>2. SubscribedStays' /\ CallTrue' /\ wish' \subseteq Conns
        BY <1>1, <2>1, <3>1, SubscribeStep, ZenonT(60)
        DEF IInv, add_connection, Free, SubscribedStays, CallTrue, Types
      <3>3. QED
        BY <1>1, <2>1, <3>1, <3>2, SubscribeStep, ZenonT(60) DEF IInv, add_connection, Types, thread
    <2>2. CASE ~b
      BY <1>1, <2>2 DEF IInv, add_connection, Types, Free, inner, thread, OldOrNew, ClosedIsGone,
                        CallTrue, SubscribedStays, NoOutdated, NewInStep, Unsubscribed
    <2>3. QED
      BY <2>1, <2>2
  <1>2. ASSUME NEW c \in Conns, NEW b \in BOOLEAN, subscribe(c, b) PROVE IInv'
    <2>1. call = NoCall /\ call'.op = "reading" /\ call'.conn = c
          /\ (call'.old => c \in subscribes) /\ conns[c] = "open"
          /\ call' \in [op : {"reading", "change", "return"}, conn : Conns,
                        sub : BOOLEAN, old : BOOLEAN]
      <3>1. call = NoCall /\ conns[c] = "open"
        BY <1>2 DEF subscribe, Free
      <3>2. CASE c \in subscribes
        <4>1. call' = [op |-> "reading", conn |-> c, sub |-> b, old |-> TRUE]
          <5>1. (c \in subscribes) = TRUE
            BY <3>2, Zenon
          <5>2. QED
            BY <1>2, <5>1, Zenon DEF subscribe
        <4>2. QED
          BY <3>1, <3>2, <4>1
      <3>3. CASE c \notin subscribes
        <4>1. call' = [op |-> "reading", conn |-> c, sub |-> b, old |-> FALSE]
          <5>1. (c \in subscribes) = FALSE
            BY <3>3
          <5>2. QED
            BY <1>2, <5>1, Zenon DEF subscribe
        <4>2. QED
          BY <3>1, <3>3, <4>1
      <3>4. QED
        BY <3>2, <3>3
    <2>2. UNCHANGED <<conns, wish, subscribes, new_subscribes, got, pc, state, screen>>
      BY <1>2 DEF subscribe, inner, thread
    <2>3. CallTrue' /\ SubscribedStays'
      BY <2>1, <2>2 DEF IInv, CallTrue, SubscribedStays, Unsubscribed
    <2>4. QED
      BY <2>1, <2>2, <2>3 DEF IInv, Types, OldOrNew, ClosedIsGone, NoOutdated, NewInStep,
                              Unsubscribed
  <1>3. ASSUME NEW c \in Conns, remove_connection(c) PROVE IInv'
    <2>1. SubscribedStays' /\ CallTrue'
      BY <1>3, UnsubscribeStep, ZenonT(60)
      DEF IInv, remove_connection, Free, SubscribedStays, CallTrue, Types
    <2>2. QED
      BY <1>3, <2>1, UnsubscribeStep, ZenonT(60) DEF IInv, remove_connection, Types, thread
  <1>4. CASE is_subed
    BY <1>4 DEF IInv, is_subed, Types, inner, thread, OldOrNew, ClosedIsGone,
                CallTrue, SubscribedStays, NoOutdated, NewInStep, Unsubscribed, NoCall
  <1>5. CASE Change
    <2> DEFINE c == call.conn
    <2>1. call # NoCall /\ c \in Conns /\ conns[c] = "open" /\ call' # NoCall /\ call'.conn = c
          /\ call'.sub = call.sub /\ call'.op = "return"
          /\ call' \in [op : {"reading", "change", "return"}, conn : Conns,
                        sub : BOOLEAN, old : BOOLEAN]
      BY <1>5 DEF Change, IInv, Types, NoCall, CallTrue
    <2>2. CASE call.sub
      <3>1. on_subscribe(c) /\ UNCHANGED <<conns, wish, thread, screen>>
        BY <1>5, <2>2 DEF Change
      <3>2. SubscribedStays' /\ CallTrue'
        BY <2>1, <3>1, SubscribeStep DEF IInv, SubscribedStays, CallTrue, Types
      <3>3. QED
        BY <2>1, <3>1, <3>2, SubscribeStep DEF IInv, Types, thread
    <2>3. CASE ~call.sub
      <3>1. on_unsubscribe(c) /\ UNCHANGED <<conns, wish, thread, screen>>
        BY <1>5, <2>3 DEF Change
      <3>2. SubscribedStays' /\ CallTrue'
        BY <2>1, <2>3, <3>1, UnsubscribeStep DEF IInv, SubscribedStays, CallTrue, Types
      <3>3. QED
        BY <2>1, <3>1, <3>2, UnsubscribeStep DEF IInv, Types, thread
    <2>4. QED
      BY <2>2, <2>3
  <1>6. CASE Return
    BY <1>6 DEF IInv, Return, Types, inner, thread, OldOrNew, ClosedIsGone,
                CallTrue, SubscribedStays, NoOutdated, NewInStep, Unsubscribed, NoCall
  <1>7. CASE join
    BY <1>7 DEF IInv, join, Types, thread, OldOrNew, ClosedIsGone,
                CallTrue, SubscribedStays, NoOutdated, NewInStep, Unsubscribed
  <1>8. QED
    BY <1>1, <1>2, <1>3, <1>4, <1>5, <1>6, <1>7 DEF Call

\* Every step of the thread, and every change of the screen, keeps the invariant.
LEMMA ThreadStep ==
    ASSUME IInv, Thread \/ ChangeScreen
    PROVE  IInv'
  <1> USE DEF IInv, Types, inner, server, thread, OldOrNew, ClosedIsGone, CallTrue,
              SubscribedStays, NoOutdated, NewInStep, Unsubscribed
  <1>1. CASE Top \/ CallbackNoCursor \/ CallbackError \/ Snapshot \/ ChangeScreen
    BY <1>1 DEF Top, CallbackNoCursor, CallbackError, Snapshot, ChangeScreen
  <1>2. CASE Subs
    BY <1>2 DEF Subs, has_subscribes
  <1>3. CASE Callback
    BY <1>3 DEF Callback
  <1>4. CASE SendNew
    BY <1>4 DEF SendNew
  <1>5. CASE Swap
    BY <1>5 DEF Swap
  <1>6. QED
    BY <1>1, <1>2, <1>3, <1>4, <1>5 DEF Thread
-----------------------------------------------------------------------------

\* IInv, the conjunction that the steps preserve, holds in every state of the
\* server and of the thread of the service.
THEOREM Inductive == Spec => []IInv
  <1>1. Init => IInv
    BY DEF Init, IInv, Types, OldOrNew, ClosedIsGone, CallTrue, SubscribedStays, NoOutdated,
           NewInStep, Unsubscribed
  <1>2. IInv /\ [Next]_vars => IInv'
    <2>1. CASE UNCHANGED vars
      BY <2>1 DEF vars, server, inner, thread, IInv, Types, OldOrNew, ClosedIsGone, CallTrue,
                  SubscribedStays, NoOutdated, NewInStep, Unsubscribed
    <2>2. QED
      BY <2>1, ServerStep, ThreadStep DEF Next
  <1>3. QED
    BY <1>1, <1>2, PTL DEF Spec

\* A connection is never both a subscriber and a new subscriber (on_subscribe,
\* swap_new_subscribes).
THEOREM OldOrNewAlways == Spec => []OldOrNew
  BY Inductive, PTL DEF IInv

\* A closed connection has no entry in the service (remove_connection).
THEOREM ClosedIsGoneAlways == Spec => []ClosedIsGone
  BY Inductive, PTL DEF IInv

\* A subscribed connection stays subscribed while the thread moves it from one
\* map to the other (subscribe, swap_new_subscribes).
THEOREM SubscribedStaysAlways == Spec => []SubscribedStays
  BY Inductive, PTL DEF IInv

\* No subscriber is left with a cursor other than the last one sent (run_cursor).
THEOREM NoOutdatedAlways == Spec => []NoOutdated
  BY Inductive, PTL DEF IInv
=============================================================================
