--------------------------- MODULE Terminal_proofs ---------------------------
(***************************************************************************)
(* Proofs about Terminal, for any number of connections, terminals and     *)
(* services and any workload: a reattached session gets its size back, and *)
(* every shell a session lets go of is handed to the reaper.  Then what    *)
(* the proofs about the output rest on: who refers to which session, where *)
(* the output of a session stands, and how far a client that attached      *)
(* alone has been shown it.                                                *)
(***************************************************************************)
EXTENDS Terminal, TLAPS

USE BufferAssumption, TerminalAssumption

Fields == {"active", "pending", "sigwinch", "size", "child", "told", "stopped", "reader", "read",
           "sent", "rem", "out", "buf", "recent"}
Phases == [phase : {"idle", "temp", "restore"}, retries : Nat]

\* What a session keeps for the two resizes.  The bytes of its output are of no
\* concern here: only that the fields are there.
Shape(x) ==
    /\ DOMAIN x = Fields
    /\ x.active \in BOOLEAN /\ x.child \in BOOLEAN
    /\ x.size \in {"none", "rows", "temp"}
    /\ x.sigwinch \in Phases

\* As long as no resize has failed: a resize that has begun has attempts left, and
\* a session that is watched and not being resized has its own size.
Resizing(x) ==
    x.size # "none" =>
        /\ x.sigwinch.phase # "idle" => x.sigwinch.retries > 0
        /\ x.active /\ x.sigwinch.phase = "idle" => x.size = "rows"

\* The child of a session is gone from it exactly when the reaper has it or has
\* waited for it.
HandedOver ==
    \A s \in Sessions : ~ses[s].child <=> s \in tasks \/ proc[s] = "reaped"

IInv ==
    /\ ses = [s \in Sessions |-> ses[s]]
    /\ proc \in [Sessions -> {"none", "run", "exit", "reaped"}]
    /\ fails \in Nat
    /\ \A s \in Sessions : Shape(ses[s])
    /\ fails = 0 => \A s \in Sessions : Resizing(ses[s])
    /\ HandedOver

\* Session y is x but for its output.
AsSized(x, y) ==
    /\ DOMAIN y = DOMAIN x
    /\ y.active = x.active /\ y.size = x.size /\ y.sigwinch = x.sigwinch /\ y.child = x.child

-----------------------------------------------------------------------------
\* What the operators make of a session (stop, handle_open, read_outputs).
LEMMA Operators ==
    ASSUME NEW x, Shape(x)
    PROVE  /\ Shape(Stopped(x)) /\ Resizing(Stopped(x)) /\ ~Stopped(x).child
           /\ Shape(Reattached(x)) /\ Resizing(Reattached(x))
           /\ Reattached(x).child = x.child
           /\ \A d : AsSized(x, Send(x, d))
  <1>1. Shape(Stopped(x)) /\ Resizing(Stopped(x)) /\ ~Stopped(x).child
    BY ZenonT(60) DEF Stopped, Shape, Resizing, Fields, Phases, Idle
  <1>2. Shape(Reattached(x)) /\ Resizing(Reattached(x)) /\ Reattached(x).child = x.child
    BY DEF Reattached, Shape, Resizing, Fields, Phases
  <1>3. \A d : AsSized(x, Send(x, d))
    BY DEF Send, AsSized, Shape, Fields
  <1> QED BY <1>1, <1>2, <1>3

\* The other changes a handler makes to a session (reset_status, handle_close,
\* handle_resize).
Detach(x) == [x EXCEPT !.active = FALSE, !.pending = <<>>, !.sigwinch = Idle]

\* A session that is left keeps its shape, its child and its size (reset_status).
LEMMA Detached ==
    ASSUME NEW x, Shape(x)
    PROVE  LET y == Detach(x)
           IN  Shape(y) /\ y.child = x.child /\ (Resizing(x) => Resizing(y))
  <1> DEFINE y == Detach(x)
  <1>1. /\ DOMAIN y = Fields /\ y.active = FALSE /\ y.sigwinch = Idle /\ y.size = x.size
        /\ y.child = x.child
    BY DEF Shape, Fields, Detach
  <1>2. Idle \in Phases /\ Idle.phase = "idle"
    BY DEF Idle, Phases
  <1> HIDE DEF y
  <1>3. Shape(y)
    BY <1>1, <1>2, ZenonT(60) DEF Shape
  <1>4. Resizing(y)
    BY <1>1, <1>2 DEF Resizing
  <1> QED BY <1>1, <1>3, <1>4 DEF y

\* The child is taken out (handle_close, read_outputs).
Orphan(x) == [x EXCEPT !.child = FALSE]

\* A session without its child keeps its shape and its resize.
LEMMA Orphaned ==
    ASSUME NEW x, Shape(x)
    PROVE  Shape(Orphan(x)) /\ Orphan(x).child = FALSE /\ (Resizing(x) => Resizing(Orphan(x)))
  <1> DEFINE y == Orphan(x)
  <1>1. /\ DOMAIN y = Fields /\ y.active = x.active /\ y.sigwinch = x.sigwinch /\ y.size = x.size
        /\ y.child = FALSE
    BY DEF Shape, Fields, Orphan
  <1> HIDE DEF y
  <1>2. Shape(y)
    BY <1>1, ZenonT(60) DEF Shape
  <1>3. Resizing(x) => Resizing(y)
    BY <1>1 DEF Resizing
  <1> QED BY <1>1, <1>2, <1>3 DEF y

\* A resize that the client asks for (handle_resize).
Sized(x, failed) ==
    [x EXCEPT !.recent = TRUE, !.size = IF failed \/ @ = "none" THEN @ ELSE "rows"]

\* A session that is resized keeps its shape, its child and the resize in progress.
LEMMA Resized ==
    ASSUME NEW x, Shape(x), NEW failed \in BOOLEAN
    PROVE  LET y == Sized(x, failed)
           IN  Shape(y) /\ y.child = x.child /\ (Resizing(x) => Resizing(y))
  <1> DEFINE y == Sized(x, failed)
  <1>1. /\ DOMAIN y = Fields /\ y.active = x.active /\ y.sigwinch = x.sigwinch /\ y.child = x.child
        /\ y.size = IF failed \/ x.size = "none" THEN x.size ELSE "rows"
    BY DEF Shape, Fields, Sized
  <1> HIDE DEF y
  <1>2. Shape(y)
    BY <1>1 DEF Shape
  <1>3. Resizing(x) => Resizing(y)
    BY <1>1 DEF Resizing
  <1> QED BY <1>1, <1>2, <1>3 DEF y

\* One step of the resize of a watched session (read_outputs).
LEMMA SigwinchStep ==
    ASSUME NEW x, Shape(x), x.active, NEW ok \in BOOLEAN, NEW w \in Sigwinch(x, ok),
           ok => x.size # "none" \/ x.sigwinch.retries = 0,
           NEW z, DOMAIN z = Fields, z.active = x.active, z.child = x.child,
           z.sigwinch = w.sigwinch, z.size = w.size
    PROVE  /\ Shape(z)
           /\ Resizing(x) /\ (ok \/ x.size = "none") => Resizing(z)
  <1>1. /\ x.sigwinch.phase \in {"idle", "temp", "restore"} /\ x.sigwinch.retries \in Nat
        /\ x.size \in {"none", "rows", "temp"} /\ x.child \in BOOLEAN
    BY DEF Shape, Phases
  <1>2. \/ /\ x.sigwinch.phase = "idle" \/ x.sigwinch.retries = 0
           /\ w = [sigwinch |-> [phase |-> "idle", retries |-> 0], size |-> x.size]
        \/ /\ x.sigwinch.phase # "idle" /\ x.sigwinch.retries > 0 /\ ~ok
           /\ w = [sigwinch |-> [phase |-> x.sigwinch.phase, retries |-> x.sigwinch.retries - 1],
                   size |-> x.size]
        \/ /\ x.sigwinch.phase = "temp" /\ x.sigwinch.retries > 0 /\ ok
           /\ w = [sigwinch |-> [phase |-> "restore", retries |-> MAX_SIGWINCH_PHASE_ATTEMPTS],
                   size |-> "temp"]
        \/ /\ x.sigwinch.phase = "restore" /\ x.sigwinch.retries > 0 /\ ok
           /\ w = [sigwinch |-> [phase |-> "idle", retries |-> 0], size |-> "rows"]
    BY <1>1 DEF Sigwinch
  <1>3. w.sigwinch \in Phases /\ w.size \in {"none", "rows", "temp"}
    BY <1>1, <1>2 DEF Phases
  <1>5. Resizing(x) /\ (ok \/ x.size = "none") /\ w.size # "none" =>
          /\ w.sigwinch.phase # "idle" => w.sigwinch.retries > 0
          /\ w.sigwinch.phase = "idle" => w.size = "rows"
    BY <1>1, <1>2 DEF Resizing
  <1>6. Shape(z)
    BY <1>1, <1>3 DEF Shape
  <1>7. Resizing(x) /\ (ok \/ x.size = "none") => Resizing(z)
    BY <1>5 DEF Resizing
  <1> QED BY <1>6, <1>7

-----------------------------------------------------------------------------
(* The steps.                                                              *)

\* Sessions of S are stopped (remove_service, Drop).
LEMMA StopStep ==
    ASSUME IInv, NEW S, StopAll(S), UNCHANGED fails
    PROVE  IInv'
  <1>1. \A s \in Sessions : ses'[s] = IF s \in S THEN Stopped(ses[s]) ELSE ses[s]
    BY DEF StopAll
  <1>2. \A s \in Sessions : Shape(ses'[s])
    BY <1>1, Operators DEF IInv
  <1>3. fails = 0 => \A s \in Sessions : Resizing(ses'[s])
    BY <1>1, Operators DEF IInv
  <1>4. \A s \in Sessions : ses'[s].child = (ses[s].child /\ s \notin S)
    BY <1>1, Operators DEF IInv, Shape
  <1>5. proc' \in [Sessions -> {"none", "run", "exit", "reaped"}]
    BY DEF StopAll, IInv
  <1>6. HandedOver'
    BY <1>4, ZenonT(60) DEF StopAll, IInv, HandedOver
  <1> QED BY <1>2, <1>3, <1>5, <1>6 DEF IInv, StopAll

\* The output of session s moves on (the reader thread).
LEMMA OutputStep ==
    ASSUME IInv, NEW s, NEW y, Shape(ses[s]) => AsSized(ses[s], y), ses' = [ses EXCEPT ![s] = y],
           UNCHANGED <<proc, tasks, fails>>
    PROVE  IInv'
  <1>1. \A x \in Sessions : ses'[x] = IF x = s THEN y ELSE ses[x]
    BY DEF IInv
  <1>2. \A x \in Sessions : AsSized(ses[x], ses'[x])
    BY <1>1 DEF IInv, AsSized
  <1>3. \A x \in Sessions : Shape(ses'[x]) /\ (Resizing(ses[x]) => Resizing(ses'[x]))
                            /\ ses'[x].child = ses[x].child
    BY <1>2 DEF IInv, AsSized, Shape, Resizing
  <1> QED BY <1>3 DEF IInv, HandedOver

\* The handlers of a connection (init_terminal_service, handle_action).
LEMMA HandlerStep ==
    ASSUME IInv, NEW c \in Conns,
           Handle(c) \/ \E p \in BOOLEAN : Attach(c, p)
    PROVE  IInv'
  <1>1. ASSUME NEW p \in BOOLEAN, Attach(c, p) PROVE IInv'
    <2>1. PICK S : ses' = [s \in Sessions |->
                      IF s \in S THEN Detach(ses[s]) ELSE ses[s]]
      <3>1. PICK o \in Services : ses' = [s \in Sessions |->
                      IF reg = o /\ s \in SessionsOf(o)
                      THEN Detach(ses[s]) ELSE ses[s]]
        BY <1>1, ZenonT(60) DEF Attach, Detach
      <3>2. WITNESS {s \in Sessions : reg = o /\ s \in SessionsOf(o)}
      <3> QED BY <3>1
    <2>2. UNCHANGED <<proc, tasks, fails>>
      BY <1>1, ZenonT(60) DEF Attach
    <2>3. \A s \in Sessions : /\ Shape(ses'[s]) /\ ses'[s].child = ses[s].child
                              /\ Resizing(ses[s]) => Resizing(ses'[s])
      BY <2>1, Detached DEF IInv
    <2> QED BY <2>1, <2>2, <2>3 DEF IInv, HandedOver
  <1>2. CASE Reopen(c)
    <2>1. PICK s : ses' = [ses EXCEPT ![s] = Reattached(ses[s])]
      BY <1>2, ZenonT(60) DEF Reopen
    <2>2. UNCHANGED <<proc, tasks, fails>>
      BY <1>2, ZenonT(60) DEF Reopen
    <2>3. \A x \in Sessions : ses'[x] = IF x = s THEN Reattached(ses[x]) ELSE ses[x]
      BY <2>1 DEF IInv
    <2>4. \A x \in Sessions : /\ Shape(ses'[x]) /\ ses'[x].child = ses[x].child
                              /\ Resizing(ses[x]) => Resizing(ses'[x])
      BY <2>3, Operators DEF IInv
    <2>5. ses' = [x \in Sessions |-> ses'[x]]
      BY <2>1 DEF IInv
    <2> QED BY <2>2, <2>4, <2>5 DEF IInv, HandedOver
  <1>3. CASE Open(c)
    <2>1. UNCHANGED <<ses, tasks, fails>>
      BY <1>3 DEF Open
    <2>2. PICK s \in Sessions : proc[s] = "none" /\ proc' = [proc EXCEPT ![s] = "run"]
      BY <1>3, ZenonT(60) DEF Open
    <2> QED BY <2>1, <2>2 DEF IInv, HandedOver
  <1>4. CASE OpenFailed(c)
    BY <1>4 DEF OpenFailed, IInv, HandedOver
  <1>5. CASE handle_close(c)
    <2>1. PICK S : /\ ses' = [s \in Sessions |->
                                 IF s \in S THEN Orphan(ses[s]) ELSE ses[s]]
                   /\ proc' = [s \in Sessions |->
                                  IF s \in {x \in S : ses[x].child} /\ proc[s] = "run" THEN "exit"
                                  ELSE proc[s]]
                   /\ tasks' = tasks \union {x \in S : ses[x].child}
      BY <1>5, ZenonT(60) DEF handle_close, Orphan
    <2>2. UNCHANGED fails
      BY <1>5, ZenonT(60) DEF handle_close
    <2>3. \A s \in Sessions : /\ Shape(ses'[s]) /\ ses'[s].child = (ses[s].child /\ s \notin S)
                              /\ Resizing(ses[s]) => Resizing(ses'[s])
      BY <2>1, Orphaned, ZenonT(60) DEF IInv, Shape
    <2>4. proc' \in [Sessions -> {"none", "run", "exit", "reaped"}]
      BY <2>1 DEF IInv
    <2>5. HandedOver'
      BY <2>1, <2>3, ZenonT(60) DEF IInv, HandedOver
    <2> QED BY <2>1, <2>2, <2>3, <2>4, <2>5, ZenonT(60) DEF IInv
  <1>6. CASE handle_resize(c)
    <2>1. UNCHANGED <<proc, tasks>>
      BY <1>6, ZenonT(60) DEF handle_resize
    <2>2. PICK failed \in BOOLEAN :
             /\ fails' = IF failed THEN fails + 1 ELSE fails
             /\ \E S : ses' = [s \in Sessions |-> IF s \notin S THEN ses[s] ELSE Sized(ses[s], failed)]
      BY <1>6, ZenonT(60) DEF handle_resize, Sized
    <2>3. PICK S : ses' = [s \in Sessions |-> IF s \notin S THEN ses[s] ELSE Sized(ses[s], failed)]
      BY <2>2
    <2>4. fails' \in Nat /\ (fails' = 0 => fails = 0)
      <3>1. fails' = IF failed THEN fails + 1 ELSE fails
        BY <2>2, ZenonT(60)
      <3>2. fails \in Nat
        BY DEF IInv
      <3> QED BY ONLY <3>1, <3>2
    <2>5. \A s \in Sessions : /\ Shape(Sized(ses[s], failed)) /\ Sized(ses[s], failed).child = ses[s].child
                              /\ Resizing(ses[s]) => Resizing(Sized(ses[s], failed))
      BY <2>2, Resized DEF IInv
    <2>6. \A s \in Sessions : /\ Shape(ses'[s]) /\ ses'[s].child = ses[s].child
                              /\ Resizing(ses[s]) => Resizing(ses'[s])
      BY <2>3, <2>5 DEF IInv
    <2>7. ses' = [s \in Sessions |-> ses'[s]]
      BY <2>3
    <2> QED BY <2>1, <2>4, <2>6, <2>7 DEF IInv, HandedOver
  <1> QED BY <1>1, <1>2, <1>3, <1>4, <1>5, <1>6 DEF Handle

\* The polling thread (run, read_outputs).
LEMMA LoopIInv ==
    ASSUME IInv, NEW c \in Conns, LoopStep(c)
    PROVE  IInv'
  <1>1. CASE LoopOnly
    BY <1>1 DEF LoopOnly, IInv, HandedOver
  <1>2. CASE RemoveService(c)
    BY <1>2, StopStep DEF RemoveService, remove_service
  <1>3. ASSUME NEW t \in Terminals, Clean(c, t) PROVE IInv'
    <2>1. PICK S : /\ ses' = [s \in Sessions |->
                                 IF s \in S THEN Orphan(ses[s]) ELSE ses[s]]
                   /\ tasks' = tasks \union {x \in S : ses[x].child}
      BY <1>3, ZenonT(60) DEF Clean, Orphan
    <2>2. UNCHANGED <<proc, fails>>
      BY <1>3 DEF Clean
    <2>3. \A s \in Sessions : /\ Shape(ses'[s]) /\ ses'[s].child = (ses[s].child /\ s \notin S)
                              /\ Resizing(ses[s]) => Resizing(ses'[s])
      BY <2>1, Orphaned, ZenonT(60) DEF IInv, Shape
    <2>4. HandedOver'
      BY <2>1, <2>2, <2>3, ZenonT(60) DEF IInv, HandedOver
    <2> QED BY <2>1, <2>2, <2>3, <2>4, ZenonT(60) DEF IInv
  <1>4. ASSUME NEW e \in loop[c].todo, Poll(c, e) PROVE IInv'
    <2>1. PICK s : s = e[2]
      OBVIOUS
    <2>2. UNCHANGED <<proc, tasks>>
      BY <1>4, ZenonT(60) DEF Poll
    <2>3. Shape(ses[s]) => AsSized(ses[s], Drained(s))
      BY DEF Drained, AsSized, Shape, Fields
    <2>4. CASE ses' = [ses EXCEPT ![s] = Drained(s)] /\ UNCHANGED fails
      BY <2>2, <2>3, <2>4, OutputStep, ZenonT(60)
    <2>5. CASE /\ ses[s].active
               /\ \E ok \in BOOLEAN :
                     /\ ok => ses[s].size # "none" \/ ses[s].sigwinch.retries = 0
                     /\ fails' = IF ok \/ ses[s].size = "none" THEN fails ELSE fails + 1
                     /\ \E w \in Sigwinch(ses[s], ok) :
                          ses' = [ses EXCEPT ![s] =
                                    [Drained(s) EXCEPT !.pending = <<>>, !.recent = Drained(s).recent \/ ses[s].out # <<>>,
                                              !.sigwinch = w.sigwinch, !.size = w.size]]
      <3>0. PICK ok \in BOOLEAN :
                     /\ ok => ses[s].size # "none" \/ ses[s].sigwinch.retries = 0
                     /\ fails' = IF ok \/ ses[s].size = "none" THEN fails ELSE fails + 1
                     /\ \E w \in Sigwinch(ses[s], ok) :
                          ses' = [ses EXCEPT ![s] =
                                    [Drained(s) EXCEPT !.pending = <<>>, !.recent = Drained(s).recent \/ ses[s].out # <<>>,
                                              !.sigwinch = w.sigwinch, !.size = w.size]]
        BY <2>5, ZenonT(60)
      <3>1. PICK w \in Sigwinch(ses[s], ok) :
               ses' = [ses EXCEPT ![s] =
                         [Drained(s) EXCEPT !.pending = <<>>, !.recent = Drained(s).recent \/ ses[s].out # <<>>,
                                            !.sigwinch = w.sigwinch, !.size = w.size]]
        BY <3>0, ZenonT(60)
      <3>2. fails' \in Nat /\ (fails' = 0 => fails = 0 /\ (ok \/ ses[s].size = "none"))
        BY <3>0 DEF IInv
      <3> DEFINE z == [Drained(s) EXCEPT !.pending = <<>>, !.recent = Drained(s).recent \/ ses[s].out # <<>>,
                                         !.sigwinch = w.sigwinch, !.size = w.size]
      <3>3. ASSUME s \in Sessions
            PROVE  /\ Shape(z) /\ z.child = ses[s].child
                   /\ Resizing(ses[s]) /\ (ok \/ ses[s].size = "none") => Resizing(z)
        <4>1. Shape(ses[s]) /\ AsSized(ses[s], Drained(s))
          BY <2>3, <3>3 DEF IInv
        <4>2. DOMAIN Drained(s) = Fields /\ Drained(s).active = ses[s].active
              /\ Drained(s).child = ses[s].child
          BY <4>1 DEF AsSized, Shape
        <4>3. /\ DOMAIN z = Fields /\ z.active = ses[s].active /\ z.child = ses[s].child
              /\ z.sigwinch = w.sigwinch /\ z.size = w.size
          BY <4>2 DEF Fields
        <4> HIDE DEF z
        <4>4. ses[s].active /\ w \in Sigwinch(ses[s], ok)
              /\ (ok => ses[s].size # "none" \/ ses[s].sigwinch.retries = 0)
          BY <2>5, <3>0, <3>1
        <4> QED BY <4>1, <4>3, <4>4, SigwinchStep, ZenonT(60)
      <3> HIDE DEF z
      <3>4. \A x \in Sessions : ses'[x] = IF x = s THEN z ELSE ses[x]
        BY <3>1 DEF IInv, z
      <3>5. ses' = [x \in Sessions |-> ses'[x]]
        BY <3>1, ZenonT(60) DEF IInv
      <3> QED BY <2>2, <3>2, <3>3, <3>4, <3>5 DEF IInv, HandedOver
    <2>6. \/ ses' = [ses EXCEPT ![s] = Drained(s)] /\ UNCHANGED fails
          \/ /\ ses[s].active
             /\ \E ok \in BOOLEAN :
                     /\ ok => ses[s].size # "none" \/ ses[s].sigwinch.retries = 0
                     /\ fails' = IF ok \/ ses[s].size = "none" THEN fails ELSE fails + 1
                     /\ \E w \in Sigwinch(ses[s], ok) :
                          ses' = [ses EXCEPT ![s] =
                                    [Drained(s) EXCEPT !.pending = <<>>, !.recent = Drained(s).recent \/ ses[s].out # <<>>,
                                              !.sigwinch = w.sigwinch, !.size = w.size]]
      BY <1>4, <2>1, ZenonT(120) DEF Poll
    <2> QED BY <2>4, <2>5, <2>6, ZenonT(60)
  <1> QED BY <1>1, <1>2, <1>3, <1>4, ZenonT(60) DEF LoopStep, Enter, Collect, Reread, Leave, Skip

\* The shells, the reader threads and the cleanup thread.
LEMMA OtherStep ==
    ASSUME IInv, \/ Age \/ CleanupStep
                 \/ \E s \in Sessions : \/ \E n \in 1 .. MaxRead : Read(s, n)
                                        \/ ReadEof(s) \/ Exit(s) \/ DropSession(s)
    PROVE  IInv'
  <1>1. ASSUME NEW s \in Sessions, NEW n \in 1 .. MaxRead, Read(s, n) PROVE IInv'
    <2>1. PICK m, d : LET x == ses[s]
                      IN  ses' = [ses EXCEPT ![s] = Send([x EXCEPT !.read = x.read + n, !.rem = m], d)]
      BY <1>1, ZenonT(60) DEF Read
    <2> DEFINE y == [ses[s] EXCEPT !.read = ses[s].read + n, !.rem = m]
    <2>2. Shape(ses[s]) => Shape(y) /\ AsSized(ses[s], y)
      BY DEF Shape, AsSized, Fields
    <2>3. ses' = [ses EXCEPT ![s] = Send(y, d)]
      BY <2>1
    <2> HIDE DEF y
    <2>4. Shape(ses[s]) => AsSized(ses[s], Send(y, d))
      BY <2>2, Operators, ZenonT(60) DEF AsSized
    <2>5. UNCHANGED <<proc, tasks, fails>>
      BY <1>1, ZenonT(60) DEF Read
    <2> QED BY <2>3, <2>4, <2>5, OutputStep, ZenonT(60)
  <1>2. ASSUME NEW s \in Sessions, ReadEof(s) PROVE IInv'
    <2> DEFINE y == [ses[s] EXCEPT !.reader = "done", !.rem = <<>>]
    <2>1. ses' = [ses EXCEPT ![s] = Send(y, ses[s].rem)] /\ UNCHANGED <<proc, tasks, fails>>
      BY <1>2, ZenonT(60) DEF ReadEof
    <2>2. Shape(ses[s]) => Shape(y) /\ AsSized(ses[s], y)
      BY DEF Shape, AsSized, Fields
    <2> HIDE DEF y
    <2>3. Shape(ses[s]) => AsSized(ses[s], Send(y, ses[s].rem))
      BY <2>2, Operators, ZenonT(60) DEF AsSized
    <2> QED BY <2>1, <2>3, OutputStep, ZenonT(60)
  <1>3. ASSUME NEW s \in Sessions, Exit(s) PROVE IInv'
    BY <1>3 DEF Exit, IInv, HandedOver
  <1>4. ASSUME NEW s \in Sessions, DropSession(s) PROVE IInv'
    BY <1>4, StopStep DEF DropSession
  <1>5. CASE Age
    <2>1. ses' = [s \in Sessions |-> [ses[s] EXCEPT !.recent = FALSE]]
          /\ UNCHANGED <<proc, tasks, fails>>
      BY <1>5 DEF Age
    <2>2. \A s \in Sessions : AsSized(ses[s], ses'[s])
      BY <2>1 DEF IInv, Shape, AsSized, Fields
    <2>3. \A s \in Sessions : /\ Shape(ses'[s]) /\ ses'[s].child = ses[s].child
                              /\ Resizing(ses[s]) => Resizing(ses'[s])
      BY <2>2 DEF IInv, AsSized, Shape, Resizing
    <2>4. ses' = [s \in Sessions |-> ses'[s]]
      BY <2>1
    <2> QED BY <2>1, <2>3, <2>4 DEF IInv, HandedOver
  <1>6. CASE ChooseIdle
    BY <1>6 DEF ChooseIdle, IInv, HandedOver
  <1>7. CASE RemoveIdle
    BY <1>7, StopStep DEF RemoveIdle, remove_service
  <1>8. ASSUME NEW s \in Sessions, Reap(s) PROVE IInv'
    BY <1>8 DEF Reap, IInv, HandedOver
  <1> QED BY <1>1, <1>2, <1>3, <1>4, <1>5, <1>6, <1>7, <1>8 DEF CleanupStep

-----------------------------------------------------------------------------
\* The invariant is inductive.
LEMMA Inductive == Spec => []IInv
  <1>1. Init => IInv
    <2> SUFFICES ASSUME Init PROVE IInv
      OBVIOUS
    <2>1. Shape(NewSession) /\ Resizing(NewSession) /\ NewSession.child
      BY DEF NewSession, Idle, Shape, Resizing, Fields, Phases
    <2> QED BY <2>1 DEF Init, IInv, HandedOver
  <1>2. IInv /\ [Next]_vars => IInv'
    <2> SUFFICES ASSUME IInv, [Next]_vars PROVE IInv'
      OBVIOUS
    <2>1. CASE UNCHANGED <<ses, proc, tasks, fails>>
      BY <2>1 DEF IInv, HandedOver
    <2>2. ASSUME NEW c \in Conns, \/ \E p \in BOOLEAN : Attach(c, p) \/ SetPersistent(c, p)
                                  \/ AttachRefused(c) \/ Disconnect(c)
                                  \/ \E op \in {"open", "close", "resize"}, t \in Terminals :
                                        handle_action(c, op, t)
                                  \/ Handle(c) \/ LoopStep(c)
          PROVE  IInv'
      <3>1. CASE Handle(c) \/ \E p \in BOOLEAN : Attach(c, p)
        BY <3>1, HandlerStep
      <3>2. CASE LoopStep(c)
        BY <3>2, LoopIInv
      <3>3. CASE \/ \E p \in BOOLEAN : SetPersistent(c, p)
                 \/ AttachRefused(c) \/ Disconnect(c)
                 \/ \E op \in {"open", "close", "resize"}, t \in Terminals : handle_action(c, op, t)
        BY <2>1, <3>3, ZenonT(60) DEF SetPersistent, AttachRefused, Disconnect, handle_action
      <3> QED BY <2>2, <3>1, <3>2, <3>3
    <2>3. CASE \/ Age \/ CleanupStep
               \/ \E s \in Sessions : \/ \E n \in 1 .. MaxRead : Read(s, n)
                                      \/ ReadEof(s) \/ Exit(s) \/ DropSession(s)
      BY <2>3, OtherStep
    <2>4. CASE UNCHANGED vars
      BY <2>1, <2>4 DEF vars
    <2> QED BY <2>2, <2>3, <2>4 DEF Next
  <1> QED BY <1>1, <1>2, PTL DEF Spec

\* While no resize fails, a watched session is back at its own size when the two
\* resizes are over (handle_open, read_outputs).
THEOREM SizesRestored == Spec => []SizeRestored
  <1>1. IInv => SizeRestored
    BY DEF IInv, Resizing, SizeRestored, Idle
  <1> QED BY <1>1, Inductive, PTL

\* No shell is lost: the child leaves its session only into the hands of the
\* reaper, by whatever thread and however often (handle_close, stop, read_outputs).
THEOREM ShellsHandedOver == Spec => []HandedOver
  <1>1. IInv => HandedOver
    BY DEF IInv
  <1> QED BY <1>1, Inductive, PTL

-----------------------------------------------------------------------------
(* How the output of one session moves on.                                 *)

\* The output of y is that of x.
SameOutput(x, y) ==
    /\ y.buf = x.buf /\ y.out = x.out /\ y.rem = x.rem /\ y.read = x.read /\ y.sent = x.sent
    /\ y.reader = x.reader /\ y.active = x.active /\ y.pending = x.pending

\* Nobody watches the session any more (reset_status).
Detaches(x, y) ==
    /\ y.buf = x.buf /\ y.out = x.out /\ y.rem = x.rem /\ y.read = x.read /\ y.sent = x.sent
    /\ y.reader = x.reader /\ y.active = FALSE /\ y.pending = <<>>

\* The channel is closed and what is in it is lost (stop).
Stops(x, y) ==
    /\ y.active = FALSE /\ y.pending = <<>> /\ y.out = <<>> /\ y.rem = <<>> /\ y.reader = "none"
    /\ y.buf = x.buf /\ y.sent = x.sent /\ y.read = 0

\* Data enter the channel, or are lost (try_send_output).
Sends(x, y, d) ==
    /\ y.buf = x.buf /\ y.pending = x.pending /\ y.active = x.active
    /\ \/ y.out = x.out /\ y.sent = x.sent
       \/ /\ y.out = Append(x.out, [i \in DOMAIN d |-> <<x.sent + i, d[i][2]>>])
          /\ y.sent = x.sent + Len(d)

\* What the shell printed after k bytes.
Chunk(k, n) == [i \in 1 .. n |-> <<0, load.prints[k + i]>>]

\* The reader thread reads n bytes.
Reads(x, y, n) ==
    LET r == push_chunk(x.rem, Chunk(x.read, n))
    IN  /\ x.reader = "run" /\ y.reader = "run" /\ x.read + n <= Len(load.prints)
        /\ y.read = x.read + n /\ y.rem = r.remainder /\ Sends(x, y, r.data)

\* The reader thread ends.
Ends(x, y) == x.reader = "run" /\ y.reader = "done" /\ y.rem = <<>> /\ y.read = x.read
              /\ Sends(x, y, x.rem)

\* The channel is emptied into the buffer (handle_open, read_outputs).
Drains(x, y) ==
    /\ y.buf = append_all(x.buf, x.out) /\ y.out = <<>>
    /\ y.rem = x.rem /\ y.read = x.read /\ y.sent = x.sent /\ y.reader = x.reader

\* What a thread does to the output of a session other than emptying its channel,
\* while the same connection watches it.
Goes(x, y) ==
    SameOutput(x, y) \/ Stops(x, y) \/ Ends(x, y) \/ \E n \in 1 .. MaxRead : Reads(x, y, n)

Keeps(x, y) == Goes(x, y) \/ Detaches(x, y)

\* The session that handle_open finds.
Reopens(x, y) ==
    Drains(x, y) /\ y.active = TRUE /\ y.pending = get_recent(y.buf, DEFAULT_RECONNECT_BUFFER_BYTES)

\* The session that read_outputs reads: the replay goes out with the channel.
Polls(x, y) ==
    /\ Drains(x, y) /\ y.active = x.active
    /\ y.pending = IF x.active THEN <<>> ELSE x.pending

-----------------------------------------------------------------------------
\* What the operators make of the output of a session (stop, reset_status,
\* handle_close, handle_resize, handle_open).
LEMMA OutputOperators ==
    ASSUME NEW x, Shape(x)
    PROVE  /\ Goes(x, x) /\ Goes(x, Stopped(x)) /\ Detaches(x, Detach(x)) /\ Goes(x, Orphan(x))
           /\ Goes(x, [x EXCEPT !.recent = FALSE])
           /\ \A failed \in BOOLEAN : Goes(x, Sized(x, failed))
           /\ Reopens(x, Reattached(x))
  <1>1. Goes(x, x)
    BY DEF Goes, SameOutput
  <1>2. Stops(x, Stopped(x))
    BY DEF Stopped, Stops, Shape, Fields
  <1>3. Detaches(x, Detach(x))
    BY DEF Detach, Detaches, Shape, Fields
  <1>4. SameOutput(x, Orphan(x))
    BY DEF Orphan, SameOutput, Shape, Fields
  <1>5. SameOutput(x, [x EXCEPT !.recent = FALSE])
    BY DEF SameOutput, Shape, Fields
  <1>6. \A failed \in BOOLEAN : SameOutput(x, Sized(x, failed))
    BY DEF Sized, SameOutput, Shape, Fields
  <1>7. Reopens(x, Reattached(x))
    BY DEF Reopens, Drains, Reattached, Shape, Fields
  <1> QED BY <1>1, <1>2, <1>3, <1>4, <1>5, <1>6, <1>7, Zenon DEF Goes

\* Sessions that are stopped (remove_service, Drop).
LEMMA StopKeeps ==
    ASSUME IInv, NEW S, StopAll(S)
    PROVE  \A s \in Sessions : Goes(ses[s], ses'[s])
  <1>1. \A s \in Sessions : ses'[s] = IF s \in S THEN Stopped(ses[s]) ELSE ses[s]
    BY DEF StopAll
  <1> QED BY <1>1, OutputOperators, Zenon DEF IInv

\* The reader thread of a session (the loop around reader.read).
LEMMA ReaderKeeps ==
    ASSUME IInv, NEW s \in Sessions, ReadEof(s) \/ \E n \in 1 .. MaxRead : Read(s, n)
    PROVE  \A x \in Sessions : Goes(ses[x], ses'[x])
  <1>0. DOMAIN ses[s] = Fields /\ ses = [x \in Sessions |-> ses[x]]
    BY DEF IInv, Shape
  <1>1. ASSUME NEW n \in 1 .. MaxRead, Read(s, n) PROVE Goes(ses[s], ses'[s])
    <2> DEFINE r == push_chunk(ses[s].rem, Chunk(ses[s].read, n))
               z == [ses[s] EXCEPT !.read = @ + n, !.rem = r.remainder]
    <2>1. ses' = [ses EXCEPT ![s] = Send(z, r.data)] /\ ses[s].reader = "run"
          /\ ses[s].read + n <= Len(load.prints)
      BY <1>1, Zenon DEF Read, Chunk
    <2> HIDE DEF r
    <2>2. /\ z.buf = ses[s].buf /\ z.pending = ses[s].pending /\ z.active = ses[s].active
          /\ z.out = ses[s].out /\ z.sent = ses[s].sent /\ z.reader = ses[s].reader
          /\ z.read = ses[s].read + n /\ z.rem = r.remainder /\ DOMAIN z = Fields
      BY <1>0 DEF Fields
    <2> HIDE DEF z
    <2>3. Sends(ses[s], Send(z, r.data), r.data) /\ Send(z, r.data).reader = z.reader
          /\ Send(z, r.data).read = z.read /\ Send(z, r.data).rem = z.rem
      BY <2>2 DEF Send, Sends, Fields
    <2>4. ses'[s] = Send(z, r.data)
      BY <1>0, <2>1
    <2>5. Reads(ses[s], ses'[s], n)
      BY <2>1, <2>2, <2>3, <2>4, Zenon DEF Reads, r
    <2> QED BY <2>5, Zenon DEF Goes
  <1>2. ASSUME ReadEof(s) PROVE Goes(ses[s], ses'[s])
    <2> DEFINE z == [ses[s] EXCEPT !.reader = "done", !.rem = <<>>]
               d == ses[s].rem
    <2>1. ses' = [ses EXCEPT ![s] = Send(z, d)] /\ ses[s].reader = "run"
      BY <1>2, Zenon DEF ReadEof
    <2>2. /\ z.buf = ses[s].buf /\ z.pending = ses[s].pending /\ z.active = ses[s].active
          /\ z.out = ses[s].out /\ z.sent = ses[s].sent /\ z.reader = "done"
          /\ z.read = ses[s].read /\ z.rem = <<>> /\ DOMAIN z = Fields
      BY <1>0 DEF Fields
    <2> HIDE DEF z, d
    <2>3. Sends(ses[s], Send(z, d), d) /\ Send(z, d).reader = z.reader
          /\ Send(z, d).read = z.read /\ Send(z, d).rem = z.rem
      BY <2>2 DEF Send, Sends, Fields
    <2>4. ses'[s] = Send(z, d)
      BY <1>0, <2>1
    <2>5. Ends(ses[s], ses'[s])
      BY <2>1, <2>2, <2>3, <2>4, Zenon DEF Ends, d
    <2> QED BY <2>5, Zenon DEF Goes
  <1>3. \A x \in Sessions : x # s => ses'[x] = ses[x]
    <2>1. PICK z : ses' = [ses EXCEPT ![s] = z]
      BY Zenon DEF Read, ReadEof
    <2> QED BY <1>0, <2>1
  <1>4. \A x \in Sessions : Goes(ses[x], ses[x])
    BY OutputOperators, Zenon DEF IInv
  <1> QED BY <1>1, <1>2, <1>3, <1>4, Zenon

\* A handler of a connection but for handle_open on a terminal that exists.
LEMMA HandlerKeeps ==
    ASSUME IInv, NEW c \in Conns,
           \/ Open(c) \/ OpenFailed(c) \/ handle_close(c) \/ handle_resize(c)
    PROVE  \A s \in Sessions : Goes(ses[s], ses'[s])
  <1>0. \A s \in Sessions : Shape(ses[s]) /\ Goes(ses[s], ses[s])
    BY OutputOperators, Zenon DEF IInv
  <1>1. CASE Open(c) \/ OpenFailed(c)
    <2>1. ses' = ses
      BY <1>1, Zenon DEF Open, OpenFailed
    <2> QED BY <1>0, <2>1, Zenon
  <1>2. CASE handle_close(c)
    <2>1. PICK S : ses' = [s \in Sessions |-> IF s \in S THEN Orphan(ses[s]) ELSE ses[s]]
      BY <1>2, Zenon DEF handle_close, Orphan
    <2>2. \A s \in Sessions : ses'[s] = Orphan(ses[s]) \/ ses'[s] = ses[s]
      BY <2>1
    <2> QED BY <1>0, <2>2, OutputOperators, Zenon
  <1>3. CASE handle_resize(c)
    <2>1. PICK failed \in BOOLEAN :
            \E S : ses' = [s \in Sessions |-> IF s \notin S THEN ses[s] ELSE Sized(ses[s], failed)]
      BY <1>3, Zenon DEF handle_resize, Sized
    <2>2. \A s \in Sessions : ses'[s] = Sized(ses[s], failed) \/ ses'[s] = ses[s]
      BY <2>1
    <2> QED BY <1>0, <2>1, <2>2, OutputOperators, Zenon
  <1> QED BY <1>1, <1>2, <1>3, Zenon

\* A connection that attaches detaches the sessions it finds (reset_status).
LEMMA AttachOutput ==
    ASSUME IInv, NEW c \in Conns, NEW p \in BOOLEAN, Attach(c, p)
    PROVE  \A s \in Sessions : IF reg = reg' /\ s \in SessionsOf(reg)
                               THEN Detaches(ses[s], ses'[s]) ELSE ses'[s] = ses[s]
  <1>1. reg' \in Services /\ ses' = [s \in Sessions |->
                IF reg = reg' /\ s \in SessionsOf(reg') THEN Detach(ses[s]) ELSE ses[s]]
    BY Zenon DEF Attach, Detach
  <1>2. \A s \in Sessions : ses'[s] = IF reg = reg' /\ s \in SessionsOf(reg')
                                     THEN Detach(ses[s]) ELSE ses[s]
    BY <1>1
  <1>3. \A s \in Sessions : Detaches(ses[s], Detach(ses[s]))
    BY OutputOperators, Zenon DEF IInv
  <1> QED BY <1>2, <1>3, Zenon

\* handle_open on a terminal that exists.
LEMMA ReopenOutput ==
    ASSUME IInv, NEW c \in Conns, Reopen(c)
    PROVE  LET s == Remap(act[c].svc, act[c].t)[act[c].t]
           IN  \A x \in Sessions : IF x = s THEN Reopens(ses[x], ses'[x]) ELSE ses'[x] = ses[x]
  <1> DEFINE s == Remap(act[c].svc, act[c].t)[act[c].t]
  <1>1. ses' = [ses EXCEPT ![s] = Reattached(ses[s])]
    BY Zenon DEF Reopen
  <1> HIDE DEF s
  <1>2. \A x \in Sessions : ses'[x] = IF x = s THEN Reattached(ses[x]) ELSE ses[x]
    BY <1>1 DEF IInv
  <1>3. \A x \in Sessions : Reopens(ses[x], Reattached(ses[x]))
    BY OutputOperators, Zenon DEF IInv
  <1>4. \A x \in Sessions : IF x = s THEN Reopens(ses[x], ses'[x]) ELSE ses'[x] = ses[x]
    BY <1>2, <1>3, Zenon
  <1> QED BY <1>4 DEF s

\* read_outputs on one session.
LEMMA PollOutput ==
    ASSUME IInv, NEW c \in Conns, NEW e, Poll(c, e)
    PROVE  \A x \in Sessions : IF x = e[2] THEN Polls(ses[x], ses'[x]) ELSE ses'[x] = ses[x]
  <1> DEFINE s == e[2]
             y == Drained(s)
             z(w) == [y EXCEPT !.pending = <<>>, !.recent = Drained(s).recent \/ ses[s].out # <<>>,
                               !.sigwinch = w.sigwinch, !.size = w.size]
  <1>1. \/ ~ses[s].active /\ ses' = [ses EXCEPT ![s] = y]
        \/ ses[s].active /\ \E w : ses' = [ses EXCEPT ![s] = z(w)]
    BY ZenonT(60) DEF Poll
  <1>2. ASSUME s \in Sessions
        PROVE  /\ Drains(ses[s], y) /\ y.active = ses[s].active /\ y.pending = ses[s].pending
               /\ \A w : Drains(ses[s], z(w)) /\ z(w).active = ses[s].active /\ z(w).pending = <<>>
    <2>0. DOMAIN ses[s] = Fields
      BY <1>2 DEF IInv, Shape
    <2>1. /\ Drains(ses[s], y) /\ y.active = ses[s].active /\ y.pending = ses[s].pending
          /\ DOMAIN y = Fields
      BY <2>0 DEF Drained, Drains, Fields
    <2> HIDE DEF y
    <2>2. ASSUME NEW w
          PROVE  Drains(ses[s], z(w)) /\ z(w).active = ses[s].active /\ z(w).pending = <<>>
      <3>1. /\ z(w).buf = y.buf /\ z(w).out = y.out /\ z(w).rem = y.rem /\ z(w).read = y.read
            /\ z(w).sent = y.sent /\ z(w).reader = y.reader /\ z(w).active = y.active
            /\ z(w).pending = <<>>
        BY <2>1 DEF Fields
      <3> HIDE DEF z
      <3> QED BY <2>1, <3>1, Zenon DEF Drains
    <2> QED BY <2>1, <2>2, Zenon DEF y
  <1> HIDE DEF y, z, s
  <1>3. CASE ~ses[s].active /\ ses' = [ses EXCEPT ![s] = y]
    <2>1. \A x \in Sessions : ses'[x] = IF x = s THEN y ELSE ses[x]
      BY <1>3 DEF IInv
    <2> QED BY <1>2, <1>3, <2>1, ZenonT(60) DEF Polls, s
  <1>4. ASSUME ses[s].active, NEW w, ses' = [ses EXCEPT ![s] = z(w)]
        PROVE  \A x \in Sessions : IF x = e[2] THEN Polls(ses[x], ses'[x]) ELSE ses'[x] = ses[x]
    <2>1. \A x \in Sessions : ses'[x] = IF x = s THEN z(w) ELSE ses[x]
      BY <1>4 DEF IInv
    <2>2. s \in Sessions => Polls(ses[s], z(w))
      BY <1>2, <1>4, Zenon DEF Polls
    <2> QED BY <2>1, <2>2, Zenon DEF s
  <1> QED BY <1>1, <1>3, <1>4, Zenon

\* Every step leaves the output of every session as it is, moves it on in one of
\* these ways, and never touches what the shell prints.
LEMMA Evolution ==
    ASSUME IInv, [Next]_vars
    PROVE  /\ load' = load
           /\ \A s \in Sessions : \/ Keeps(ses[s], ses'[s]) \/ Reopens(ses[s], ses'[s])
                                  \/ Polls(ses[s], ses'[s])
  <1>0. \A s \in Sessions : Shape(ses[s]) /\ Goes(ses[s], ses[s])
    BY OutputOperators, Zenon DEF IInv
  <1>1. CASE ses' = ses /\ load' = load
    BY <1>0, <1>1, Zenon DEF Keeps
  <1>2. ASSUME NEW c \in Conns, \/ Open(c) \/ OpenFailed(c) \/ handle_close(c) \/ handle_resize(c)
                                \/ \E p \in BOOLEAN : Attach(c, p)
        PROVE  load' = load /\ \A s \in Sessions : Keeps(ses[s], ses'[s])
    <2>1. load' = load
      BY <1>2, Zenon DEF Open, OpenFailed, handle_close, handle_resize, Attach
    <2>2. CASE \E p \in BOOLEAN : Attach(c, p)
      BY <1>0, <2>1, <2>2, AttachOutput, Zenon DEF Keeps
    <2> QED BY <1>2, <2>1, <2>2, HandlerKeeps, Zenon DEF Keeps
  <1>3. ASSUME NEW c \in Conns, Reopen(c)
        PROVE  load' = load /\ \A s \in Sessions : Keeps(ses[s], ses'[s]) \/ Reopens(ses[s], ses'[s])
    <2>1. load' = load
      BY <1>3, Zenon DEF Reopen
    <2> QED BY <1>0, <1>3, <2>1, ReopenOutput, Zenon DEF Keeps
  <1>4. ASSUME NEW c \in Conns, NEW e, Poll(c, e)
        PROVE  load' = load /\ \A s \in Sessions : Keeps(ses[s], ses'[s]) \/ Polls(ses[s], ses'[s])
    <2>1. load' = load
      BY <1>4, Zenon DEF Poll
    <2> QED BY <1>0, <1>4, <2>1, PollOutput, Zenon DEF Keeps
  <1>5. ASSUME NEW c \in Conns, NEW t, Clean(c, t)
        PROVE  load' = load /\ \A s \in Sessions : Keeps(ses[s], ses'[s])
    <2>1. load' = load
      BY <1>5, Zenon DEF Clean
    <2>2. PICK S : ses' = [s \in Sessions |-> IF s \in S THEN Orphan(ses[s]) ELSE ses[s]]
      BY <1>5, Zenon DEF Clean, Orphan
    <2>3. \A s \in Sessions : ses'[s] = Orphan(ses[s]) \/ ses'[s] = ses[s]
      BY <2>2
    <2> QED BY <1>0, <2>1, <2>3, OutputOperators, Zenon DEF Keeps
  <1>6. ASSUME NEW c \in Conns, RemoveService(c)
        PROVE  load' = load /\ \A s \in Sessions : Keeps(ses[s], ses'[s])
    BY <1>6, StopKeeps, Zenon DEF Keeps, RemoveService, remove_service
  <1>7. CASE RemoveIdle
    BY <1>7, StopKeeps, Zenon DEF Keeps, RemoveIdle, remove_service
  <1>8. ASSUME NEW s \in Sessions, DropSession(s)
        PROVE  load' = load /\ \A x \in Sessions : Keeps(ses[x], ses'[x])
    BY <1>8, StopKeeps, Zenon DEF Keeps, DropSession
  <1>9. ASSUME NEW s \in Sessions, ReadEof(s) \/ \E n \in 1 .. MaxRead : Read(s, n)
        PROVE  load' = load /\ \A x \in Sessions : Keeps(ses[x], ses'[x])
    BY <1>9, ReaderKeeps, Zenon DEF Keeps, ReadEof, Read
  <1>10. CASE Age
    <2>1. load' = load /\ \A s \in Sessions : ses'[s] = [ses[s] EXCEPT !.recent = FALSE]
      BY <1>10 DEF Age
    <2> QED BY <1>0, <2>1, OutputOperators, ZenonT(60) DEF Keeps
  <1>11. ASSUME NEW c \in Conns, \/ \E p \in BOOLEAN : SetPersistent(c, p)
                                 \/ AttachRefused(c) \/ Disconnect(c)
                                 \/ \E op \in {"open", "close", "resize"}, t \in Terminals :
                                       handle_action(c, op, t)
                                 \/ Enter(c) \/ Collect(c) \/ Reread(c) \/ Leave(c)
                                 \/ \E e \in loop[c].todo : Skip(c, e)
         PROVE  ses' = ses /\ load' = load
    BY <1>11, Zenon DEF SetPersistent, AttachRefused, Disconnect, handle_action, Enter, Collect,
                        Reread, Leave, Skip, LoopOnly
  <1>12. ASSUME \/ ChooseIdle \/ \E s \in Sessions : Exit(s) \/ Reap(s)
         PROVE  ses' = ses /\ load' = load
    BY <1>12, Zenon DEF ChooseIdle, Exit, Reap
  <1>13. CASE UNCHANGED vars
    BY <1>1, <1>13 DEF vars
  <1>14. CASE Next
    <2>1. ASSUME NEW c \in Conns, \/ \E p \in BOOLEAN : Attach(c, p) \/ SetPersistent(c, p)
                                  \/ AttachRefused(c) \/ Disconnect(c)
                                  \/ \E op \in {"open", "close", "resize"}, t \in Terminals :
                                        handle_action(c, op, t)
                                  \/ Handle(c) \/ LoopStep(c)
          PROVE  /\ load' = load
                 /\ \A s \in Sessions : \/ Keeps(ses[s], ses'[s]) \/ Reopens(ses[s], ses'[s])
                                        \/ Polls(ses[s], ses'[s])
      <3>1. CASE Handle(c) \/ \E p \in BOOLEAN : Attach(c, p)
        BY <1>2, <1>3, <3>1, Zenon DEF Handle
      <3>2. CASE LoopStep(c)
        BY <1>1, <1>4, <1>5, <1>6, <1>11, <3>2, Zenon DEF LoopStep
      <3>3. CASE \/ \E p \in BOOLEAN : SetPersistent(c, p)
                 \/ AttachRefused(c) \/ Disconnect(c)
                 \/ \E op \in {"open", "close", "resize"}, t \in Terminals : handle_action(c, op, t)
        BY <1>1, <1>11, <3>3, Zenon
      <3> QED BY <2>1, <3>1, <3>2, <3>3, Zenon
    <2> QED BY <1>1, <1>7, <1>8, <1>9, <1>10, <1>12, <1>14, <2>1, Zenon DEF Next, CleanupStep
  <1> QED BY <1>13, <1>14

-----------------------------------------------------------------------------
(* Who refers to what.                                                     *)

ServiceFields == {"persistent", "sync", "idle", "sessions"}
ThreadFields == {"pc", "svc", "persistent", "todo", "closed", "kept"}

\* Where a polling thread holds no service.
AtRest == {"none", "spawned", "poll", "remove", "end"}

\* The terminals of a service: one session each, none under two ids.
Mapped(m) ==
    /\ m \in [DOMAIN m -> Sessions] /\ DOMAIN m \subseteq Terminals
    /\ \A t, u \in DOMAIN m : m[t] = m[u] => t = u

\* The polling thread of a connection.
Threaded(l, cn) ==
    /\ DOMAIN l = ThreadFields /\ l.pc \in AtRest \union {"read", "clean"}
    /\ l.pc \in AtRest => l.svc = NoService /\ l.todo = {}
    /\ l.pc \notin AtRest => l.svc \in Services
    /\ l.pc = "clean" => l.todo = {}
    /\ cn \in {"new", "on", "gone"} /\ (l.pc = "none" <=> cn = "new")
    /\ l.pc \in {"remove", "end"} => cn = "gone"
    /\ l.todo \subseteq Terminals \X Sessions

\* The action a connection is at.
Acting(a, cn) ==
    \/ a = NoAct
    \/ /\ cn = "on" /\ a.op \in {"open", "close", "resize"}
       /\ a.svc \in Services /\ a.t \in Terminals

LinkedServices ==
    /\ reg \in Services \union {NoService} /\ svc = [o \in Services |-> svc[o]]
    /\ \A o \in Services : /\ DOMAIN svc[o] = ServiceFields /\ Mapped(svc[o].sessions)
                           /\ \A t \in DOMAIN svc[o].sessions : proc[svc[o].sessions[t]] # "none"

LinkedConns ==
    /\ conn = [c \in Conns |-> conn[c]] /\ act = [c \in Conns |-> act[c]]
    /\ loop = [c \in Conns |-> loop[c]]
    /\ \A c \in Conns : /\ Threaded(loop[c], conn[c]) /\ Acting(act[c], conn[c])
                        /\ \A e \in loop[c].todo : proc[e[2]] # "none"

\* What is referred to exists.
Links == LinkedServices /\ LinkedConns

-----------------------------------------------------------------------------
(* Steps that give the client nothing and no thread more than it has.      *)

\* Terminals leave a service.
Shrinks(m, n) == DOMAIN n \subseteq DOMAIN m /\ n = [t \in DOMAIN n |-> m[t]]

\* A terminal leaves by handle_close or by a thread that cleans up.
QuietServices ==
    /\ reg' \in {reg, NoService} /\ svc' = [o \in Services |-> svc'[o]]
    /\ \A o \in Services :
         /\ DOMAIN svc'[o] = ServiceFields /\ Shrinks(svc[o].sessions, svc'[o].sessions)
         /\ \A t \in DOMAIN svc[o].sessions :
              \/ t \in DOMAIN svc'[o].sessions
              \/ \E c \in Conns : act[c].op = "close" /\ act[c].t = t
              \/ \E c \in Conns : loop[c].pc = "clean"

QuietConns ==
    /\ conn' = [c \in Conns |-> conn'[c]] /\ act' = [c \in Conns |-> act'[c]]
    /\ loop' = [c \in Conns |-> loop'[c]]
    /\ \A c \in Conns :
         /\ act'[c] = NoAct \/ (act'[c] = act[c] /\ conn'[c] = conn[c])
         /\ conn'[c] = conn[c] \/ conn'[c] = "gone"
         /\ loop[c].pc \in {"none", "end"} => loop'[c] = loop[c]
         /\ loop'[c].svc \in {loop[c].svc, NoService} /\ loop'[c].todo \subseteq loop[c].todo
         /\ Threaded(loop'[c], conn'[c])

QuietSessions == \A s \in Sessions : Goes(ses[s], ses'[s])

ShellsStay == \A s \in Sessions : proc[s] # "none" => proc'[s] # "none"

QuietClient == last' = last /\ asked' = asked /\ got' = got /\ plain' = plain

Quiet == QuietServices /\ QuietConns /\ QuietSessions /\ ShellsStay /\ QuietClient

\* Such steps keep what is referred to.
LEMMA QuietLinks ==
    ASSUME Links, ShellsStay
    PROVE  /\ QuietServices => LinkedServices'
           /\ QuietConns => LinkedConns'
  <1>1. ASSUME QuietServices PROVE LinkedServices'
    <2>1. ASSUME NEW o \in Services
          PROVE  /\ Mapped(svc'[o].sessions)
                 /\ \A t \in DOMAIN svc'[o].sessions : proc'[svc'[o].sessions[t]] # "none"
      <3> DEFINE m == svc[o].sessions
                 n == svc'[o].sessions
      <3>1. Mapped(m) /\ \A t \in DOMAIN m : m[t] \in Sessions /\ proc[m[t]] # "none"
        BY DEF Links, LinkedServices, Mapped
      <3>2. DOMAIN n \subseteq DOMAIN m /\ n = [t \in DOMAIN n |-> m[t]]
        BY <1>1, Zenon DEF QuietServices, Shrinks
      <3> HIDE DEF m, n
      <3>3. \A t \in DOMAIN n : t \in DOMAIN m /\ n[t] = m[t]
        BY <3>2
      <3>4. Mapped(n)
        BY <3>1, <3>2, <3>3 DEF Mapped
      <3> QED BY <3>1, <3>3, <3>4, Zenon DEF n, ShellsStay
    <2> QED BY <1>1, <2>1, Zenon DEF QuietServices, Links, LinkedServices
  <1>2. ASSUME QuietConns PROVE LinkedConns'
    <2>1. ASSUME NEW c \in Conns
          PROVE  /\ Threaded(loop'[c], conn'[c]) /\ Acting(act'[c], conn'[c])
                 /\ \A e \in loop'[c].todo : proc'[e[2]] # "none"
      <3>1. /\ Threaded(loop'[c], conn'[c]) /\ loop'[c].todo \subseteq loop[c].todo
            /\ act'[c] = NoAct \/ (act'[c] = act[c] /\ conn'[c] = conn[c])
        BY <1>2, Zenon DEF QuietConns
      <3>2. Acting(act[c], conn[c]) /\ Threaded(loop[c], conn[c])
            /\ \A e \in loop[c].todo : proc[e[2]] # "none"
        BY Zenon DEF Links, LinkedConns
      <3>3. \A e \in loop[c].todo : e[2] \in Sessions
        BY <3>2 DEF Threaded
      <3> QED BY <3>1, <3>2, <3>3, Zenon DEF Acting, ShellsStay
    <2> QED BY <1>2, <2>1, Zenon DEF QuietConns, LinkedConns
  <1> QED BY <1>1, <1>2

\* A part of the state that does not change is quiet.
LEMMA QuietSame ==
    ASSUME IInv, Links
    PROVE  /\ reg' \in {reg, NoService} /\ svc' = svc => QuietServices
           /\ conn' = conn /\ act' = act /\ loop' = loop => QuietConns
           /\ ses' = ses => QuietSessions
           /\ proc' = proc => ShellsStay
  <1>1. \A o \in Services : DOMAIN svc[o] = ServiceFields /\ Mapped(svc[o].sessions)
    BY Zenon DEF Links, LinkedServices
  <1>2. ASSUME NEW m, Mapped(m) PROVE Shrinks(m, m)
    <2>1. m \in [DOMAIN m -> Sessions]
      BY <1>2, Zenon DEF Mapped
    <2>2. m = [t \in DOMAIN m |-> m[t]]
      BY <2>1
    <2> QED BY <2>2, Zenon DEF Shrinks
  <1>3. ASSUME reg' \in {reg, NoService}, svc' = svc PROVE QuietServices
    BY <1>1, <1>2, <1>3, Zenon DEF QuietServices, Links, LinkedServices
  <1>4. ASSUME conn' = conn, act' = act, loop' = loop PROVE QuietConns
    BY <1>4, Zenon DEF QuietConns, Links, LinkedConns
  <1>5. ses' = ses => QuietSessions
    BY OutputOperators, Zenon DEF QuietSessions, IInv
  <1>6. proc' = proc => ShellsStay
    BY Zenon DEF ShellsStay
  <1> QED BY <1>3, <1>4, <1>5, <1>6

\* A handler that is done (handle_action).
LEMMA QuietHandler ==
    ASSUME Links, NEW c \in Conns, act' = [act EXCEPT ![c] = NoAct], conn' = conn, loop' = loop
    PROVE  QuietConns
  <1>1. act = [d \in Conns |-> act[d]]
    BY Zenon DEF Links, LinkedConns
  <1>2. act' = [d \in Conns |-> IF d = c THEN NoAct ELSE act[d]]
    BY <1>1
  <1>3. act' = [d \in Conns |-> act'[d]] /\ \A d \in Conns : act'[d] = act[d] \/ act'[d] = NoAct
    BY <1>2, Zenon
  <1> QED BY <1>3, Zenon DEF QuietConns, Links, LinkedConns

\* A polling thread that goes on (run).
LEMMA QuietThread ==
    ASSUME Links, NEW c \in Conns, NEW k, loop' = [loop EXCEPT ![c] = k], conn' = conn, act' = act,
           Threaded(k, conn[c]), loop[c].pc \notin {"none", "end"},
           k.svc \in {loop[c].svc, NoService}, k.todo \subseteq loop[c].todo
    PROVE  QuietConns
  <1>1. loop = [d \in Conns |-> loop[d]] /\ \A d \in Conns : Threaded(loop[d], conn[d])
    BY Zenon DEF Links, LinkedConns
  <1>2. loop' = [d \in Conns |-> loop'[d]] /\ loop'[c] = k
        /\ \A d \in Conns : d # c => loop'[d] = loop[d]
    BY <1>1
  <1>3. \A d \in Conns : Threaded(loop'[d], conn'[d])
    BY <1>1, <1>2, Zenon
  <1> QED BY <1>2, <1>3, Zenon DEF QuietConns, Links, LinkedConns

\* Where a thread begins anew (run).
LEMMA ThreadIs ==
    ASSUME NEW pc
    PROVE  LET k == Thread(pc)
           IN  DOMAIN k = ThreadFields /\ k.pc = pc /\ k.svc = NoService /\ k.todo = {}
  BY DEF Thread, ThreadFields

\* What read_outputs leaves of the thread's state.
LEMMA OnwardIs ==
    ASSUME NEW l, NEW cn, Threaded(l, cn), l.pc \in {"read", "clean"}, cn # "new",
           NEW w, DOMAIN w = ThreadFields, w.pc = l.pc, w.svc = l.svc, w.todo \subseteq l.todo
    PROVE  /\ Threaded(Onward(w), cn) /\ Onward(w).svc \in {l.svc, NoService}
           /\ Onward(w).todo \subseteq l.todo /\ Onward(w).todo \subseteq w.todo
  <1> DEFINE p == Thread("poll")
  <1>2. DOMAIN p = ThreadFields /\ p.pc = "poll" /\ p.svc = NoService /\ p.todo = {}
    BY ThreadIs
  <1>3. Onward(w) \in {w, p}
    BY DEF Onward
  <1> HIDE DEF p
  <1>4. Threaded(w, cn)
    BY DEF Threaded, AtRest
  <1>5. Threaded(p, cn)
    BY <1>2 DEF Threaded, AtRest
  <1>6. Onward(w) = w \/ Onward(w) = p
    BY <1>3
  <1> QED BY <1>2, <1>4, <1>5, <1>6

\* A service of which only the flags change (set_persistent, update_activity).
LEMMA QuietFlags ==
    ASSUME Links, reg' = reg, svc' = [o \in Services |-> svc'[o]],
           \A o \in Services : /\ DOMAIN svc'[o] = ServiceFields
                               /\ svc'[o].sessions = svc[o].sessions
    PROVE  QuietServices
  <1>1. ASSUME NEW m, Mapped(m) PROVE Shrinks(m, m)
    <2>1. m \in [DOMAIN m -> Sessions]
      BY <1>1, Zenon DEF Mapped
    <2>2. m = [t \in DOMAIN m |-> m[t]]
      BY <2>1
    <2> QED BY <2>2, Zenon DEF Shrinks
  <1>2. \A o \in Services : Mapped(svc[o].sessions)
    BY Zenon DEF Links, LinkedServices
  <1> QED BY <1>1, <1>2, Zenon DEF QuietServices

\* A terminal that leaves its service (handle_close, read_outputs).
LEMMA QuietLeaving ==
    ASSUME Links, reg' = reg, NEW o \in Services, NEW t, NEW n,
           n = svc[o].sessions \/ n = Without(svc[o].sessions, t),
           svc' = [svc EXCEPT ![o].sessions = n],
           \/ \E c \in Conns : act[c].op = "close" /\ act[c].t = t
           \/ \E c \in Conns : loop[c].pc = "clean"
    PROVE  QuietServices
  <1>1. svc = [a \in Services |-> svc[a]]
        /\ \A a \in Services : DOMAIN svc[a] = ServiceFields /\ Mapped(svc[a].sessions)
    BY Zenon DEF Links, LinkedServices
  <1> DEFINE z == [svc[o] EXCEPT !.sessions = n]
  <1>2. svc' = [svc EXCEPT ![o] = z]
    BY Zenon
  <1>3. DOMAIN z = ServiceFields /\ z.sessions = n
    BY <1>1 DEF ServiceFields
  <1> HIDE DEF z
  <1>4. svc' = [a \in Services |-> IF a = o THEN z ELSE svc[a]]
    BY ONLY <1>2, <1>1
  <1>5. svc' = [a \in Services |-> svc'[a]] /\ svc'[o] = z
        /\ \A a \in Services : a # o => svc'[a] = svc[a]
    BY <1>4, Zenon
  <1>6. ASSUME NEW m, Mapped(m) PROVE Shrinks(m, m) /\ Shrinks(m, Without(m, t))
    <2>1. m \in [DOMAIN m -> Sessions]
      BY <1>6, Zenon DEF Mapped
    <2>2. m = [x \in DOMAIN m |-> m[x]]
      BY <2>1
    <2> QED BY <2>2 DEF Shrinks, Without, Restrict
  <1>7. DOMAIN Without(svc[o].sessions, t) = DOMAIN svc[o].sessions \ {t}
    BY DEF Without, Restrict
  <1>8. Shrinks(svc[o].sessions, n)
    BY <1>1, <1>6, Zenon
  <1>9. \A u \in DOMAIN svc[o].sessions : u \in DOMAIN n \/ u = t
    BY <1>7
  <1> QED BY <1>1, <1>5, <1>3, <1>6, <1>8, <1>9, Zenon DEF QuietServices

\* The handlers other than those that open a terminal.
LEMMA HandlerQuiet ==
    ASSUME IInv, Links, NEW c \in Conns, OpenFailed(c) \/ handle_close(c) \/ handle_resize(c)
    PROVE  Quiet
  <1>1. QuietConns
    BY QuietHandler, Zenon DEF OpenFailed, handle_close, handle_resize, Handling
  <1>2. QuietSessions
    BY HandlerKeeps, Zenon DEF QuietSessions
  <1>3. QuietClient
    BY Zenon DEF OpenFailed, handle_close, handle_resize, QuietClient
  <1>4. ShellsStay
    <2>1. CASE handle_close(c)
      <3>1. PICK S : proc' = [s \in Sessions |-> IF s \in S /\ proc[s] = "run" THEN "exit" ELSE proc[s]]
        BY <2>1, Zenon DEF handle_close
      <3> QED BY <3>1 DEF ShellsStay
    <2>2. CASE OpenFailed(c) \/ handle_resize(c)
      BY <2>2, QuietSame, Zenon DEF OpenFailed, handle_resize
    <2> QED BY <2>1, <2>2
  <1>5. QuietServices
    <2>1. CASE handle_close(c)
      <3> DEFINE o == act[c].svc
                 t == act[c].t
                 n == Without(svc[o].sessions, t)
      <3>1. svc' = [svc EXCEPT ![o].sessions = n] /\ reg' = reg /\ act[c].op = "close"
        BY <2>1, Zenon DEF handle_close, Handling
      <3>2. o \in Services
        <4>1. Acting(act[c], conn[c]) /\ act[c] # NoAct
          BY <3>1 DEF Links, LinkedConns, NoAct
        <4> QED BY <4>1, Zenon DEF Acting
      <3> HIDE DEF o, t
      <3>3. \E d \in Conns : act[d].op = "close" /\ act[d].t = t
        BY <3>1, Zenon DEF t
      <3> QED BY <3>1, <3>2, <3>3, QuietLeaving, Zenon
    <2>2. CASE OpenFailed(c) \/ handle_resize(c)
      <3>1. reg' = reg /\ svc' = svc
        BY <2>2, Zenon DEF OpenFailed, handle_resize
      <3> QED BY <3>1, QuietSame
    <2> QED BY <2>1, <2>2
  <1> QED BY <1>1, <1>2, <1>3, <1>4, <1>5 DEF Quiet

\* Sessions that are stopped (stop).
LEMMA QuietStop ==
    ASSUME IInv, NEW S, StopAll(S)
    PROVE  QuietSessions /\ ShellsStay
  <1>1. \A s \in Sessions : proc'[s] = "exit" \/ proc'[s] = proc[s]
    BY DEF StopAll
  <1>2. ShellsStay
    BY <1>1 DEF ShellsStay
  <1> QED BY <1>2, StopKeeps, Zenon DEF QuietSessions

\* A polling thread but for collecting and reading sessions.
LEMMA ThreadQuiet ==
    ASSUME IInv, Links, NEW c \in Conns,
           \/ Enter(c) \/ Reread(c) \/ Leave(c) \/ RemoveService(c)
           \/ \E t \in Terminals : Clean(c, t)
           \/ \E e \in loop[c].todo : Skip(c, e)
    PROVE  Quiet
  <1> DEFINE l == loop[c]
  <1>0. Threaded(l, conn[c])
    BY Zenon DEF Links, LinkedConns
  <1>1. CASE Enter(c) \/ Leave(c) \/ RemoveService(c)
    <2>1. PICK pc \in {"poll", "end", "remove"} :
             /\ loop' = [loop EXCEPT ![c] = Thread(pc)] /\ conn' = conn /\ act' = act
             /\ pc # "poll" => conn[c] # "on" \/ l.pc = "remove"
             /\ l.pc \in {"spawned", "poll", "remove"}
      BY <1>1 DEF Enter, Leave, RemoveService, Goto, At, LoopOnly
    <2> DEFINE k == Thread(pc)
    <2>2. DOMAIN k = ThreadFields /\ k.pc = pc /\ k.svc = NoService /\ k.todo = {}
      BY ThreadIs
    <2> HIDE DEF k
    <2>3. Threaded(k, conn[c])
      BY <1>0, <2>1, <2>2 DEF Threaded, AtRest
    <2>4. QuietConns
      <3>1. k.svc \in {l.svc, NoService} /\ k.todo \subseteq l.todo /\ l.pc \notin {"none", "end"}
        BY <2>1, <2>2
      <3> QED BY <2>1, <2>3, <3>1, QuietThread, Zenon DEF k
    <2>5. CASE Enter(c) \/ Leave(c)
      <3>1. reg' = reg /\ svc' = svc /\ ses' = ses /\ proc' = proc /\ QuietClient
        BY <2>5, Zenon DEF Enter, Leave, LoopOnly, QuietClient
      <3> QED BY <2>4, <3>1, QuietSame DEF Quiet
    <2>6. CASE RemoveService(c)
      <3>1. reg' = NoService /\ svc' = svc /\ QuietClient /\ \E S : StopAll(S)
        BY <2>6, Zenon DEF RemoveService, remove_service, QuietClient
      <3>2. QuietServices
        BY <3>1, QuietSame
      <3> QED BY <2>4, <3>1, <3>2, QuietStop, Zenon DEF Quiet
    <2> QED BY <1>1, <2>5, <2>6
  <1>2. CASE Reread(c)
    <2> DEFINE k == [l EXCEPT !.pc = "clean", !.kept = svc[l.svc].sessions]
    <2>1. loop' = [loop EXCEPT ![c] = k] /\ l.pc = "read" /\ l.todo = {}
      BY <1>2, Zenon DEF Reread, At
    <2>2. DOMAIN k = ThreadFields /\ k.pc = "clean" /\ k.svc = l.svc /\ k.todo = {}
      BY <1>0, <2>1 DEF Threaded, ThreadFields
    <2> HIDE DEF k
    <2>3. /\ Threaded(k, conn[c]) /\ k.svc \in {l.svc, NoService} /\ k.todo \subseteq l.todo
          /\ l.pc \notin {"none", "end"}
      BY <1>0, <2>1, <2>2 DEF Threaded, AtRest
    <2>4. reg' = reg /\ svc' = svc /\ ses' = ses /\ proc' = proc /\ conn' = conn /\ act' = act
          /\ QuietClient
      BY <1>2, Zenon DEF Reread, LoopOnly, QuietClient
    <2>5. QuietConns
      BY <2>1, <2>3, <2>4, QuietThread, Zenon
    <2> QED BY <2>4, <2>5, QuietSame DEF Quiet
  <1>3. ASSUME NEW e \in l.todo, Skip(c, e) PROVE Quiet
    <2> DEFINE w == [l EXCEPT !.todo = l.todo \ {e}]
               k == Onward(w)
    <2>1. l.pc = "read" /\ reg' = reg /\ svc' = svc /\ ses' = ses /\ proc' = proc /\ conn' = conn
          /\ act' = act /\ QuietClient
      BY <1>3, Zenon DEF Skip, At, LoopOnly, QuietClient
    <2>2. loop' = [loop EXCEPT ![c] = k]
      BY <1>3, Zenon DEF Skip
    <2>3. /\ Threaded(k, conn[c]) /\ k.svc \in {l.svc, NoService} /\ k.todo \subseteq l.todo
      <3>1. l.pc \in {"read", "clean"} /\ conn[c] # "new"
        BY <1>0, <2>1 DEF Threaded
      <3>2. DOMAIN w = ThreadFields /\ w.pc = l.pc /\ w.svc = l.svc /\ w.todo \subseteq l.todo
        BY <1>0 DEF Threaded, ThreadFields
      <3> HIDE DEF w
      <3> QED BY <1>0, <3>1, <3>2, OnwardIs, Zenon
    <2> HIDE DEF k
    <2>4. QuietConns
      <3>1. l.pc \notin {"none", "end"}
        BY <2>1
      <3> QED BY <2>1, <2>2, <2>3, <3>1, QuietThread, Zenon
    <2> QED BY <2>1, <2>4, QuietSame DEF Quiet
  <1>4. ASSUME NEW t \in Terminals, Clean(c, t) PROVE Quiet
    <2>1. PICK C, K, n :
            /\ loop' = [loop EXCEPT ![c] = Onward([l EXCEPT !.closed = C, !.kept = K])]
            /\ svc' = [svc EXCEPT ![l.svc].sessions = n]
            /\ n = svc[l.svc].sessions \/ n = Without(svc[l.svc].sessions, t)
      <3>1. PICK gone : svc' = [svc EXCEPT ![l.svc].sessions =
                           IF gone = {} THEN svc[l.svc].sessions ELSE Without(svc[l.svc].sessions, t)]
        BY <1>4, Zenon DEF Clean
      <3>2. \E n : svc' = [svc EXCEPT ![l.svc].sessions = n]
                   /\ (n = svc[l.svc].sessions \/ n = Without(svc[l.svc].sessions, t))
        BY <3>1, Zenon
      <3> QED BY <1>4, <3>2, Zenon DEF Clean
    <2>2. l.pc = "clean" /\ reg' = reg /\ proc' = proc /\ conn' = conn /\ act' = act /\ QuietClient
      BY <1>4, Zenon DEF Clean, At, QuietClient
    <2> DEFINE w == [l EXCEPT !.closed = C, !.kept = K]
               k == Onward(w)
    <2>3. loop' = [loop EXCEPT ![c] = k]
      BY <2>1, Zenon
    <2>4. /\ Threaded(k, conn[c]) /\ k.svc \in {l.svc, NoService} /\ k.todo \subseteq l.todo
      <3>1. l.pc \in {"read", "clean"} /\ conn[c] # "new"
        BY <1>0, <2>2 DEF Threaded
      <3>2. DOMAIN w = ThreadFields /\ w.pc = l.pc /\ w.svc = l.svc /\ w.todo \subseteq l.todo
        BY <1>0 DEF Threaded, ThreadFields
      <3> HIDE DEF w
      <3> QED BY <1>0, <3>1, <3>2, OnwardIs, Zenon
    <2> HIDE DEF k
    <2>5. QuietConns
      <3>1. l.pc \notin {"none", "end"}
        BY <2>2
      <3> QED BY <2>2, <2>3, <2>4, <3>1, QuietThread, Zenon
    <2>6. l.svc \in Services
      BY <1>0, <2>2 DEF Threaded, AtRest
    <2>7. QuietServices
      BY <2>1, <2>2, <2>6, QuietLeaving, Zenon
    <2>8. QuietSessions
      <3>1. PICK S : ses' = [s \in Sessions |-> IF s \in S THEN Orphan(ses[s]) ELSE ses[s]]
        BY <1>4, Zenon DEF Clean, Orphan
      <3>2. \A s \in Sessions : ses'[s] = Orphan(ses[s]) \/ ses'[s] = ses[s]
        BY <3>1
      <3> QED BY <3>2, OutputOperators, Zenon DEF QuietSessions, IInv
    <2> QED BY <2>2, <2>5, <2>7, <2>8, QuietSame DEF Quiet
  <1> QED BY <1>1, <1>2, <1>3, <1>4

\* The reader threads, the cleanup thread, a connection that goes or sets a flag.
LEMMA OtherQuiet ==
    ASSUME IInv, Links,
           \/ \E c \in Conns : Disconnect(c) \/ \E p \in BOOLEAN : SetPersistent(c, p)
           \/ \E s \in Sessions : \/ \E n \in 1 .. MaxRead : Read(s, n)
                                  \/ ReadEof(s) \/ Exit(s) \/ DropSession(s)
           \/ Age \/ CleanupStep \/ UNCHANGED vars
    PROVE  Quiet
  <1>0. svc = [o \in Services |-> svc[o]] /\ \A o \in Services : DOMAIN svc[o] = ServiceFields
    BY Zenon DEF Links, LinkedServices
  <1>1. ASSUME NEW c \in Conns, Disconnect(c) PROVE Quiet
    <2>1. /\ reg' = reg /\ svc' = svc /\ ses' = ses /\ proc' = proc /\ QuietClient
          /\ act' = act /\ loop' = loop /\ conn[c] = "on" /\ act[c] = NoAct
          /\ conn' = [conn EXCEPT ![c] = "gone"]
      BY <1>1, Zenon DEF Disconnect, QuietClient
    <2>2. conn = [d \in Conns |-> conn[d]] /\ \A d \in Conns : Threaded(loop[d], conn[d])
      BY Zenon DEF Links, LinkedConns
    <2>3. conn' = [d \in Conns |-> IF d = c THEN "gone" ELSE conn[d]]
      BY <2>1, <2>2
    <2>4. conn' = [d \in Conns |-> conn'[d]] /\ conn'[c] = "gone"
          /\ \A d \in Conns : d # c => conn'[d] = conn[d]
      BY <2>3, Zenon
    <2>5. Threaded(loop[c], "gone")
      BY <2>1, <2>2 DEF Threaded
    <2>6. QuietConns
      BY <2>1, <2>2, <2>4, <2>5, Zenon DEF QuietConns, Links, LinkedConns
    <2> QED BY <2>1, <2>6, QuietSame DEF Quiet
  <1>2. ASSUME NEW z, reg \in Services, svc' = [svc EXCEPT ![reg] = z], reg' = reg,
               DOMAIN z = ServiceFields, z.sessions = svc[reg].sessions
        PROVE  QuietServices
    <2>1. svc' = [o \in Services |-> IF o = reg THEN z ELSE svc[o]]
      BY ONLY <1>0, <1>2
    <2>2. svc' = [o \in Services |-> svc'[o]]
          /\ \A o \in Services : svc'[o] = IF o = reg THEN z ELSE svc[o]
      BY <2>1, Zenon
    <2> QED BY <1>0, <1>2, <2>2, QuietFlags, Zenon
  <1>3. ASSUME reg # NoService PROVE reg \in Services
    BY <1>3, Zenon DEF Links, LinkedServices
  <1>4. ASSUME NEW c \in Conns, NEW p \in BOOLEAN, SetPersistent(c, p) PROVE Quiet
    <2> DEFINE z == [svc[reg] EXCEPT !.persistent = p]
    <2>1. /\ reg' = reg /\ ses' = ses /\ proc' = proc /\ QuietClient /\ conn' = conn
          /\ act' = act /\ loop' = loop /\ reg # NoService /\ svc' = [svc EXCEPT ![reg] = z]
      BY <1>4, Zenon DEF SetPersistent, QuietClient
    <2>2. DOMAIN z = ServiceFields /\ z.sessions = svc[reg].sessions
      BY <1>0, <1>3, <2>1 DEF ServiceFields
    <2> HIDE DEF z
    <2>3. QuietServices
      BY <1>2, <1>3, <2>1, <2>2, Zenon
    <2> QED BY <2>1, <2>3, QuietSame DEF Quiet
  <1>5. CASE Age
    <2> DEFINE z == [svc[reg] EXCEPT !.idle = TRUE]
    <2>1. /\ reg' = reg /\ proc' = proc /\ QuietClient /\ conn' = conn
          /\ act' = act /\ loop' = loop /\ reg # NoService /\ svc' = [svc EXCEPT ![reg] = z]
      BY <1>5, Zenon DEF Age, QuietClient
    <2>2. DOMAIN z = ServiceFields /\ z.sessions = svc[reg].sessions
      BY <1>0, <1>3, <2>1 DEF ServiceFields
    <2> HIDE DEF z
    <2>3. QuietServices
      BY <1>2, <1>3, <2>1, <2>2, Zenon
    <2>4. \A s \in Sessions : ses'[s] = [ses[s] EXCEPT !.recent = FALSE]
      BY <1>5 DEF Age
    <2>5. \A s \in Sessions : Shape(ses[s])
      BY Zenon DEF IInv
    <2>6. QuietSessions
      BY <2>4, <2>5, OutputOperators, Zenon DEF QuietSessions
    <2> QED BY <2>1, <2>3, <2>6, QuietSame DEF Quiet
  <1>6. ASSUME NEW s \in Sessions, ReadEof(s) \/ \E n \in 1 .. MaxRead : Read(s, n) PROVE Quiet
    <2>1. /\ reg' = reg /\ svc' = svc /\ proc' = proc /\ QuietClient /\ conn' = conn
          /\ act' = act /\ loop' = loop
      BY <1>6, Zenon DEF ReadEof, Read, QuietClient
    <2>2. QuietSessions
      BY <1>6, ReaderKeeps, Zenon DEF QuietSessions
    <2> QED BY <2>1, <2>2, QuietSame DEF Quiet
  <1>7. ASSUME NEW s \in Sessions, Exit(s) \/ Reap(s) PROVE Quiet
    <2>1. /\ reg' = reg /\ svc' = svc /\ ses' = ses /\ QuietClient /\ conn' = conn
          /\ act' = act /\ loop' = loop
          /\ \E v \in {"exit", "reaped"} : proc' = [proc EXCEPT ![s] = v]
      BY <1>7, Zenon DEF Exit, Reap, QuietClient
    <2>2. ShellsStay
      BY <2>1 DEF ShellsStay, IInv
    <2> QED BY <2>1, <2>2, QuietSame DEF Quiet
  <1>8. ASSUME \/ RemoveIdle \/ \E s \in Sessions : DropSession(s) PROVE Quiet
    <2>1. /\ reg' \in {reg, NoService} /\ svc' = svc /\ QuietClient /\ conn' = conn
          /\ act' = act /\ loop' = loop
      BY <1>8, Zenon DEF RemoveIdle, remove_service, DropSession, QuietClient
    <2>2. \E S : StopAll(S)
      BY <1>8, Zenon DEF RemoveIdle, remove_service, DropSession
    <2>3. QuietSessions /\ ShellsStay
      BY <2>2, QuietStop, Zenon
    <2> QED BY <2>1, <2>3, QuietSame DEF Quiet
  <1>9. ASSUME ChooseIdle \/ UNCHANGED vars PROVE Quiet
    <2>1. /\ reg' = reg /\ svc' = svc /\ ses' = ses /\ proc' = proc /\ QuietClient
          /\ conn' = conn /\ act' = act /\ loop' = loop
      BY <1>9 DEF ChooseIdle, vars, QuietClient
    <2> QED BY <2>1, QuietSame DEF Quiet
  <1> QED BY <1>1, <1>4, <1>5, <1>6, <1>7, <1>8, <1>9, Zenon DEF CleanupStep

-----------------------------------------------------------------------------
(* The other steps keep what is referred to as well.                       *)

\* Session s is terminal t of a service.
Grows(m, n, t, s) ==
    /\ DOMAIN n = DOMAIN m \union {t} /\ n[t] = s /\ \A u \in DOMAIN m \ {t} : n[u] = m[u]

\* One terminal more in a service (handle_open).
LEMMA MapGrows ==
    ASSUME NEW m, Mapped(m), NEW t \in Terminals, NEW s \in Sessions,
           \A u \in DOMAIN m \ {t} : m[u] # s
    PROVE  Mapped(With(m, t, s)) /\ Grows(m, With(m, t, s), t, s)
  <1> DEFINE n == With(m, t, s)
  <1>1. /\ DOMAIN n = DOMAIN m \union {t} /\ n[t] = s /\ \A u \in DOMAIN m \ {t} : n[u] = m[u]
        /\ n \in [DOMAIN m \union {t} -> Sessions]
    BY DEF With, Mapped
  <1> HIDE DEF n
  <1>2. Mapped(n)
    BY <1>1 DEF Mapped
  <1> QED BY <1>1, <1>2 DEF n, Grows

\* read_outputs on one session.
LEMMA PollLinks ==
    ASSUME IInv, Links, NEW c \in Conns, NEW e \in loop[c].todo, Poll(c, e)
    PROVE  QuietServices /\ QuietConns /\ ShellsStay /\ loop'[c].todo \subseteq loop[c].todo \ {e}
  <1> DEFINE l == loop[c]
  <1>0. Threaded(l, conn[c]) /\ loop = [d \in Conns |-> loop[d]]
    BY Zenon DEF Links, LinkedConns
  <1>1. /\ l.pc = "read" /\ reg' = reg /\ svc' = svc /\ proc' = proc /\ conn' = conn /\ act' = act
        /\ \E C : loop' = [loop EXCEPT ![c] = Onward([l EXCEPT !.todo = l.todo \ {e}, !.closed = C])]
    BY Zenon DEF Poll, At
  <1>2. PICK C : loop' = [loop EXCEPT ![c] = Onward([l EXCEPT !.todo = l.todo \ {e}, !.closed = C])]
    BY <1>1, Zenon
  <1> DEFINE w == [l EXCEPT !.todo = l.todo \ {e}, !.closed = C]
             k == Onward(w)
  <1>3. /\ DOMAIN w = ThreadFields /\ w.pc = l.pc /\ w.svc = l.svc /\ w.todo = l.todo \ {e}
        /\ w.todo \subseteq l.todo
    BY <1>0 DEF Threaded, ThreadFields
  <1>4. l.pc \in {"read", "clean"} /\ conn[c] # "new" /\ l.pc \notin {"none", "end"}
    BY <1>0, <1>1 DEF Threaded
  <1> HIDE DEF w
  <1>5. /\ Threaded(k, conn[c]) /\ k.svc \in {l.svc, NoService} /\ k.todo \subseteq l.todo
        /\ k.todo \subseteq l.todo \ {e}
    BY <1>0, <1>3, <1>4, OnwardIs, Zenon
  <1>6. loop' = [loop EXCEPT ![c] = k]
    BY <1>2, Zenon DEF w
  <1> HIDE DEF k
  <1>7. QuietConns
    BY <1>1, <1>4, <1>5, <1>6, QuietThread, Zenon
  <1>8. loop'[c] = k
    BY <1>0, <1>6
  <1> QED BY <1>1, <1>5, <1>7, <1>8, QuietSame

\* handle_open.
LEMMA OpeningConns ==
    ASSUME IInv, Links, NEW c \in Conns, Open(c) \/ Reopen(c)
    PROVE  QuietConns /\ ShellsStay /\ act[c].op = "open" /\ act[c].svc \in Services
           /\ act[c].t \in Terminals /\ act[c] # NoAct
  <1>1. act[c].op = "open" /\ act' = [act EXCEPT ![c] = NoAct] /\ conn' = conn /\ loop' = loop
        /\ (proc' = proc \/ \E s \in Sessions : proc' = [proc EXCEPT ![s] = "run"])
    BY Zenon DEF Open, Reopen, Handling
  <1>2. Acting(act[c], conn[c]) /\ act[c] # NoAct
    BY <1>1 DEF Links, LinkedConns, NoAct
  <1>3. QuietConns
    BY <1>1, QuietHandler, Zenon
  <1>4. ShellsStay
    BY <1>1 DEF ShellsStay, IInv
  <1> QED BY <1>1, <1>2, <1>3, <1>4, Zenon DEF Acting

\* A service that gets other terminals.
LEMMA ServiceChanges ==
    ASSUME Links, NEW o \in Services, NEW n, NEW b, Mapped(n),
           \A t \in DOMAIN n : proc'[n[t]] # "none",
           svc' = [svc EXCEPT ![o].sessions = n, ![o].sync = b], reg' = reg, ShellsStay
    PROVE  LinkedServices' /\ svc'[o].sessions = n /\ \A a \in Services : a # o => svc'[a] = svc[a]
  <1>1. svc = [a \in Services |-> svc[a]] /\ reg \in Services \union {NoService}
        /\ \A a \in Services : /\ DOMAIN svc[a] = ServiceFields /\ Mapped(svc[a].sessions)
                               /\ \A t \in DOMAIN svc[a].sessions : proc[svc[a].sessions[t]] # "none"
    BY Zenon DEF Links, LinkedServices
  <1> DEFINE z == [svc[o] EXCEPT !.sessions = n, !.sync = b]
  <1>2. DOMAIN z = ServiceFields /\ z.sessions = n
    BY <1>1 DEF ServiceFields
  <1>3. svc' = [a \in Services |-> IF a = o THEN z ELSE svc[a]]
    <2>1. svc = [a \in Services |-> svc[a]] /\ DOMAIN svc[o] = ServiceFields
      BY <1>1
    <2>2. svc' = [svc EXCEPT ![o].sessions = n, ![o].sync = b]
      OBVIOUS
    <2> QED BY ONLY <2>1, <2>2, o \in Services DEF ServiceFields
  <1> HIDE DEF z
  <1>4. svc' = [a \in Services |-> svc'[a]] /\ svc'[o] = z
        /\ \A a \in Services : a # o => svc'[a] = svc[a]
    BY <1>3, Zenon
  <1>5. ASSUME NEW a \in Services
        PROVE  \A t \in DOMAIN svc[a].sessions : proc'[svc[a].sessions[t]] # "none"
    <2>1. \A t \in DOMAIN svc[a].sessions : svc[a].sessions[t] \in Sessions
      BY <1>1 DEF Mapped
    <2> QED BY <1>1, <2>1, Zenon DEF ShellsStay
  <1>6. \A a \in Services :
            /\ DOMAIN svc'[a] = ServiceFields /\ Mapped(svc'[a].sessions)
            /\ \A t \in DOMAIN svc'[a].sessions : proc'[svc'[a].sessions[t]] # "none"
    <2> SUFFICES ASSUME NEW a \in Services
                 PROVE  /\ DOMAIN svc'[a] = ServiceFields /\ Mapped(svc'[a].sessions)
                        /\ \A t \in DOMAIN svc'[a].sessions : proc'[svc'[a].sessions[t]] # "none"
      BY Zenon
    <2>1. CASE a = o
      BY <1>2, <1>4, <2>1, Zenon
    <2>2. CASE a # o
      <3>1. svc'[a] = svc[a]
        BY <1>4, <2>2, Zenon
      <3>2. /\ DOMAIN svc[a] = ServiceFields /\ Mapped(svc[a].sessions)
            /\ \A t \in DOMAIN svc[a].sessions : proc'[svc[a].sessions[t]] # "none"
        BY <1>1, <1>5, Zenon
      <3> QED BY ONLY <3>1, <3>2, Zenon
    <2> QED BY <2>1, <2>2, Zenon
  <1> QED BY <1>1, <1>2, <1>4, <1>6, Zenon DEF LinkedServices

\* handle_open of a new terminal: the shell is one that no service has.
LEMMA OpenLinks ==
    ASSUME IInv, Links, NEW c \in Conns, Open(c)
    PROVE  LET o == act[c].svc
               m == svc[o].sessions
               t == act[c].t
           IN  /\ Links' /\ t \notin DOMAIN m
               /\ \E s \in Sessions :
                    /\ proc[s] = "none" /\ Grows(m, svc'[o].sessions, t, s)
                    /\ \A u \in DOMAIN m : m[u] # s
               /\ \A a \in Services : a # o => svc'[a] = svc[a]
  <1> DEFINE o == act[c].svc
             m == svc[o].sessions
             t == act[c].t
  <1>1. QuietConns /\ ShellsStay /\ o \in Services /\ t \in Terminals
    BY OpeningConns, Zenon
  <1>2. PICK s \in Sessions :
            /\ proc[s] = "none" /\ proc' = [proc EXCEPT ![s] = "run"] /\ reg' = reg
            /\ svc' = [svc EXCEPT ![o].sessions = With(m, t, s), ![o].sync = FALSE]
    BY Zenon DEF Open
  <1>3. Mapped(m) /\ \A u \in DOMAIN m : proc[m[u]] # "none"
    BY <1>1, Zenon DEF Links, LinkedServices
  <1>4. t \notin DOMAIN m
    <2>1. t \notin DOMAIN Remap(o, t)
      BY Zenon DEF Open
    <2>2. t \in DOMAIN m => Remap(o, t) = m
      BY DEF Remap
    <2> QED BY <2>1, <2>2, Zenon
  <1> HIDE DEF o, m, t
  <1>5. \A u \in DOMAIN m : m[u] # s /\ m[u] \in Sessions
    BY <1>2, <1>3 DEF Mapped
  <1> DEFINE n == With(m, t, s)
  <1>6. Mapped(n) /\ Grows(m, n, t, s)
    <2>1. \A u \in DOMAIN m \ {t} : m[u] # s
      BY <1>5
    <2> QED BY <1>1, <1>3, <2>1, MapGrows, Zenon
  <1> HIDE DEF n
  <1>7. proc'[s] = "run" /\ \A u \in DOMAIN n : proc'[n[u]] # "none"
    <2>1. proc'[s] = "run" /\ \A u \in DOMAIN m : proc'[m[u]] # "none"
      <3>1. proc'[s] = "run"
        BY <1>2 DEF IInv
      <3> QED BY <1>3, <1>5, <1>1, <3>1, Zenon DEF ShellsStay
    <2>2. \A u \in DOMAIN n : n[u] = s \/ (u \in DOMAIN m /\ n[u] = m[u])
      BY <1>6 DEF Grows
    <2>3. "run" # "none"
      OBVIOUS
    <2> QED BY <2>1, <2>2, <2>3, Zenon
  <1>8. svc' = [svc EXCEPT ![o].sessions = n, ![o].sync = FALSE]
    BY <1>2, Zenon DEF n
  <1>9. LinkedServices' /\ svc'[o].sessions = n /\ \A a \in Services : a # o => svc'[a] = svc[a]
    <2>1. reg' = reg /\ Mapped(n) /\ o \in Services /\ ShellsStay
      BY <1>1, <1>2, <1>6, Zenon
    <2> QED BY <1>7, <1>8, <2>1, ServiceChanges, Zenon
  <1>10. Links'
    BY <1>1, <1>9, QuietLinks, Zenon DEF Links
  <1> QED BY <1>2, <1>4, <1>5, <1>6, <1>9, <1>10, Zenon DEF o, m, t

\* A connection that attaches, with a service or without one.
LEMMA AttachConns ==
    ASSUME IInv, Links, NEW c \in Conns, AttachRefused(c) \/ \E p \in BOOLEAN : Attach(c, p)
    PROVE  /\ LinkedConns' /\ proc' = proc /\ last' = c /\ loop'[c] = Thread("spawned")
           /\ \A d \in Conns : d # c => loop'[d] = loop[d]
           /\ \A d \in Conns : act'[d] = act[d]
           /\ act[c] = NoAct /\ conn'[c] = "on"
  <1>1. /\ conn = [d \in Conns |-> conn[d]] /\ act = [d \in Conns |-> act[d]]
        /\ loop = [d \in Conns |-> loop[d]]
        /\ \A d \in Conns : /\ Threaded(loop[d], conn[d]) /\ Acting(act[d], conn[d])
                            /\ \A e \in loop[d].todo : proc[e[2]] # "none"
    BY Zenon DEF Links, LinkedConns
  <1> DEFINE k == Thread("spawned")
  <1>2. /\ conn[c] = "new" /\ conn' = [conn EXCEPT ![c] = "on"] /\ loop' = [loop EXCEPT ![c] = k]
        /\ act' = act /\ proc' = proc /\ last' = c
    <2>1. CASE AttachRefused(c)
      BY <2>1, Zenon DEF AttachRefused, IsNext
    <2>2. ASSUME NEW p \in BOOLEAN, Attach(c, p)
          PROVE  /\ conn[c] = "new" /\ conn' = [conn EXCEPT ![c] = "on"]
                 /\ loop' = [loop EXCEPT ![c] = k]
                 /\ act' = act /\ proc' = proc /\ last' = c
      BY <2>2, Zenon DEF Attach, IsNext
    <2> QED BY <2>1, <2>2, Zenon
  <1>3. DOMAIN k = ThreadFields /\ k.pc = "spawned" /\ k.svc = NoService /\ k.todo = {}
    BY ThreadIs
  <1> HIDE DEF k
  <1>4. Threaded(k, "on") /\ act[c] = NoAct /\ \A e \in k.todo : proc[e[2]] # "none"
    <2>1. Threaded(k, "on")
      BY <1>3 DEF Threaded, AtRest
    <2>2. act[c] = NoAct
      BY <1>1, <1>2 DEF Acting
    <2> QED BY <1>3, <2>1, <2>2
  <1>5. /\ conn' = [d \in Conns |-> IF d = c THEN "on" ELSE conn[d]]
        /\ loop' = [d \in Conns |-> IF d = c THEN k ELSE loop[d]]
    <2>1. loop = [d \in Conns |-> loop[d]] /\ loop' = [loop EXCEPT ![c] = k]
      BY <1>1, <1>2
    <2>2. conn = [d \in Conns |-> conn[d]] /\ conn' = [conn EXCEPT ![c] = "on"]
      BY <1>1, <1>2
    <2>3. loop' = [d \in Conns |-> IF d = c THEN k ELSE loop[d]]
      BY ONLY <2>1
    <2>4. conn' = [d \in Conns |-> IF d = c THEN "on" ELSE conn[d]]
      BY ONLY <2>2
    <2> QED BY <2>3, <2>4
  <1>6. /\ conn' = [d \in Conns |-> conn'[d]] /\ loop' = [d \in Conns |-> loop'[d]]
        /\ conn'[c] = "on" /\ loop'[c] = k
        /\ \A d \in Conns : d # c => loop'[d] = loop[d] /\ conn'[d] = conn[d]
    BY <1>5, Zenon
  <1>7. Acting(NoAct, "on")
    BY DEF Acting
  <1>8. \A d \in Conns : /\ Threaded(loop'[d], conn'[d]) /\ Acting(act'[d], conn'[d])
                         /\ \A e \in loop'[d].todo : proc'[e[2]] # "none"
    <2> SUFFICES ASSUME NEW d \in Conns
                 PROVE  /\ Threaded(loop'[d], conn'[d]) /\ Acting(act'[d], conn'[d])
                        /\ \A e \in loop'[d].todo : proc'[e[2]] # "none"
      BY Zenon
    <2>1. CASE d = c
      BY <1>2, <1>4, <1>6, <1>7, <2>1, Zenon
    <2>2. CASE d # c
      BY <1>1, <1>2, <1>6, <2>2, ZenonT(60)
    <2> QED BY <2>1, <2>2, Zenon
  <1>9. LinkedConns'
    BY <1>1, <1>2, <1>6, <1>8, Zenon DEF LinkedConns
  <1> QED BY <1>2, <1>4, <1>6, <1>9, Zenon DEF k

\* get_or_create_service: the service of the id, or one without terminals.
LEMMA AttachLinks ==
    ASSUME IInv, Links, NEW c \in Conns, NEW p \in BOOLEAN, Attach(c, p)
    PROVE  /\ Links' /\ reg' \in Services
           /\ \/ reg = NoService /\ svc'[reg'].sessions = <<>>
              \/ reg' = reg /\ svc'[reg'].sessions = svc[reg].sessions
  <1>0. /\ svc = [o \in Services |-> svc[o]] /\ reg \in Services \union {NoService}
        /\ \A o \in Services : /\ DOMAIN svc[o] = ServiceFields /\ Mapped(svc[o].sessions)
                               /\ \A t \in DOMAIN svc[o].sessions : proc[svc[o].sessions[t]] # "none"
    BY Zenon DEF Links, LinkedServices
  <1> DEFINE o == reg'
             a == IF reg = o THEN svc[o] ELSE NewService(p)
             z == [a EXCEPT !.persistent = p, !.sync = TRUE]
  <1>1. /\ o \in Services /\ svc' = [svc EXCEPT ![o] = z] /\ (reg # NoService => o = reg)
    BY Zenon DEF Attach
  <1>2. DOMAIN z = ServiceFields
        /\ z.sessions = IF reg = o THEN svc[o].sessions ELSE <<>>
    BY <1>0, <1>1 DEF NewService, ServiceFields
  <1> HIDE DEF z, a
  <1>3. svc' = [b \in Services |-> IF b = o THEN z ELSE svc[b]]
    BY ONLY <1>0, <1>1
  <1>4. svc' = [b \in Services |-> svc'[b]] /\ svc'[o] = z
        /\ \A b \in Services : b # o => svc'[b] = svc[b]
    BY <1>1, <1>3, Zenon
  <1>5. Mapped(<<>>) /\ \A t \in DOMAIN <<>> : proc[<<>>[t]] # "none"
    BY DEF Mapped
  <1>6. proc' = proc /\ LinkedConns'
    BY AttachConns, Zenon
  <1>7. Mapped(z.sessions) /\ \A t \in DOMAIN z.sessions : proc'[z.sessions[t]] # "none"
    <2>1. CASE reg = o
      BY <1>0, <1>1, <1>2, <1>6, <2>1, Zenon
    <2>2. CASE reg # o
      BY <1>2, <1>5, <1>6, <2>2, Zenon
    <2> QED BY <2>1, <2>2
  <1>8. LinkedServices'
    <2>1. ASSUME NEW b \in Services
          PROVE  /\ DOMAIN svc'[b] = ServiceFields /\ Mapped(svc'[b].sessions)
                 /\ \A t \in DOMAIN svc'[b].sessions : proc'[svc'[b].sessions[t]] # "none"
      <3>1. CASE b = o
        BY <1>2, <1>4, <1>7, <3>1, Zenon
      <3>2. CASE b # o
        BY <1>0, <1>4, <1>6, <3>2, ZenonT(60)
      <3> QED BY <3>1, <3>2, Zenon
    <2> QED BY <1>1, <1>4, <2>1, Zenon DEF LinkedServices
  <1>9. \/ reg = NoService /\ svc'[o].sessions = <<>>
        \/ o = reg /\ svc'[o].sessions = svc[reg].sessions
    BY <1>1, <1>2, <1>4, Zenon
  <1> QED BY <1>1, <1>6, <1>8, <1>9, Zenon DEF Links

\* handle_action up to the lock of the service.
LEMMA ActionLinks ==
    ASSUME IInv, Links, NEW c \in Conns, NEW op \in {"open", "close", "resize"},
           NEW t \in Terminals, handle_action(c, op, t)
    PROVE  /\ Links' /\ QuietServices /\ reg' = reg /\ reg \in Services /\ proc' = proc
           /\ act[c] = NoAct /\ conn[c] = "on"
           /\ act'[c].op = op /\ act'[c].svc = reg /\ act'[c].t = t
           /\ \A d \in Conns : d # c => act'[d] = act[d]
           /\ \A o \in Services : svc'[o].sessions = svc[o].sessions
  <1>0. /\ svc = [o \in Services |-> svc[o]] /\ reg \in Services \union {NoService}
        /\ \A o \in Services : DOMAIN svc[o] = ServiceFields
    BY Zenon DEF Links, LinkedServices
  <1>1. /\ act = [d \in Conns |-> act[d]] /\ conn = [d \in Conns |-> conn[d]]
        /\ loop = [d \in Conns |-> loop[d]]
        /\ \A d \in Conns : /\ Threaded(loop[d], conn[d]) /\ Acting(act[d], conn[d])
                            /\ \A e \in loop[d].todo : proc[e[2]] # "none"
    BY Zenon DEF Links, LinkedConns
  <1> DEFINE z == [svc[reg] EXCEPT !.idle = FALSE]
             a == [op |-> op, svc |-> reg, t |-> t]
  <1>2. /\ svc' = [svc EXCEPT ![reg] = z] /\ act' = [act EXCEPT ![c] = a]
        /\ conn[c] = "on" /\ act[c] = NoAct /\ reg # NoService
        /\ reg' = reg /\ proc' = proc /\ conn' = conn /\ loop' = loop
    BY Zenon DEF handle_action
  <1>3. reg \in Services
    BY <1>0, <1>2
  <1>4. DOMAIN z = ServiceFields /\ z.sessions = svc[reg].sessions
    BY <1>0, <1>3 DEF ServiceFields
  <1>5. a.op = op /\ a.svc = reg /\ a.t = t /\ Acting(a, "on")
    BY <1>3 DEF Acting
  <1> HIDE DEF z, a
  <1>6. /\ svc' = [o \in Services |-> IF o = reg THEN z ELSE svc[o]]
        /\ act' = [d \in Conns |-> IF d = c THEN a ELSE act[d]]
    BY ONLY <1>0, <1>1, <1>2
  <1>7. /\ svc' = [o \in Services |-> svc'[o]] /\ act' = [d \in Conns |-> act'[d]]
        /\ \A o \in Services : svc'[o] = IF o = reg THEN z ELSE svc[o]
        /\ act'[c] = a /\ \A d \in Conns : d # c => act'[d] = act[d]
    BY <1>6, Zenon
  <1>8. \A o \in Services : DOMAIN svc'[o] = ServiceFields /\ svc'[o].sessions = svc[o].sessions
    BY <1>0, <1>4, <1>7, Zenon
  <1>9. QuietServices
    BY <1>2, <1>7, <1>8, QuietFlags, Zenon
  <1>10. ShellsStay
    BY <1>2, Zenon DEF ShellsStay
  <1>11. \A d \in Conns : Acting(act'[d], conn'[d])
    BY <1>1, <1>2, <1>5, <1>7, Zenon
  <1>12. LinkedConns'
    BY <1>1, <1>2, <1>7, <1>11, ZenonT(60) DEF LinkedConns
  <1>13. Links'
    BY <1>9, <1>10, <1>12, QuietLinks, Zenon DEF Links
  <1> QED BY <1>2, <1>3, <1>5, <1>7, <1>8, <1>9, <1>13, Zenon

\* read_outputs takes the sessions of the service.
LEMMA CollectLinks ==
    ASSUME IInv, Links, NEW c \in Conns, Collect(c)
    PROVE  /\ Links' /\ reg' = reg /\ reg \in Services /\ svc' = svc /\ conn[c] = "on"
           /\ loop[c].pc = "poll" /\ loop'[c].svc = reg /\ loop'[c].todo = Entries(reg)
           /\ \A d \in Conns : d # c => loop'[d] = loop[d]
  <1>1. /\ act = [d \in Conns |-> act[d]] /\ conn = [d \in Conns |-> conn[d]]
        /\ loop = [d \in Conns |-> loop[d]]
        /\ \A d \in Conns : /\ Threaded(loop[d], conn[d]) /\ Acting(act[d], conn[d])
                            /\ \A e \in loop[d].todo : proc[e[2]] # "none"
    BY Zenon DEF Links, LinkedConns
  <1> DEFINE m == svc[reg].sessions
             k == [Thread("read") EXCEPT !.svc = reg, !.persistent = svc[reg].persistent,
                                         !.todo = Entries(reg)]
  <1>2. /\ loop' = [loop EXCEPT ![c] = k] /\ loop[c].pc = "poll" /\ conn[c] = "on"
        /\ reg # NoService /\ reg' = reg /\ svc' = svc /\ proc' = proc /\ act' = act /\ conn' = conn
    BY Zenon DEF Collect, LoopOnly, At
  <1>3. reg \in Services /\ Mapped(m) /\ \A t \in DOMAIN m : proc[m[t]] # "none"
    BY <1>2, Zenon DEF Links, LinkedServices
  <1>4. DOMAIN k = ThreadFields /\ k.pc = "read" /\ k.svc = reg /\ k.todo = Entries(reg)
    BY DEF Thread, ThreadFields
  <1> HIDE DEF k, m
  <1>5. /\ Entries(reg) \subseteq Terminals \X Sessions
        /\ \A e \in Entries(reg) : proc[e[2]] # "none"
    BY <1>3 DEF Entries, Mapped, m
  <1>6. Threaded(k, "on")
    BY <1>3, <1>4, <1>5 DEF Threaded, AtRest
  <1>7. loop' = [d \in Conns |-> IF d = c THEN k ELSE loop[d]]
    BY ONLY <1>1, <1>2
  <1>8. /\ loop' = [d \in Conns |-> loop'[d]] /\ loop'[c] = k
        /\ \A d \in Conns : d # c => loop'[d] = loop[d]
    BY <1>7, Zenon
  <1>9. ASSUME NEW d \in Conns
        PROVE  Threaded(loop'[d], conn'[d]) /\ \A e \in loop'[d].todo : proc'[e[2]] # "none"
    <2>1. CASE d = c
      BY <1>2, <1>4, <1>5, <1>6, <1>8, <2>1, Zenon
    <2>2. CASE d # c
      BY <1>1, <1>2, <1>8, <2>2, Zenon
    <2> QED BY <2>1, <2>2
  <1>10. LinkedConns'
    BY <1>1, <1>2, <1>8, <1>9, Zenon DEF LinkedConns
  <1>11. LinkedServices'
    BY <1>2, Zenon DEF Links, LinkedServices
  <1> QED BY <1>2, <1>3, <1>4, <1>8, <1>10, <1>11, Zenon DEF Links

\* Every step is quiet or one of seven others.
LEMMA StepKinds ==
    ASSUME IInv, Links, [Next]_vars
    PROVE  \/ Quiet
           \/ \E c \in Conns :
                \/ AttachRefused(c) \/ (\E p \in BOOLEAN : Attach(c, p))
                \/ \E op \in {"open", "close", "resize"}, t \in Terminals : handle_action(c, op, t)
                \/ Reopen(c) \/ Open(c) \/ Collect(c) \/ \E e \in loop[c].todo : Poll(c, e)
  <1>1. CASE UNCHANGED vars
    BY <1>1, OtherQuiet, Zenon
  <1>2. CASE \E s \in Sessions : \/ \E n \in 1 .. MaxRead : Read(s, n)
                                 \/ ReadEof(s) \/ Exit(s) \/ DropSession(s)
    BY <1>2, OtherQuiet, Zenon
  <1>3. CASE Age \/ CleanupStep
    BY <1>3, OtherQuiet, Zenon
  <1>4. ASSUME NEW c \in Conns, Handle(c)
        PROVE  Quiet \/ Reopen(c) \/ Open(c)
    BY <1>4, HandlerQuiet, Zenon DEF Handle
  <1>5. ASSUME NEW c \in Conns, LoopStep(c)
        PROVE  Quiet \/ Collect(c) \/ \E e \in loop[c].todo : Poll(c, e)
    BY <1>5, ThreadQuiet, Zenon DEF LoopStep
  <1>6. ASSUME NEW c \in Conns, Disconnect(c) \/ \E p \in BOOLEAN : SetPersistent(c, p)
        PROVE  Quiet
    BY <1>6, OtherQuiet, Zenon
  <1> QED BY <1>1, <1>2, <1>3, <1>4, <1>5, <1>6, Zenon DEF Next

-----------------------------------------------------------------------------
(* Where the output of a session stands.                                   *)

\* Everything up to byte m has gone through the channel: the buffer and the replay
\* end there, and the channel holds what follows, up to the last byte that was sent.
Flow(x, m) ==
    \E e : /\ Marks(e, x.out) /\ e[0] = m
           /\ e[Len(x.out)] = x.sent \/ (x.reader = "none" /\ x.out = <<>>)
           /\ EndsAt(x.buf, m) /\ EndsAt(x.pending, m) /\ (x.active \/ x.pending = <<>>)

\* The client has seen everything up to there, and what comes will be sent to it.
Shown(x, q) ==
    \E m \in Nat : /\ Flow(x, m) /\ q[Len(q)] = m /\ x.pending = <<>>
                   /\ x.active \/ (x.out = <<>> /\ x.reader = "none")

Flows == \A s \in Sessions : \E m \in Nat : Flow(ses[s], m)

-----------------------------------------------------------------------------
(* What a client that attached alone has, and what it will be sent.        *)

Used == LiveServices \ {NoService}

\* The terminals whose handle_open has returned.
Settled == asked \ (IF act[last].op = "open" THEN {act[last].t} ELSE {})

\* Session s is terminal t of service o, or was when read_outputs took the sessions.
InMap(o, t, s) == t \in DOMAIN svc[o].sessions /\ svc[o].sessions[t] = s
Known(o, t, s) == InMap(o, t, s) \/ <<t, s>> \in loop[last].todo

\* One session per terminal.  What was taken and has left the service was opened by
\* this client; a session that is watched was reopened by it; and one of which the
\* client has something goes on from there.
SeenSession(o, t, s) ==
    /\ \A u \in Terminals, r \in Sessions : Known(o, u, r) => (t = u <=> s = r)
    /\ InMap(o, t, s) \/ (t \in Settled /\ t \notin DOMAIN svc[o].sessions)
    /\ ses[s].active => t \in Settled
    /\ conn[last] = "on" /\ got[t] # <<>> => Shown(ses[s], got[t])
Seen(o) == \A t \in Terminals, s \in Sessions : Known(o, t, s) => SeenSession(o, t, s)

\* The older connections are done and there is one service in use.
Alone ==
    /\ \A d \in Conns : d # last => loop[d].pc \in {"none", "end"}
    /\ \A a, b \in Used : a = b

Client ==
    /\ last \notin Conns => \A t \in Terminals : got[t] = <<>>
    /\ last \in Conns =>
         /\ act[last].op # "none" => act[last].t \in asked
         /\ \A t \in Terminals : got[t] # <<>> => t \in Settled
         /\ \A o \in Used : Seen(o)

Calm == plain => Alone /\ Client

\* Only the last connection does anything.
LEMMA OnlyLast ==
    ASSUME Links, Alone, NEW c \in Conns,
           conn[c] = "on" \/ act[c] # NoAct \/ loop[c].pc \notin {"none", "end"}
    PROVE  c = last
  <1>1. Threaded(loop[c], conn[c]) /\ Acting(act[c], conn[c])
    BY Zenon DEF Links, LinkedConns
  <1>2. loop[c].pc \notin {"none", "end"}
    BY <1>1 DEF Threaded, Acting
  <1> QED BY <1>2, Zenon DEF Alone

\* What is used is a service.
LEMMA UsedIn ==
    ASSUME Links
    PROVE  Used \subseteq Services
  <1>1. reg \in Services \union {NoService}
        /\ \A c \in Conns : Threaded(loop[c], conn[c]) /\ Acting(act[c], conn[c])
    BY Zenon DEF Links, LinkedServices, LinkedConns
  <1>2. \A c \in Conns : loop[c].svc \in Services \union {NoService}
                      /\ act[c].svc \in Services \union {NoService}
    BY ONLY <1>1 DEF Threaded, Acting, NoAct
  <1> QED BY <1>1, <1>2 DEF Used, LiveServices

\* What threads let go of is not used any more.
LEMMA UsedShrinks ==
    ASSUME QuietConns, reg' \in {reg, NoService}
    PROVE  Used' \subseteq Used
  <1>1. NoAct.svc = NoService
    BY DEF NoAct
  <1>2. \A c \in Conns : /\ act'[c].svc = act[c].svc \/ act'[c].svc = NoService
                         /\ loop'[c].svc = loop[c].svc \/ loop'[c].svc = NoService
    BY <1>1, Zenon DEF QuietConns
  <1> SUFFICES ASSUME NEW o \in Used' PROVE o \in Used
    BY Zenon
  <1>3. o # NoService /\ (o = reg' \/ \E c \in Conns : o = act'[c].svc \/ o = loop'[c].svc)
    BY DEF Used, LiveServices
  <1>4. o = reg \/ \E c \in Conns : o = act[c].svc \/ o = loop[c].svc
    BY <1>2, <1>3, Zenon
  <1> QED BY <1>3, <1>4, Zenon DEF Used, LiveServices

\* The handlers and the polling thread leave the older connections alone.
LEMMA QuietAlone ==
    ASSUME Alone, QuietConns, reg' \in {reg, NoService}, last' = last
    PROVE  Alone'
  <1>1. \A a, b \in Used' : a = b
    BY UsedShrinks, Zenon DEF Alone
  <1>2. \A d \in Conns : d # last' => loop'[d].pc \in {"none", "end"}
    BY Zenon DEF Alone, QuietConns
  <1> QED BY <1>1, <1>2, Zenon DEF Alone

\* What the client has opened stays opened until a handler begins.
LEMMA QuietSettled ==
    ASSUME QuietConns, last' = last, asked' = asked, last \in Conns
    PROVE  /\ Settled \subseteq Settled'
           /\ act'[last].op # "none" => act'[last] = act[last] /\ Settled' = Settled
           /\ act'[last].op = "none" => Settled' = asked
  <1>1. NoAct.op = "none"
    BY DEF NoAct
  <1>2. act'[last] = act[last] \/ act'[last] = NoAct
    BY Zenon DEF QuietConns
  <1>3. CASE act'[last] = act[last]
    BY <1>3 DEF Settled
  <1>4. CASE act'[last] = NoAct
    BY <1>1, <1>4 DEF Settled
  <1> QED BY <1>2, <1>3, <1>4

\* Quiet steps.  What leaves the service was opened by this client (handle_close), or
\* the thread that removes it has nothing left to read.
LEMMA CalmQuiet ==
    ASSUME Links, Calm, Quiet, \A s \in Sessions : \A q : Shown(ses[s], q) => Shown(ses'[s], q)
    PROVE  Calm'
  <1> SUFFICES ASSUME plain' PROVE Alone' /\ Client'
    BY Zenon DEF Calm
  <1>1. plain' = plain /\ last' = last /\ asked' = asked /\ got' = got
    BY Zenon DEF Quiet, QuietClient
  <1>2. Alone /\ Client /\ QuietConns /\ QuietServices /\ QuietSessions
    BY <1>1, Zenon DEF Calm, Quiet
  <1>3. reg' \in {reg, NoService}
    BY <1>2, Zenon DEF QuietServices
  <1>4. Alone' /\ Used' \subseteq Used
    BY <1>1, <1>2, <1>3, QuietAlone, UsedShrinks, Zenon
  <1>5. CASE last \notin Conns
    BY <1>1, <1>2, <1>4, <1>5, Zenon DEF Client
  <1>6. CASE last \in Conns
    <2>1. /\ act[last].op # "none" => act[last].t \in asked
          /\ \A t \in Terminals : got[t] # <<>> => t \in Settled
          /\ \A o \in Used : Seen(o)
      BY <1>2, <1>6, Zenon DEF Client
    <2>2. /\ Settled \subseteq Settled'
          /\ act'[last].op # "none" => act'[last] = act[last]
      BY <1>1, <1>2, <1>6, QuietSettled, Zenon
    <2>3. ASSUME NEW o \in Used', NEW t \in Terminals, NEW s \in Sessions, Known(o, t, s)'
          PROVE  SeenSession(o, t, s)'
      <3>0. o \in Used /\ o \in Services
        <4>1. o \in Used
          BY <1>4, Zenon
        <4> QED BY <4>1, UsedIn, Zenon
      <3>1. /\ DOMAIN svc'[o].sessions \subseteq DOMAIN svc[o].sessions
            /\ \A u \in DOMAIN svc'[o].sessions : svc'[o].sessions[u] = svc[o].sessions[u]
        <4>1. Shrinks(svc[o].sessions, svc'[o].sessions)
          BY <1>2, <3>0, Zenon DEF QuietServices
        <4> DEFINE m == svc[o].sessions
                   n == svc'[o].sessions
        <4>2. DOMAIN n \subseteq DOMAIN m /\ n = [u \in DOMAIN n |-> m[u]]
          BY <4>1, Zenon DEF Shrinks
        <4> HIDE DEF m, n
        <4>3. \A u \in DOMAIN n : n[u] = m[u]
          BY <4>2
        <4> QED BY <4>2, <4>3, Zenon DEF m, n
      <3>2. loop'[last].todo \subseteq loop[last].todo
        BY <1>2, <1>6, Zenon DEF QuietConns
      <3>3. ASSUME NEW u, NEW r PROVE (InMap(o, u, r)' => InMap(o, u, r)) /\ (Known(o, u, r)' => Known(o, u, r))
        BY <1>1, <3>1, <3>2, Zenon DEF InMap, Known
      <3>4. SeenSession(o, t, s)
        BY <2>1, <2>3, <3>0, <3>3, Zenon DEF Seen
      <3>5. \A u \in Terminals, r \in Sessions : Known(o, u, r)' => (t = u <=> s = r)
        BY <3>3, <3>4, Zenon DEF SeenSession
      <3>6. (InMap(o, t, s) \/ (t \in Settled /\ t \notin DOMAIN svc[o].sessions))'
        <4>1. CASE t \in Settled /\ t \notin DOMAIN svc[o].sessions
          BY <2>2, <3>1, <4>1, Zenon
        <4>2. CASE InMap(o, t, s) /\ t \in DOMAIN svc'[o].sessions
          BY <3>1, <4>2, Zenon DEF InMap
        <4>3. CASE t \in DOMAIN svc[o].sessions /\ t \notin DOMAIN svc'[o].sessions
          <5>1. CASE \E c \in Conns : act[c].op = "close" /\ act[c].t = t
            <6>1. act[last].op = "close" /\ act[last].t = t
              <7>1. \A c \in Conns : act[c].op = "close" => act[c] # NoAct
                <8>1. NoAct.op # "close"
                  BY Zenon DEF NoAct
                <8> QED BY <8>1, Zenon
              <7> QED BY <1>2, <5>1, <7>1, OnlyLast, Zenon
            <6>2. t \in Settled
              BY <2>1, <6>1 DEF Settled
            <6> QED BY <2>2, <4>3, <6>2, Zenon
          <5>2. CASE \E c \in Conns : loop[c].pc = "clean"
            <6>1. loop[last].pc = "clean"
              <7>1. \A c \in Conns : loop[c].pc = "clean" => loop[c].pc \notin {"none", "end"}
                OBVIOUS
              <7> QED BY <1>2, <5>2, <7>1, OnlyLast, Zenon
            <6>2. loop[last].todo = {}
              BY <1>6, <6>1, Zenon DEF Links, LinkedConns, Threaded
            <6>3. <<t, s>> \notin loop'[last].todo
              BY <3>2, <6>2
            <6> QED BY <1>1, <2>3, <4>3, <6>3, Zenon DEF Known, InMap
          <5> QED BY <1>2, <3>0, <4>3, <5>1, <5>2, Zenon DEF QuietServices
        <4> QED BY <3>4, <4>1, <4>2, <4>3, Zenon DEF SeenSession, InMap
      <3>7. ses'[s].active => t \in Settled'
        <4>1. Goes(ses[s], ses'[s])
          BY <1>2, Zenon DEF QuietSessions
        <4>2. ses'[s].active => ses[s].active
          BY <4>1, Zenon DEF Goes, SameOutput, Stops, Ends, Reads, Sends
        <4> QED BY <2>2, <3>4, <4>2, Zenon DEF SeenSession
      <3>8. conn'[last] = "on" => conn[last] = "on"
        <4>1. conn'[last] = conn[last] \/ conn'[last] = "gone"
          BY <1>2, <1>6, Zenon DEF QuietConns
        <4> QED BY <4>1
      <3>9. conn'[last] = "on" /\ got[t] # <<>> => Shown(ses'[s], got[t])
        BY <3>4, <3>8, Zenon DEF SeenSession
      <3> QED BY <1>1, <3>5, <3>6, <3>7, <3>9, Zenon DEF SeenSession
    <2>4. \A o \in Used' : Seen(o)'
      BY <2>3, Zenon DEF Seen
    <2>5. act'[last].op # "none" => act'[last].t \in asked
      BY <2>1, <2>2, Zenon
    <2>6. \A t \in Terminals : got[t] # <<>> => t \in Settled'
      BY <2>1, <2>2, Zenon
    <2> QED BY <1>1, <1>4, <1>6, <2>4, <2>5, <2>6, Zenon DEF Client
  <1> QED BY <1>5, <1>6

\* A connection that attaches: it has asked for nothing, and the sessions it finds
\* are watched by nobody.
LEMMA CalmAttach ==
    ASSUME IInv, Links, NEW c \in Conns, AttachRefused(c) \/ \E p \in BOOLEAN : Attach(c, p)
    PROVE  Calm'
  <1> SUFFICES ASSUME plain' PROVE Alone' /\ Client'
    BY Zenon DEF Calm
  <1>1. \A d \in Conns : loop[d].pc \in {"none", "end"}
    BY Zenon DEF Attach, AttachRefused
  <1>2. /\ last' = c /\ loop'[c] = Thread("spawned") /\ LinkedConns'
        /\ \A d \in Conns : d # c => loop'[d] = loop[d]
        /\ \A d \in Conns : act'[d] = act[d]
    BY AttachConns, Zenon
  <1>3. asked' = {} /\ got' = [t \in Terminals |-> <<>>]
    BY Zenon DEF Attach, AttachRefused
  <1>4. \A d \in Conns : act[d] = NoAct /\ loop[d].svc = NoService
    <2>1. \A d \in Conns : Threaded(loop[d], conn[d]) /\ Acting(act[d], conn[d])
      BY Zenon DEF Links, LinkedConns
    <2> QED BY <1>1, <2>1 DEF Threaded, Acting, AtRest
  <1>5. Thread("spawned").svc = NoService /\ Thread("spawned").todo = {} /\ NoAct.svc = NoService
        /\ NoAct.op = "none"
    BY DEF Thread, NoAct
  <1>6. \A o \in Used' : o = reg' /\ o # NoService
    BY <1>2, <1>4, <1>5, ZenonT(60) DEF Used, LiveServices
  <1>7. Alone'
    BY <1>1, <1>2, <1>6, Zenon DEF Alone
  <1>8. Settled' = {}
    BY <1>3 DEF Settled
  <1>9. \A t \in Terminals : got'[t] = <<>>
    BY <1>3
  <1>10. act'[c].op = "none"
    BY <1>2, <1>4, <1>5, Zenon
  <1>11. ASSUME NEW o \in Used', NEW t \in Terminals, NEW s \in Sessions, Known(o, t, s)'
         PROVE  SeenSession(o, t, s)'
    <2>1. o = reg' /\ reg' # NoService
      BY <1>6, <1>11, Zenon
    <2>2. PICK p \in BOOLEAN : Attach(c, p)
      <3>1. AttachRefused(c) => reg' = NoService
        BY Zenon DEF AttachRefused
      <3> QED BY <2>1, <3>1, Zenon
    <2> DEFINE m == svc'[o].sessions
    <2>3. /\ Links' /\ o \in Services
          /\ \/ reg = NoService /\ m = <<>>
             \/ reg' = reg /\ m = svc[reg].sessions
      BY <2>1, <2>2, AttachLinks, Zenon
    <2>4. <<t, s>> \notin loop'[c].todo /\ \A u, r : <<u, r>> \notin loop'[c].todo
      <3>1. loop'[c].todo = {}
        BY <1>2, <1>5, Zenon
      <3> QED BY <3>1
    <2>5. InMap(o, t, s)' /\ \A u, r : Known(o, u, r)' => InMap(o, u, r)'
      BY <1>2, <1>11, <2>4, Zenon DEF Known
    <2>6. Mapped(m)
      BY <2>3, Zenon DEF Links, LinkedServices
    <2>7. \A u \in Terminals, r \in Sessions : Known(o, u, r)' => (t = u <=> s = r)
      BY <2>5, <2>6, Zenon DEF InMap, Mapped
    <2>8. ~ses'[s].active
      <3>1. t \in DOMAIN m /\ m[t] = s
        BY <2>5, Zenon DEF InMap
      <3>2. m # <<>>
        BY <3>1
      <3>3. reg' = reg /\ m = svc[reg].sessions
        BY <2>3, <3>2, Zenon
      <3>4. s \in SessionsOf(reg)
        BY <3>1, <3>3, Zenon DEF SessionsOf, Range
      <3>5. Detaches(ses[s], ses'[s])
        BY <2>2, <3>3, <3>4, AttachOutput, Zenon
      <3> QED BY <3>5, Zenon DEF Detaches
    <2> QED BY <1>9, <2>5, <2>7, <2>8, Zenon DEF SeenSession
  <1>12. \A o \in Used' : Seen(o)'
    BY <1>11, Zenon DEF Seen
  <1> QED BY <1>2, <1>7, <1>9, <1>10, <1>12, Zenon DEF Client

\* handle_action: the client asks for a terminal it has not asked for, or does
\* something else with one it has.
LEMMA CalmAction ==
    ASSUME IInv, Links, Calm, NEW c \in Conns, NEW op \in {"open", "close", "resize"},
           NEW t \in Terminals, handle_action(c, op, t)
    PROVE  Calm'
  <1> SUFFICES ASSUME plain' PROVE Alone' /\ Client'
    BY Zenon DEF Calm
  <1>1. /\ plain' = plain /\ last' = last /\ got' = got /\ ses' = ses /\ conn' = conn /\ loop' = loop
        /\ reg' = reg /\ (c = last => (op = "open") = (t \notin asked))
        /\ asked' = IF c = last THEN asked \union {t} ELSE asked
    BY Zenon DEF handle_action
  <1>2. /\ reg \in Services /\ act[c] = NoAct /\ conn[c] = "on"
        /\ act'[c].op = op /\ act'[c].svc = reg /\ act'[c].t = t
        /\ \A d \in Conns : d # c => act'[d] = act[d]
        /\ \A o \in Services : svc'[o].sessions = svc[o].sessions
    <2>1. /\ reg \in Services /\ act[c] = NoAct /\ conn[c] = "on"
          /\ act'[c].op = op /\ act'[c].svc = reg /\ act'[c].t = t
      BY ActionLinks, ZenonT(60)
    <2>2. /\ \A d \in Conns : d # c => act'[d] = act[d]
          /\ \A o \in Services : svc'[o].sessions = svc[o].sessions
      BY ActionLinks, ZenonT(60)
    <2> QED BY <2>1, <2>2, Zenon
  <1>3. Alone /\ Client
    BY <1>1, Zenon DEF Calm
  <1>4. c = last
    BY <1>2, <1>3, OnlyLast, Zenon
  <1>5. Used' \subseteq Used
    <2> SUFFICES ASSUME NEW o \in Used' PROVE o \in Used
      BY Zenon
    <2>1. o # NoService /\ (o = reg' \/ \E d \in Conns : o = act'[d].svc \/ o = loop'[d].svc)
      BY Zenon DEF Used, LiveServices
    <2>2. o = reg \/ \E d \in Conns : o = act[d].svc \/ o = loop[d].svc
      BY <1>1, <1>2, <2>1, Zenon
    <2> QED BY <2>1, <2>2, Zenon DEF Used, LiveServices
  <1>6. Alone'
    BY <1>1, <1>3, <1>5, Zenon DEF Alone
  <1>7. /\ \A u \in Terminals : got[u] # <<>> => u \in Settled
        /\ \A o \in Used : Seen(o)
    BY <1>3, <1>4, Zenon DEF Client
  <1>8. Settled' = Settled
    <2>1. Settled = asked
      <3>1. NoAct.op # "open" /\ act[last] = NoAct
        BY <1>2, <1>4, Zenon DEF NoAct
      <3>2. (IF act[last].op = "open" THEN {act[last].t} ELSE {}) = {}
        BY <3>1, Zenon
      <3> QED BY ONLY <3>2 DEF Settled
    <2>2. CASE op = "open"
      <3>1. t \notin asked /\ asked' = asked \union {t} /\ act'[last].op = "open" /\ act'[last].t = t
        BY <1>1, <1>2, <1>4, <2>2
      <3> QED BY <1>1, <2>1, <3>1 DEF Settled
    <2>3. CASE op # "open"
      <3>1. t \in asked /\ asked' = asked \union {t} /\ act'[last].op # "open"
        BY <1>1, <1>2, <1>4, <2>3
      <3> QED BY <1>1, <2>1, <3>1 DEF Settled
    <2> QED BY <2>2, <2>3
  <1>9. act'[last].t \in asked'
    BY <1>1, <1>2, <1>4
  <1>10. ASSUME NEW o \in Used' PROVE Seen(o)'
    <2>1. Seen(o) /\ o \in Services
      BY <1>5, <1>7, UsedIn, Zenon
    <2>2. svc'[o].sessions = svc[o].sessions
      BY <1>2, <2>1, Zenon
    <2>3. \A u, r : (InMap(o, u, r)' <=> InMap(o, u, r)) /\ (Known(o, u, r)' <=> Known(o, u, r))
      BY <1>1, <2>2, Zenon DEF InMap, Known
    <2>4. ASSUME NEW u \in Terminals, NEW s \in Sessions, Known(o, u, s)' PROVE SeenSession(o, u, s)'
      <3>1. SeenSession(o, u, s)
        BY <2>1, <2>3, <2>4, Zenon DEF Seen
      <3>2. \A v \in Terminals, r \in Sessions : Known(o, v, r)' => (u = v <=> s = r)
        BY <2>3, <3>1, Zenon DEF SeenSession
      <3>3. (InMap(o, u, s) \/ (u \in Settled /\ u \notin DOMAIN svc[o].sessions))'
        BY <1>8, <2>2, <2>3, <3>1, Zenon DEF SeenSession
      <3>4. /\ ses'[s].active => u \in Settled'
            /\ conn'[last'] = "on" /\ got'[u] # <<>> => Shown(ses'[s], got'[u])
        BY <1>1, <1>8, <3>1, Zenon DEF SeenSession
      <3> QED BY <3>2, <3>3, <3>4, Zenon DEF SeenSession
    <2> QED BY <2>4, Zenon DEF Seen
  <1> QED BY <1>1, <1>4, <1>6, <1>7, <1>8, <1>9, <1>10, Zenon DEF Client

\* The service of a handler is used.
LEMMA ActsOnUsed ==
    ASSUME IInv, Links, NEW c \in Conns, act[c].svc \in Services
    PROVE  act[c].svc \in Used
  <1>1. act[c].svc # NoService
    BY TerminalAssumption, Zenon
  <1> QED BY <1>1, Zenon DEF Used, LiveServices

\* handle_open on a terminal that exists: the client has nothing of it yet.
LEMMA CalmReopen ==
    ASSUME IInv, Links, Calm, NEW c \in Conns, Reopen(c)
    PROVE  Calm'
  <1> SUFFICES ASSUME plain' PROVE Alone' /\ Client'
    BY Zenon DEF Calm
  <1> DEFINE o == act[c].svc
             t == act[c].t
             m == svc[o].sessions
             s == m[t]
  <1>1. /\ QuietConns /\ ShellsStay /\ act[c].op = "open" /\ o \in Services
        /\ t \in Terminals /\ act[c] # NoAct
    BY OpeningConns, Zenon
  <1>2. /\ Remap(o, t) = m /\ t \in DOMAIN m /\ plain
        /\ svc' = [svc EXCEPT ![o].sessions = m, ![o].sync = FALSE]
        /\ last' = last /\ asked' = asked /\ got' = got /\ conn' = conn /\ loop' = loop /\ reg' = reg
        /\ act' = [act EXCEPT ![c] = NoAct]
    BY Zenon DEF Reopen, Handling
  <1>3. \A x \in Sessions : x # s => ses'[x] = ses[x]
    BY <1>2, ReopenOutput, ZenonT(60)
  <1>4. Alone /\ Client
    BY <1>2, Zenon DEF Calm
  <1>5. c = last
    BY <1>1, <1>4, OnlyLast, Zenon
  <1>6. Mapped(m) /\ \A u \in DOMAIN m : m[u] \in Sessions /\ proc[m[u]] # "none"
    <2>1. Mapped(m) /\ \A u \in DOMAIN m : proc[m[u]] # "none"
      BY <1>1, Zenon DEF Links, LinkedServices
    <2> QED BY <2>1 DEF Mapped
  <1>7. o \in Used
    BY <1>1, ActsOnUsed, Zenon
  <1>8. /\ act[last].op = "open" /\ act[last].t = t
        /\ t \in asked /\ (\A u \in Terminals : got[u] # <<>> => u \in Settled)
        /\ \A a \in Used : Seen(a)
    <2>1. "open" # "none"
      OBVIOUS
    <2> QED BY <1>1, <1>4, <1>5, <2>1, Zenon DEF Client
  <1> HIDE DEF o, t, m, s
  <1>9. \A a \in Services : svc'[a].sessions = svc[a].sessions
    <2>1. \A u \in DOMAIN m : proc'[m[u]] # "none"
      BY <1>1, <1>6, Zenon DEF ShellsStay
    <2>2. svc'[o].sessions = m /\ \A a \in Services : a # o => svc'[a] = svc[a]
      BY <1>1, <1>2, <1>6, <2>1, ServiceChanges, Zenon
    <2> QED BY <2>2, Zenon DEF m
  <1>10. Alone' /\ Used' \subseteq Used
    BY <1>1, <1>2, <1>4, QuietAlone, UsedShrinks, Zenon
  <1>11. t \notin Settled /\ Settled' = asked /\ Settled \subseteq asked /\ act'[last].op = "none"
    <2>1. act'[c] = NoAct /\ NoAct.op = "none"
      BY <1>2 DEF NoAct, Links, LinkedConns
    <2> QED BY <1>2, <1>5, <1>8, <2>1 DEF Settled
  <1>12. ASSUME NEW a \in Used' PROVE Seen(a)'
    <2>1. a = o
      BY <1>4, <1>7, <1>10, <1>12, Zenon DEF Alone
    <2>2. svc'[a].sessions = svc[a].sessions
      BY <1>1, <1>9, <2>1, Zenon
    <2>3. \A u, r : (InMap(a, u, r)' <=> InMap(a, u, r)) /\ (Known(a, u, r)' <=> Known(a, u, r))
      BY <1>2, <2>2, Zenon DEF InMap, Known
    <2>4. ASSUME NEW u \in Terminals, NEW r \in Sessions, Known(a, u, r)' PROVE SeenSession(a, u, r)'
      <3>1. Known(a, u, r) /\ SeenSession(a, u, r)
        BY <1>7, <1>8, <2>1, <2>3, <2>4, Zenon DEF Seen
      <3>2. \A v \in Terminals, x \in Sessions : Known(a, v, x)' => (u = v <=> r = x)
        BY <2>3, <3>1, Zenon DEF SeenSession
      <3>3. (InMap(a, u, r) \/ (u \in Settled /\ u \notin DOMAIN svc[a].sessions))'
        BY <1>11, <2>2, <2>3, <3>1, Zenon DEF SeenSession
      <3>4. Known(a, t, s) /\ s \in Sessions
        BY <1>2, <1>6, <2>1, Zenon DEF Known, InMap, m, s
      <3>5. CASE r = s
        <4>1. u = t
          BY <1>1, <3>1, <3>4, <3>5, Zenon DEF SeenSession, t
        <4>2. got[u] = <<>> /\ u \in Settled'
          BY <1>8, <1>11, <4>1, Zenon
        <4> QED BY <1>2, <3>2, <3>3, <4>2, Zenon DEF SeenSession
      <3>6. CASE r # s
        <4>1. ses'[r] = ses[r]
          BY <1>3, <3>6, Zenon
        <4>2. /\ ses'[r].active => u \in Settled'
              /\ conn'[last'] = "on" /\ got'[u] # <<>> => Shown(ses'[r], got'[u])
          BY <1>2, <1>11, <3>1, <4>1, Zenon DEF SeenSession
        <4> QED BY <3>2, <3>3, <4>2, Zenon DEF SeenSession
      <3> QED BY <3>5, <3>6
    <2> QED BY <2>4, Zenon DEF Seen
  <1>13. \A u \in Terminals : got[u] # <<>> => u \in Settled'
    BY <1>8, <1>11, Zenon
  <1> QED BY <1>2, <1>5, <1>10, <1>11, <1>12, <1>13, Zenon DEF Client

\* handle_open of a new terminal: neither the id nor the session is known.
LEMMA CalmOpen ==
    ASSUME IInv, Links, Calm, NEW c \in Conns, Open(c)
    PROVE  Calm'
  <1> SUFFICES ASSUME plain' PROVE Alone' /\ Client'
    BY Zenon DEF Calm
  <1> DEFINE o == act[c].svc
             t == act[c].t
             m == svc[o].sessions
             n == svc'[o].sessions
  <1>1. /\ QuietConns /\ act[c].op = "open" /\ o \in Services
        /\ t \in Terminals /\ act[c] # NoAct
    BY OpeningConns, Zenon
  <1>2. /\ plain /\ last' = last /\ asked' = asked /\ got' = got /\ conn' = conn /\ loop' = loop
        /\ reg' = reg /\ ses' = ses /\ act' = [act EXCEPT ![c] = NoAct]
    BY Zenon DEF Open, Handling
  <1>3. t \notin DOMAIN m /\ \E s \in Sessions : proc[s] = "none" /\ Grows(m, n, t, s)
    BY OpenLinks, Zenon
  <1>4. PICK s \in Sessions : proc[s] = "none" /\ Grows(m, n, t, s)
    BY <1>3, Zenon
  <1>5. Alone /\ Client
    BY <1>2, Zenon DEF Calm
  <1>6. c = last
    BY <1>1, <1>5, OnlyLast, Zenon
  <1>7. o \in Used
    BY <1>1, ActsOnUsed, Zenon
  <1>8. /\ act[last].op = "open" /\ act[last].t = t
        /\ t \in asked /\ (\A u \in Terminals : got[u] # <<>> => u \in Settled)
        /\ \A a \in Used : Seen(a)
    <2>1. "open" # "none"
      OBVIOUS
    <2> QED BY <1>1, <1>5, <1>6, <2>1, Zenon DEF Client
  <1>9. \A u, r : Known(o, u, r) => proc[r] # "none"
    <2>1. (\A u \in DOMAIN m : proc[m[u]] # "none") /\ \A e \in loop[c].todo : proc[e[2]] # "none"
      BY <1>1, Zenon DEF Links, LinkedServices, LinkedConns
    <2>2. \A u, r : <<u, r>>[2] = r
      OBVIOUS
    <2> QED BY <1>6, <2>1, <2>2, Zenon DEF Known, InMap
  <1> HIDE DEF o, t, m, n
  <1>10. Alone' /\ Used' \subseteq Used
    BY <1>1, <1>2, <1>5, QuietAlone, UsedShrinks, Zenon
  <1>11. t \notin Settled /\ Settled' = asked /\ Settled \subseteq asked /\ act'[last].op = "none"
    <2>1. act'[c] = NoAct /\ NoAct.op = "none"
      BY <1>2 DEF NoAct, Links, LinkedConns
    <2> QED BY <1>2, <1>6, <1>8, <2>1 DEF Settled
  <1>12. ASSUME NEW a \in Used' PROVE Seen(a)'
    <2>1. a = o
      BY <1>5, <1>7, <1>10, <1>12, Zenon DEF Alone
    <2>2. /\ DOMAIN n = DOMAIN m \union {t} /\ n[t] = s
          /\ \A u \in DOMAIN m : u # t /\ n[u] = m[u]
      BY <1>3, <1>4 DEF Grows
    <2>3. \A u, r : InMap(a, u, r)' <=> InMap(a, u, r) \/ (u = t /\ r = s)
      <3>1. \A u, r : u \in DOMAIN n /\ n[u] = r <=> (u \in DOMAIN m /\ m[u] = r) \/ (u = t /\ r = s)
        BY <1>3, <2>2
      <3> QED BY <2>1, <3>1, Zenon DEF InMap, n, m
    <2>4. \A u, r : Known(a, u, r)' <=> Known(a, u, r) \/ (u = t /\ r = s)
      BY <1>2, <2>3, Zenon DEF Known
    <2>5. \A u \in Terminals, r \in Sessions : Known(a, u, r) => SeenSession(a, u, r) /\ u # t /\ r # s
      <3> SUFFICES ASSUME NEW u \in Terminals, NEW r \in Sessions, Known(a, u, r)
                   PROVE  SeenSession(a, u, r) /\ u # t /\ r # s
        BY Zenon
      <3>1. SeenSession(a, u, r)
        BY <1>7, <1>8, <2>1, Zenon DEF Seen
      <3>2. u \in DOMAIN m \/ u \in Settled
        BY <2>1, <3>1, Zenon DEF SeenSession, InMap, m
      <3>3. u # t
        BY <1>3, <1>11, <3>2, Zenon
      <3>4. r # s
        BY <1>4, <1>9, <2>1, Zenon
      <3> QED BY <3>1, <3>3, <3>4
    <2>6. ASSUME NEW u \in Terminals, NEW r \in Sessions, Known(a, u, r)' PROVE SeenSession(a, u, r)'
      <3>1. CASE Known(a, u, r)
        <4>1. SeenSession(a, u, r) /\ u # t /\ r # s
          BY <2>5, <3>1, Zenon
        <4>2. \A v \in Terminals, x \in Sessions : Known(a, v, x)' => (u = v <=> r = x)
          BY <2>4, <4>1, Zenon DEF SeenSession
        <4>3. (InMap(a, u, r) \/ (u \in Settled /\ u \notin DOMAIN svc[a].sessions))'
          <5>1. u \notin DOMAIN m => u \notin DOMAIN n
            BY <2>2, <4>1
          <5> QED BY <1>11, <2>1, <2>3, <4>1, <5>1, Zenon DEF SeenSession, m, n
        <4>4. /\ ses'[r].active => u \in Settled'
              /\ conn'[last'] = "on" /\ got'[u] # <<>> => Shown(ses'[r], got'[u])
          BY <1>2, <1>11, <4>1, Zenon DEF SeenSession
        <4> QED BY <4>2, <4>3, <4>4, Zenon DEF SeenSession
      <3>2. CASE u = t /\ r = s
        <4>1. \A v \in Terminals, x \in Sessions : Known(a, v, x)' => (u = v <=> r = x)
          BY <2>4, <2>5, <3>2, Zenon
        <4>2. InMap(a, u, r)'
          BY <2>3, <3>2, Zenon
        <4>3. got[u] = <<>> /\ u \in Settled'
          BY <1>8, <1>11, <3>2, Zenon
        <4> QED BY <1>2, <4>1, <4>2, <4>3, Zenon DEF SeenSession
      <3> QED BY <2>4, <2>6, <3>1, <3>2, Zenon
    <2> QED BY <2>6, Zenon DEF Seen
  <1>13. \A u \in Terminals : got[u] # <<>> => u \in Settled'
    BY <1>8, <1>11, Zenon
  <1> QED BY <1>2, <1>6, <1>10, <1>11, <1>12, <1>13, Zenon DEF Client

\* read_outputs takes the sessions of the service: all of them are its terminals.
LEMMA CalmCollect ==
    ASSUME IInv, Links, Calm, NEW c \in Conns, Collect(c)
    PROVE  Calm'
  <1> SUFFICES ASSUME plain' PROVE Alone' /\ Client'
    BY Zenon DEF Calm
  <1>1. /\ plain /\ last' = last /\ asked' = asked /\ got' = got /\ conn' = conn /\ act' = act
        /\ reg' = reg /\ svc' = svc /\ ses' = ses
    BY Zenon DEF Collect, LoopOnly
  <1>2. /\ reg \in Services /\ conn[c] = "on" /\ loop'[c].svc = reg
        /\ loop'[c].todo = Entries(reg) /\ \A d \in Conns : d # c => loop'[d] = loop[d]
    BY CollectLinks, Zenon
  <1>3. Alone /\ Client
    BY <1>1, Zenon DEF Calm
  <1>4. c = last
    BY <1>2, <1>3, OnlyLast, Zenon
  <1>5. reg \in Used
    BY <1>2, TerminalAssumption, Zenon DEF Used, LiveServices
  <1>6. Used' \subseteq Used
    <2> SUFFICES ASSUME NEW o \in Used' PROVE o \in Used
      BY Zenon
    <2>1. o # NoService /\ (o = reg' \/ \E d \in Conns : o = act'[d].svc \/ o = loop'[d].svc)
      BY Zenon DEF Used, LiveServices
    <2>2. o = reg \/ \E d \in Conns : o = act[d].svc \/ o = loop[d].svc
      BY <1>1, <1>2, <2>1, Zenon
    <2> QED BY <2>1, <2>2, Zenon DEF Used, LiveServices
  <1>7. Alone'
    BY <1>1, <1>2, <1>3, <1>4, <1>6, Zenon DEF Alone
  <1>8. Settled' = Settled
    BY <1>1 DEF Settled
  <1>9. ASSUME NEW o \in Used' PROVE Seen(o)'
    <2>1. o = reg /\ Seen(o)
      BY <1>3, <1>4, <1>5, <1>6, Zenon DEF Alone, Client
    <2>2. \A u, r : <<u, r>> \in Entries(reg) => u \in DOMAIN svc[reg].sessions /\ svc[reg].sessions[u] = r
      BY DEF Entries
    <2>3. \A u, r : (Known(o, u, r)' => Known(o, u, r)) /\ (InMap(o, u, r)' <=> InMap(o, u, r))
      <3>1. \A u, r : InMap(o, u, r)' <=> InMap(o, u, r)
        BY <1>1, Zenon DEF InMap
      <3>2. loop'[last'].todo = Entries(reg)
        BY <1>1, <1>2, <1>4
      <3>3. \A u, r : <<u, r>> \in loop'[last'].todo => InMap(reg, u, r)
        BY <2>2, <3>2, Zenon DEF InMap
      <3> QED BY <2>1, <3>1, <3>3, Zenon DEF Known
    <2>4. ASSUME NEW u \in Terminals, NEW s \in Sessions, Known(o, u, s)' PROVE SeenSession(o, u, s)'
      <3>1. SeenSession(o, u, s)
        BY <2>1, <2>3, <2>4, Zenon DEF Seen
      <3>2. \A v \in Terminals, r \in Sessions : Known(o, v, r)' => (u = v <=> s = r)
        BY <2>3, <3>1, Zenon DEF SeenSession
      <3>3. (InMap(o, u, s) \/ (u \in Settled /\ u \notin DOMAIN svc[o].sessions))'
        BY <1>1, <1>8, <2>3, <3>1, Zenon DEF SeenSession
      <3>4. /\ ses'[s].active => u \in Settled'
            /\ conn'[last'] = "on" /\ got'[u] # <<>> => Shown(ses'[s], got'[u])
        BY <1>1, <1>8, <3>1, Zenon DEF SeenSession
      <3> QED BY <3>2, <3>3, <3>4, Zenon DEF SeenSession
    <2> QED BY <2>4, Zenon DEF Seen
  <1> QED BY <1>1, <1>3, <1>4, <1>7, <1>8, <1>9, Zenon DEF Client

\* What read_outputs may count on: it reads a terminal of the last connection, which
\* the client has been shown, or has nothing of; one that is watched was opened.
Sending(e) ==
    /\ e[1] \in Terminals /\ e[2] \in Sessions
    /\ ses[e[2]].active => e[1] \in Settled
    /\ conn[last] = "on" /\ got[e[1]] # <<>> => Shown(ses[e[2]], got[e[1]])

\* read_outputs sends what the client is watching: the thread is the last client's,
\* and the session is one it knows.
LEMMA PollSending ==
    ASSUME IInv, Links, Calm, plain, NEW c \in Conns, NEW e \in loop[c].todo, Poll(c, e)
    PROVE  c = last /\ Sending(e) /\ \A o \in Used : Known(o, e[1], e[2])
  <1>1. Alone /\ Client
    BY Zenon DEF Calm
  <1>2. loop[c].pc = "read"
    BY Zenon DEF Poll, At
  <1>3. loop[c].pc \notin {"none", "end"}
    BY <1>2
  <1>4. c = last
    BY <1>1, <1>3, OnlyLast, Zenon
  <1>5. Threaded(loop[c], conn[c])
    BY Zenon DEF Links, LinkedConns
  <1>6. e = <<e[1], e[2]>> /\ e[1] \in Terminals /\ e[2] \in Sessions
    <2>1. e \in Terminals \X Sessions
      BY <1>5, Zenon DEF Threaded
    <2> QED BY ONLY <2>1
  <1>7. loop[c].svc \in Used
    <2>1. loop[c].svc \in Services
      BY <1>2, <1>5 DEF Threaded, AtRest
    <2>2. loop[c].svc # NoService
      BY <2>1, TerminalAssumption, Zenon
    <2> QED BY <2>2, Zenon DEF Used, LiveServices
  <1>8. \A o \in Used : Known(o, e[1], e[2])
    BY <1>4, <1>6, Zenon DEF Known
  <1>9. SeenSession(loop[c].svc, e[1], e[2])
    BY <1>1, <1>4, <1>6, <1>7, <1>8, Zenon DEF Client, Seen
  <1> QED BY <1>4, <1>6, <1>8, <1>9, Zenon DEF SeenSession, Sending

\* read_outputs on one session: what the client is shown goes on.
LEMMA CalmPoll ==
    ASSUME IInv, Links, Calm, NEW c \in Conns, NEW e \in loop[c].todo, Poll(c, e),
           got = [t \in Terminals |-> got[t]],
           plain /\ Sending(e) /\ conn[last] = "on" /\ got'[e[1]] # <<>>
               => Shown(ses'[e[2]], got'[e[1]])
    PROVE  Calm'
  <1> SUFFICES ASSUME plain' PROVE Alone' /\ Client'
    BY Zenon DEF Calm
  <1>1. /\ plain /\ last' = last /\ asked' = asked /\ conn' = conn /\ act' = act
        /\ reg' = reg /\ svc' = svc
    BY Zenon DEF Poll
  <1>2. c = last /\ Sending(e) /\ \A o \in Used : Known(o, e[1], e[2])
    BY <1>1, PollSending, Zenon
  <1>3. Alone /\ Client /\ QuietConns /\ loop'[c].todo \subseteq loop[c].todo \ {e}
    BY <1>1, PollLinks, Zenon DEF Calm
  <1>4. Alone' /\ Used' \subseteq Used
    BY <1>1, <1>3, QuietAlone, UsedShrinks, Zenon
  <1>5. e[1] \in Terminals /\ e[2] \in Sessions /\ (ses[e[2]].active => e[1] \in Settled)
    BY <1>2, Zenon DEF Sending
  <1>6. /\ Polls(ses[e[2]], ses'[e[2]])
        /\ \A s \in Sessions : s # e[2] => ses'[s] = ses[s]
    BY <1>5, PollOutput, Zenon
  <1>7. /\ \A t \in Terminals : t # e[1] => got'[t] = got[t]
        /\ got' = got \/ ses[e[2]].active
    <2>1. (got' = got \/ \E q : got' = [got EXCEPT ![e[1]] = q]) /\ (got' = got \/ ses[e[2]].active)
      BY Zenon DEF Poll, Deliver
    <2>2. ASSUME NEW q, got' = [got EXCEPT ![e[1]] = q]
          PROVE  \A t \in Terminals : t # e[1] => got'[t] = got[t]
      BY ONLY <2>2, got = [t \in Terminals |-> got[t]]
    <2> QED BY <2>1, <2>2, Zenon
  <1>8. Settled' = Settled
    BY <1>1 DEF Settled
  <1>9. /\ act[last].op # "none" => act[last].t \in asked
        /\ \A t \in Terminals : got[t] # <<>> => t \in Settled
        /\ \A o \in Used : Seen(o)
    BY <1>2, <1>3, Zenon DEF Client
  <1>10. \A t \in Terminals : got'[t] # <<>> => t \in Settled
    BY <1>5, <1>7, <1>9, Zenon
  <1>11. ASSUME NEW o \in Used' PROVE Seen(o)'
    <2>1. Seen(o) /\ Known(o, e[1], e[2])
      BY <1>2, <1>4, <1>9, Zenon
    <2>2. \A u, r : (Known(o, u, r)' => Known(o, u, r)) /\ (InMap(o, u, r)' <=> InMap(o, u, r))
      <3>1. \A u, r : <<u, r>> \in loop'[last].todo => <<u, r>> \in loop[last].todo
        BY <1>2, <1>3
      <3> QED BY <1>1, <3>1, Zenon DEF Known, InMap
    <2>3. ASSUME NEW u \in Terminals, NEW s \in Sessions, Known(o, u, s)' PROVE SeenSession(o, u, s)'
      <3>1. SeenSession(o, u, s) /\ Known(o, u, s)
        BY <2>1, <2>2, <2>3, Zenon DEF Seen
      <3>2. \A v \in Terminals, r \in Sessions : Known(o, v, r)' => (u = v <=> s = r)
        BY <2>2, <3>1, Zenon DEF SeenSession
      <3>3. (InMap(o, u, s) \/ (u \in Settled /\ u \notin DOMAIN svc[o].sessions))'
        BY <1>1, <1>8, <2>2, <3>1, Zenon DEF SeenSession
      <3>4. u = e[1] <=> s = e[2]
        BY <1>5, <2>1, <3>1, Zenon DEF SeenSession
      <3>5. /\ ses'[s].active => u \in Settled'
            /\ conn'[last'] = "on" /\ got'[u] # <<>> => Shown(ses'[s], got'[u])
        <4>1. CASE s = e[2]
          BY <1>1, <1>2, <1>5, <1>6, <1>8, <3>4, <4>1, Zenon DEF Polls
        <4>2. CASE s # e[2]
          BY <1>1, <1>6, <1>7, <1>8, <3>1, <3>4, <4>2, Zenon DEF SeenSession
        <4> QED BY <4>1, <4>2
      <3> QED BY <3>2, <3>3, <3>5, Zenon DEF SeenSession
    <2> QED BY <2>3, Zenon DEF Seen
  <1> QED BY <1>1, <1>2, <1>4, <1>8, <1>9, <1>10, <1>11, Zenon DEF Client

\* A surviving session that takes the id asked for has no other then (handle_open).
\* Min is the least of a set of numbers.
LEMMA RemapIs ==
    ASSUME Links, NEW o \in Services, NEW t \in Terminals,
           \A D \in SUBSET Nat : D # {} => Min(D) \in D
    PROVE  LET n == Remap(o, t) IN Mapped(n) /\ \A u \in DOMAIN n : proc[n[u]] # "none"
  <1> DEFINE m == svc[o].sessions
             k == Min(DOMAIN m)
             w == Without(m, k)
             n == With(w, t, m[k])
  <1>1. Mapped(m) /\ \A u \in DOMAIN m : proc[m[u]] # "none"
    BY Zenon DEF Links, LinkedServices
  <1>2. Remap(o, t) = m \/ (m # <<>> /\ Remap(o, t) = n)
    BY Zenon DEF Remap
  <1> HIDE DEF m
  <1>3. ASSUME m # <<>> PROVE Mapped(n) /\ \A u \in DOMAIN n : proc[n[u]] # "none"
    <2>1. DOMAIN m # {}
      <3> SUFFICES ASSUME DOMAIN m = {} PROVE FALSE
        OBVIOUS
      <3>1. m \in [DOMAIN m -> Sessions]
        BY <1>1, Zenon DEF Mapped
      <3>2. 1 .. 0 = {} /\ 0 \in Nat
        OBVIOUS
      <3>3. m \in [1 .. 0 -> Sessions]
        BY <3>1, <3>2, Zenon
      <3>4. m \in Seq(Sessions) /\ Len(m) = 0
        BY <3>2, <3>3
      <3> QED BY <1>3, <3>4
    <2>2. DOMAIN m \in SUBSET Nat
      BY <1>1, TerminalAssumption DEF Mapped
    <2>3. k \in DOMAIN m
      BY <2>1, <2>2, Zenon
    <2> HIDE DEF k
    <2>4. m[k] \in Sessions
      BY <1>1, <2>3 DEF Mapped
    <2>5. DOMAIN w = DOMAIN m \ {k} /\ \A u \in DOMAIN m \ {k} : w[u] = m[u]
      BY DEF Without, Restrict
    <2>6. w \in [DOMAIN w -> Sessions]
      BY <1>1 DEF Without, Restrict, Mapped
    <2> HIDE DEF w
    <2>7. Mapped(w) /\ \A u \in DOMAIN w \ {t} : w[u] # m[k]
      BY <1>1, <2>3, <2>5, <2>6 DEF Mapped
    <2>8. Mapped(n) /\ Grows(w, n, t, m[k])
      BY <2>4, <2>7, MapGrows, Zenon
    <2> HIDE DEF n
    <2>9. \A u \in DOMAIN n : \E v \in DOMAIN m : n[u] = m[v]
      BY <2>3, <2>5, <2>8 DEF Grows
    <2> QED BY <1>1, <2>8, <2>9, Zenon
  <1> QED BY <1>1, <1>2, <1>3, Zenon

\* handle_open on a terminal that exists.
LEMMA ReopenLinks ==
    ASSUME IInv, Links, NEW c \in Conns, Reopen(c),
           \A D \in SUBSET Nat : D # {} => Min(D) \in D
    PROVE  Links'
  <1> DEFINE o == act[c].svc
             n == Remap(o, act[c].t)
  <1>1. QuietConns /\ ShellsStay /\ o \in Services /\ act[c].t \in Terminals
    BY OpeningConns, Zenon
  <1>2. svc' = [svc EXCEPT ![o].sessions = n, ![o].sync = FALSE] /\ reg' = reg /\ proc' = proc
    BY Zenon DEF Reopen
  <1>3. Mapped(n) /\ \A u \in DOMAIN n : proc[n[u]] # "none"
    BY <1>1, RemapIs, Zenon
  <1> HIDE DEF n, o
  <1>4. LinkedServices'
    BY <1>1, <1>2, <1>3, ServiceChanges, Zenon
  <1> QED BY <1>1, <1>4, QuietLinks, Zenon DEF Links

\* What is referred to exists, whatever happens.
LEMMA LinksStep ==
    ASSUME IInv, Links, [Next]_vars, \A D \in SUBSET Nat : D # {} => Min(D) \in D
    PROVE  Links'
  <1>1. CASE Quiet
    BY <1>1, QuietLinks, Zenon DEF Quiet, Links
  <1>2. ASSUME NEW c \in Conns, AttachRefused(c) PROVE Links'
    <2>1. reg' = reg /\ svc' = svc /\ proc' = proc
      BY <1>2, Zenon DEF AttachRefused
    <2>2. LinkedServices'
      BY <2>1, Zenon DEF Links, LinkedServices
    <2> QED BY <1>2, <2>2, AttachConns, Zenon DEF Links
  <1>3. ASSUME NEW c \in Conns, NEW p \in BOOLEAN, Attach(c, p) PROVE Links'
    BY <1>3, AttachLinks, Zenon
  <1>4. ASSUME NEW c \in Conns, NEW op \in {"open", "close", "resize"}, NEW t \in Terminals,
               handle_action(c, op, t)
        PROVE  Links'
    BY <1>4, ActionLinks
  <1>5. ASSUME NEW c \in Conns, Reopen(c) PROVE Links'
    BY <1>5, ReopenLinks, Zenon
  <1>6. ASSUME NEW c \in Conns, Open(c) PROVE Links'
    BY <1>6, OpenLinks, Zenon
  <1>7. ASSUME NEW c \in Conns, Collect(c) PROVE Links'
    BY <1>7, CollectLinks, Zenon
  <1>8. ASSUME NEW c \in Conns, NEW e \in loop[c].todo, Poll(c, e) PROVE Links'
    BY <1>8, PollLinks, QuietLinks, Zenon DEF Links
  <1> QED BY <1>1, <1>2, <1>3, <1>4, <1>5, <1>6, <1>7, <1>8, StepKinds, Zenon

\* At the start nothing is referred to and the client has nothing.
LEMMA LinksInit ==
    ASSUME Init
    PROVE  Links /\ Calm
  <1>1. reg = NoService /\ last = NoConn /\ last \notin Conns
    BY TerminalAssumption DEF Init
  <1>2. /\ \A o \in Services : svc[o] = NewService(FALSE)
        /\ svc = [o \in Services |-> svc[o]]
    BY DEF Init
  <1>3. DOMAIN NewService(FALSE) = ServiceFields /\ NewService(FALSE).sessions = <<>>
    BY DEF NewService, ServiceFields
  <1>4. Mapped(<<>>) /\ DOMAIN <<>> = {}
    BY DEF Mapped
  <1>5. LinkedServices
    BY <1>1, <1>2, <1>3, <1>4, Zenon DEF LinkedServices
  <1>6. /\ \A c \in Conns : conn[c] = "new" /\ act[c] = NoAct /\ loop[c] = Thread("none")
        /\ conn = [c \in Conns |-> conn[c]] /\ act = [c \in Conns |-> act[c]]
        /\ loop = [c \in Conns |-> loop[c]]
    BY DEF Init
  <1> DEFINE k == Thread("none")
  <1>7. DOMAIN k = ThreadFields /\ k.pc = "none" /\ k.svc = NoService /\ k.todo = {}
    BY ThreadIs
  <1> HIDE DEF k
  <1>8. Threaded(k, "new") /\ Acting(NoAct, "new")
    BY <1>7 DEF Threaded, Acting, AtRest
  <1>9. LinkedConns
    BY <1>6, <1>7, <1>8, Zenon DEF LinkedConns, k
  <1>10. Used = {}
    <2>1. NoAct.svc = NoService
      BY DEF NoAct
    <2> QED BY <1>1, <1>6, <1>7, <2>1, ZenonT(60) DEF Used, LiveServices, k
  <1>11. Alone
    <2>1. "none" \in {"none", "end"}
      OBVIOUS
    <2> QED BY <1>6, <1>7, <1>10, <2>1, Zenon DEF Alone, k
  <1>12. Client
    <2>1. \A t \in Terminals : got[t] = <<>>
      BY DEF Init
    <2> QED BY <1>1, <2>1, Zenon DEF Client
  <1> QED BY <1>5, <1>9, <1>11, <1>12, Zenon DEF Links, Calm

\* What read_outputs sends of a session reaches the client that is watching it.
LEMMA PollDelivers ==
    ASSUME NEW c \in Conns, NEW e, Poll(c, e), NEW x, x = ses[e[2]], NEW d,
           d = x.pending \o Concat(x.out), got = [t \in Terminals |-> got[t]], e[1] \in Terminals
    PROVE  /\ plain' = plain
           /\ x.active /\ c = last /\ conn[c] = "on" /\ e[1] \in asked
                => got' = [t \in Terminals |-> IF t = e[1]
                                               THEN got[e[1]] \o [i \in DOMAIN d |-> d[i][1]]
                                               ELSE got[t]]
           /\ ~(x.active /\ c = last /\ conn[c] = "on" /\ e[1] \in asked) => got' = got
  <1>1. /\ plain' = plain
        /\ IF x.active THEN Deliver(c, e[1], d) ELSE got' = got
    BY Zenon DEF Poll
  <1> DEFINE a == got[e[1]] \o [i \in DOMAIN d |-> d[i][1]]
  <1>2. Deliver(c, e[1], d) =>
          IF c = last /\ conn[c] = "on" /\ e[1] \in asked
          THEN got' = [got EXCEPT ![e[1]] = a] ELSE got' = got
    BY Zenon DEF Deliver
  <1> HIDE DEF a
  <1>3. [got EXCEPT ![e[1]] = a] = [t \in Terminals |-> IF t = e[1] THEN a ELSE got[t]]
    BY ONLY got = [t \in Terminals |-> got[t]]
  <1> QED BY <1>1, <1>2, <1>3, Zenon DEF a
=============================================================================
