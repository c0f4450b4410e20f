-------------------------- MODULE Mediator_proofs ---------------------------
(***************************************************************************)
(* Proofs about Mediator, for every set of servers, prefixes, server lists *)
(* and every bound on failures, over UDP and over TCP.                     *)
(***************************************************************************)
EXTENDS Mediator, TLAPS

\* A RegisterPk counted in this interval has started the interval.
WindowOpen == burst = 1 => NEEDS_DEPLOY /\ lastND = "recent"

IInv == TypeOK /\ OnePkPerInterval /\ WindowOpen /\ StatusIsHonest /\ TasksOfRound

USE MediatorAssumption

-----------------------------------------------------------------------------
(* The parts of the invariant, each from the variables it is about.        *)

\* Steps that leave the deployment interval alone.
LEMMA WindowKept ==
    ASSUME IInv, UNCHANGED deploy
    PROVE  OnePkPerInterval' /\ WindowOpen'
  BY DEF IInv, deploy, OnePkPerInterval, WindowOpen

\* register_pk counts at most one message into an interval.
LEMMA RegisterPkWindow ==
    ASSUME IInv, NEW out, register_pk(out)
    PROVE  /\ OnePkPerInterval' /\ WindowOpen'
           /\ NEEDS_DEPLOY' \in BOOLEAN /\ lastND' \in {"none", "recent", "old"}
           /\ burst' \in Nat /\ SENT_REGISTER_PK' \in BOOLEAN
  <1> burst \in {0, 1}
    BY DEF IInv, TypeOK, OnePkPerInterval
  <1> QED BY DEF IInv, TypeOK, OnePkPerInterval, WindowOpen, register_pk,
                 deploy_register_throttled

\* register_peer, which may send a RegisterPk instead, keeps to one per interval.
LEMMA RegisterPeerWindow ==
    ASSUME IInv, NEW h \in Hosts, NEW out, register_peer(h, out)
    PROVE  /\ OnePkPerInterval' /\ WindowOpen'
           /\ NEEDS_DEPLOY' \in BOOLEAN /\ lastND' \in {"none", "recent", "old"}
           /\ burst' \in Nat /\ SENT_REGISTER_PK' \in BOOLEAN
  BY RegisterPkWindow, WindowKept DEF register_peer, deploy, IInv, TypeOK

\* An answer resets the failures, so that it may show the latency.
LEMMA LatencyHonest ==
    ASSUME IInv, NEW h \in Hosts, update_latency(h)
    PROVE  /\ StatusIsHonest'
           /\ fails' \in [Hosts -> 0 .. MaxFails2] /\ pending' \in [Hosts -> BOOLEAN]
           /\ status' \in [Hosts -> {-1, 0, 1}]
  <1> USE DEF IInv, TypeOK, update_latency
  <1>1. fails' \in [Hosts -> 0 .. MaxFails2] /\ fails'[h] = 0
        /\ \A g \in Hosts : g # h => fails'[g] = fails[g]
    OBVIOUS
  <1>2. status' \in [Hosts -> {-1, 0, 1}] /\ \A g \in Hosts : g # h => status'[g] = status[g]
    OBVIOUS
  <1>3. pending' \in [Hosts -> BOOLEAN]
    <2>1. \A b \in BOOLEAN : [pending EXCEPT ![h] = b] \in [Hosts -> BOOLEAN]
      OBVIOUS
    <2>2. pending[h] \in BOOLEAN
      OBVIOUS
    <2> QED BY <2>1, <2>2, ZenonT(60)
  <1>4. StatusIsHonest'
    BY <1>1, <1>2 DEF StatusIsHonest
  <1> QED BY <1>1, <1>2, <1>3, <1>4, ZenonT(60)

\* Steps of one running task.
LEMMA TaskKept ==
    ASSUME IInv, UNCHANGED <<phase, used>>, NEW h \in Hosts, task[h] # "off",
           NEW s \in {"off", "connect", "wait", "register", "send", "confirm", "withdraw"},
           task' = [task EXCEPT ![h] = s]
    PROVE  TasksOfRound'
           /\ task' \in [Hosts -> {"off", "connect", "wait", "register", "send", "confirm",
                                   "withdraw"}]
  BY DEF IInv, TypeOK, TasksOfRound

-----------------------------------------------------------------------------
(* One step per group of actions.                                          *)

\* The loop of start_all, a restart and the passing of time keep the invariant.
LEMMA LoopStep ==
    ASSUME IInv, Loop \/ restart \/ Age \/ UNCHANGED vars
    PROVE  IInv'
  <1>1. CASE ReadServers
    <2>1. used' \subseteq Hosts /\ phase' \in {"pause", "read", "run"}
      BY <1>1 DEF ReadServers, IInv, TypeOK
    <2>2. TypeOK'
      BY <1>1, <2>1, ZenonT(60) DEF ReadServers, IInv, TypeOK, config, deploy
    <2>3. TasksOfRound'
      BY <1>1 DEF ReadServers, IInv, TasksOfRound
    <2> QED BY <1>1, <2>2, <2>3, WindowKept DEF ReadServers, IInv, StatusIsHonest
  <1>2. CASE Spawn
    <2>1. /\ missed' \in BOOLEAN /\ pending' \in [Hosts -> BOOLEAN]
          /\ fails' \in [Hosts -> 0 .. MaxFails2]
          /\ task' \in [Hosts -> {"off", "connect", "wait", "register", "send", "confirm",
                                  "withdraw"}]
          /\ TasksOfRound'
      <3>1. missed' \in BOOLEAN
        BY <1>2 DEF Spawn
      <3>2. pending' \in [Hosts -> BOOLEAN] /\ fails' \in [Hosts -> 0 .. MaxFails2]
        BY <1>2 DEF Spawn
      <3> QED BY <1>2, <3>1, <3>2 DEF Spawn, TasksOfRound
    <2>3. TypeOK'
      BY <1>2, <2>1, ZenonT(60) DEF Spawn, IInv, TypeOK, config, deploy
    <2>2. StatusIsHonest'
      BY <1>2 DEF Spawn, StatusIsHonest
    <2> QED BY <1>2, <2>1, <2>2, <2>3, WindowKept DEF Spawn, IInv
  <1>3. CASE Join
    <2>1. TypeOK' /\ TasksOfRound'
      BY <1>3 DEF Join, IInv, TypeOK, TasksOfRound, config, deploy
    <2>2. StatusIsHonest'
      BY <1>3 DEF Join, StatusIsHonest
    <2> QED BY <1>3, <2>1, <2>2, WindowKept DEF Join, IInv
  <1>4. CASE restart
    <2>1. TypeOK'
      BY <1>4, ZenonT(60) DEF restart, IInv, TypeOK, config, deploy
    <2> QED BY <1>4, <2>1, WindowKept DEF restart, IInv, TasksOfRound, StatusIsHonest
  <1>5. CASE Age
    <2>1. TypeOK'
      BY <1>5 DEF Age, IInv, TypeOK, config, loop
    <2> QED BY <1>5, <2>1 DEF Age, IInv, TasksOfRound, StatusIsHonest, OnePkPerInterval,
                              WindowOpen, loop
  <1>6. CASE UNCHANGED vars
    <2>1. TypeOK'
      BY <1>6 DEF vars, IInv, TypeOK, config, loop, deploy
    <2> QED BY <1>6, <2>1, WindowKept, ZenonT(60) DEF vars, IInv, TasksOfRound, StatusIsHonest, loop
  <1> QED BY <1>1, <1>2, <1>3, <1>4, <1>5, <1>6 DEF Loop

\* A change of the options or of the key pair, from outside, keeps the invariant.
LEMMA OptionStep ==
    ASSUME IInv, (\E c \in Configs : SetOption(c)) \/ (\E p \in Pks, b \in BOOLEAN : SyncKey(p, b))
    PROVE  IInv'
  <1>1. CASE \E c \in Configs : SetOption(c)
    <2>1. TypeOK'
      BY <1>1 DEF SetOption, IInv, TypeOK, config, deploy
    <2> QED BY <1>1, <2>1, WindowKept, ZenonT(60) DEF SetOption, IInv, TasksOfRound, StatusIsHonest
  <1>2. CASE \E p \in Pks, b \in BOOLEAN : SyncKey(p, b)
    <2>1. key_confirmed' \in BOOLEAN /\ host_confirmed' \in [Prefixes -> BOOLEAN]
      BY <1>2 DEF SyncKey, IInv, TypeOK
    <2>2. TypeOK'
      BY <1>2, <2>1 DEF SyncKey, IInv, TypeOK, deploy
    <2> QED BY <1>2, <2>2, WindowKept, ZenonT(60) DEF SyncKey, IInv, TasksOfRound, StatusIsHonest
  <1> QED BY <1>1, <1>2

\* A task that connects, fails or is woken by its timer keeps the invariant.
LEMMA TimerStep ==
    ASSUME IInv, NEW h \in Hosts, Timer(h) \/ Fail(h)
    PROVE  IInv'
  <1>1. CASE Connect(h)
    <2>1. host_confirmed' \in [Prefixes -> BOOLEAN]
      BY <1>1, ZenonT(60) DEF Connect, IInv, TypeOK
    <2>2. TasksOfRound' /\ task' \in [Hosts -> {"off", "connect", "wait", "register", "send",
                                                "confirm", "withdraw"}]
      BY <1>1, TaskKept, ZenonT(60) DEF Connect, loop
    <2>3. TypeOK'
      BY <1>1, <2>1, <2>2 DEF Connect, IInv, TypeOK, loop, deploy
    <2> QED BY <1>1, <2>2, <2>3, WindowKept DEF Connect, IInv, StatusIsHonest
  <1>2. CASE Exit(h)
    <2>1. TasksOfRound' /\ task' \in [Hosts -> {"off", "connect", "wait", "register", "send",
                                                "confirm", "withdraw"}]
      BY <1>2, TaskKept, ZenonT(60) DEF Exit, loop
    <2>2. TypeOK'
      BY <1>2, <2>1 DEF Exit, IInv, TypeOK, loop, deploy, config
    <2> QED BY <1>2, <2>1, <2>2, WindowKept, ZenonT(60) DEF Exit, IInv, StatusIsHonest
  <1>3. CASE Fail(h)
    <2>1. TasksOfRound' /\ task' \in [Hosts -> {"off", "connect", "wait", "register", "send",
                                                "confirm", "withdraw"}]
      BY <1>3, TaskKept, ZenonT(60) DEF Fail, loop
    <2>2. TypeOK'
      BY <1>3, <2>1 DEF Fail, IInv, TypeOK, loop, config
    <2>3. OnePkPerInterval' /\ WindowOpen'
      BY <1>3 DEF Fail, IInv, OnePkPerInterval, WindowOpen
    <2> QED BY <1>3, <2>1, <2>2, <2>3 DEF Fail, IInv, StatusIsHonest
  <1>4. CASE Tick(h)
    <2>1. TasksOfRound' /\ task' \in [Hosts -> {"off", "connect", "wait", "register", "send",
                                                "confirm", "withdraw"}]
      BY <1>4, TaskKept, ZenonT(60) DEF Tick, loop
    <2>2. /\ StatusIsHonest' /\ fails' \in [Hosts -> 0 .. MaxFails2]
          /\ status' \in [Hosts -> {-1, 0, 1}]
      <3>1. CASE UNCHANGED <<fails, status>>
        BY <3>1 DEF IInv, TypeOK, StatusIsHonest
      <3>2. CASE /\ fails' = [fails EXCEPT ![h] = IF @ < MaxFails2 THEN @ + 1 ELSE @]
                 /\ status' = [status EXCEPT ![h] = StatusAfter(fails'[h], @)]
        <4>1. fails' \in [Hosts -> 0 .. MaxFails2] /\ fails'[h] \in 0 .. MaxFails2
              /\ \A g \in Hosts : g # h => fails'[g] = fails[g]
          BY <3>2 DEF IInv, TypeOK
        <4> DEFINE new == StatusAfter(fails'[h], status[h])
        <4>2. new \in {-1, 0, 1} /\ (new = 1 => fails'[h] < MaxFails1)
          BY <4>1 DEF StatusAfter, IInv, TypeOK
        <4>3. status' = [status EXCEPT ![h] = new]
          BY <3>2
        <4> HIDE DEF new
        <4> QED BY <4>1, <4>2, <4>3 DEF IInv, TypeOK, StatusIsHonest
      <3> QED BY <1>4, <3>1, <3>2 DEF Tick
    <2>3. TypeOK'
      BY <1>4, <2>1, <2>2 DEF Tick, IInv, TypeOK, loop, deploy, config
    <2> QED BY <1>4, <2>1, <2>2, <2>3, WindowKept DEF Tick, IInv
  <1> QED BY <1>1, <1>2, <1>3, <1>4 DEF Timer

\* What a task does between two waits, registering included, keeps the invariant.
LEMMA WorkStep ==
    ASSUME IInv, NEW h \in Hosts, Work(h)
    PROVE  IInv'
  <1>1. TasksOfRound' /\ task' \in [Hosts -> {"off", "connect", "wait", "register", "send",
                                              "confirm", "withdraw"}]
    BY TaskKept, ZenonT(60) DEF Work, Register, SendPk, ConfirmHost, Withdraw, loop
  <1>2. CASE \E out \in Outs : Register(h, out)
    <2>1. /\ OnePkPerInterval' /\ WindowOpen'
          /\ NEEDS_DEPLOY' \in BOOLEAN /\ lastND' \in {"none", "recent", "old"}
          /\ burst' \in Nat /\ SENT_REGISTER_PK' \in BOOLEAN
      BY <1>2, RegisterPkWindow, RegisterPeerWindow DEF Register
    <2>2. pending' \in [Hosts -> BOOLEAN]
      BY <1>2 DEF Register, IInv, TypeOK
    <2>3. TypeOK'
      BY <1>1, <1>2, <2>1, <2>2 DEF Register, IInv, TypeOK, loop, config
    <2> QED BY <1>1, <1>2, <2>1, <2>3, ZenonT(60) DEF Register, IInv, StatusIsHonest
  <1>3. CASE \E out \in Outs : SendPk(h, out)
    <2>1. /\ OnePkPerInterval' /\ WindowOpen'
          /\ NEEDS_DEPLOY' \in BOOLEAN /\ lastND' \in {"none", "recent", "old"}
          /\ burst' \in Nat /\ SENT_REGISTER_PK' \in BOOLEAN
      BY <1>3, RegisterPkWindow DEF SendPk
    <2>2. TypeOK'
      BY <1>1, <1>3, <2>1 DEF SendPk, IInv, TypeOK, loop, config
    <2> QED BY <1>1, <1>3, <2>1, <2>2, ZenonT(60) DEF SendPk, IInv, StatusIsHonest
  <1>4. CASE ConfirmHost(h)
    <2>1. host_confirmed' \in [Prefixes -> BOOLEAN]
      BY <1>4, ZenonT(60) DEF ConfirmHost, IInv, TypeOK
    <2>2. TypeOK'
      BY <1>1, <1>4, <2>1, ZenonT(60) DEF ConfirmHost, IInv, TypeOK, loop
    <2>3. OnePkPerInterval' /\ WindowOpen'
      BY <1>4 DEF ConfirmHost, OnePkPerInterval, WindowOpen
    <2> QED BY <1>1, <1>4, <2>2, <2>3 DEF ConfirmHost, IInv, StatusIsHonest
  <1>5. CASE Withdraw(h)
    <2>1. host_confirmed' \in [Prefixes -> BOOLEAN]
      BY <1>5 DEF Withdraw
    <2>2. TypeOK'
      BY <1>1, <1>5, <2>1, ZenonT(60) DEF Withdraw, IInv, TypeOK, loop, deploy
    <2> QED BY <1>1, <1>5, <2>2, WindowKept DEF Withdraw, IInv, StatusIsHonest
  <1> QED BY <1>2, <1>3, <1>4, <1>5 DEF Work

\* A response of a server, whatever it says, keeps the invariant.
LEMMA ResponseStep ==
    ASSUME IInv, NEW h \in Hosts, Response(h)
    PROVE  IInv'
  <1>1. CASE \E c \in Configs : ConfigureUpdate(h, c)
    <2>1. TypeOK'
      BY <1>1 DEF ConfigureUpdate, IInv, TypeOK, deploy, config
    <2> QED BY <1>1, <2>1, WindowKept DEF ConfigureUpdate, IInv, TasksOfRound, StatusIsHonest
  <1>2. CASE (\E b \in BOOLEAN : PeerResponse(h, b)) \/ PkOk(h) \/ PkMismatch(h)
             \/ PkNotDeployed(h) \/ PkOther(h)
    <2>1. /\ StatusIsHonest'
          /\ fails' \in [Hosts -> 0 .. MaxFails2] /\ pending' \in [Hosts -> BOOLEAN]
          /\ status' \in [Hosts -> {-1, 0, 1}]
      BY <1>2, LatencyHonest, ZenonT(60) DEF PeerResponse, PkOk, PkMismatch, PkNotDeployed, PkOther
    <2>2. TasksOfRound' /\ task' \in [Hosts -> {"off", "connect", "wait", "register", "send",
                                                "confirm", "withdraw"}]
      <3>1. CASE UNCHANGED task
        BY <1>2, <3>1, ZenonT(60) DEF PeerResponse, PkOk, PkMismatch, PkNotDeployed, PkOther, loop, IInv,
                          TypeOK, TasksOfRound
      <3>2. CASE \E s \in {"send", "confirm", "withdraw"} : task' = [task EXCEPT ![h] = s]
        BY <1>2, <3>2, TaskKept, ZenonT(60) DEF PeerResponse, PkOk, PkMismatch, PkNotDeployed, PkOther, loop
      <3> QED BY <1>2, <3>1, <3>2, ZenonT(60) DEF PeerResponse, PkOk, PkMismatch, PkNotDeployed, PkOther
    <2>3. OnePkPerInterval' /\ WindowOpen'
      BY <1>2, WindowKept, ZenonT(60) DEF PeerResponse, PkOk, PkMismatch, PkNotDeployed, PkOther, deploy,
                              IInv, OnePkPerInterval, WindowOpen
    <2>4. /\ key_confirmed' \in BOOLEAN /\ host_confirmed' \in [Prefixes -> BOOLEAN]
          /\ id' \in 1 .. MaxId /\ pk' \in Pks /\ solving' \in Hosts \union {NoHost}
          /\ SENT_REGISTER_PK' \in BOOLEAN
          /\ NEEDS_DEPLOY' \in BOOLEAN /\ lastND' \in {"none", "recent", "old"} /\ burst' \in Nat
      <3> USE DEF IInv, TypeOK, deploy, config
      <3>1. CASE (\E b \in BOOLEAN : PeerResponse(h, b)) \/ PkOther(h)
        BY <3>1 DEF PeerResponse, PkOther
      <3>2. CASE PkNotDeployed(h)
        BY <3>2 DEF PkNotDeployed
      <3>3. CASE PkOk(h)
        BY <3>3 DEF PkOk, SetKeyConfirmed
      <3>4. CASE PkMismatch(h)
        <4>1. CASE id < MaxId /\ SetKeyConfirmed(FALSE) /\ id' = id + 1 /\ solving' = h
          <5>1. id' \in 1 .. MaxId
            BY <4>1
          <5>2. key_confirmed' \in BOOLEAN /\ host_confirmed' \in [Prefixes -> BOOLEAN]
            BY <4>1, ZenonT(60) DEF SetKeyConfirmed
          <5> QED BY <3>4, <4>1, <5>1, <5>2 DEF PkMismatch
        <4>2. CASE UNCHANGED <<key_confirmed, host_confirmed, id, solving, task>>
          BY <3>4, <4>2 DEF PkMismatch
        <4> QED BY <3>4, <4>1, <4>2, ZenonT(60) DEF PkMismatch
      <3> QED BY <1>2, <3>1, <3>2, <3>3, <3>4
    <2>5. UNCHANGED <<loop, SHOULD_EXIT>>
      BY <1>2, ZenonT(60) DEF PeerResponse, PkOk, PkMismatch, PkNotDeployed, PkOther
    <2>6. TypeOK'
      BY <2>1, <2>2, <2>4, <2>5 DEF IInv, TypeOK, loop
    <2> QED BY <2>1, <2>2, <2>3, <2>6 DEF IInv
  <1> QED BY <1>1, <1>2 DEF Response

-----------------------------------------------------------------------------
(* The theorems.                                                           *)

\* The invariant is inductive.
THEOREM Inductive == Spec => []IInv
  <1>1. Init => IInv
    <2> SUFFICES ASSUME Init PROVE IInv
      OBVIOUS
    <2>1. TypeOK
      <3>1. fails \in [Hosts -> 0 .. MaxFails2] /\ id \in 1 .. MaxId /\ changes \in 0 .. MaxChanges
        BY DEF Init
      <3>2. pending \in [Hosts -> BOOLEAN] /\ host_confirmed \in [Prefixes -> BOOLEAN]
        BY DEF Init
      <3>3. task \in [Hosts -> {"off", "connect", "wait", "register", "send", "confirm",
                                "withdraw"}] /\ status \in [Hosts -> {-1, 0, 1}]
        BY DEF Init
      <3> QED BY <3>1, <3>2, <3>3, ZenonT(60) DEF Init, TypeOK
    <2>2. OnePkPerInterval /\ WindowOpen
      BY DEF Init, OnePkPerInterval, WindowOpen
    <2>3. StatusIsHonest /\ TasksOfRound
      BY DEF Init, StatusIsHonest, TasksOfRound
    <2> QED BY <2>1, <2>2, <2>3 DEF IInv
  <1>2. IInv /\ [Next]_vars => IInv'
    BY LoopStep, OptionStep, TimerStep, WorkStep, ResponseStep DEF Next
  <1> QED BY <1>1, <1>2, PTL DEF Spec

\* Every variable of the mediator keeps its type.
THEOREM TypeCorrect == Spec => []TypeOK
  <1>1. IInv => TypeOK
    BY DEF IInv
  <1> QED BY <1>1, Inductive, PTL

\* With any number of servers and tasks, a device that awaits its deployment
\* sends at most one RegisterPk per interval.
THEOREM DeployThrottle == Spec => []OnePkPerInterval
  <1>1. IInv => OnePkPerInterval
    BY DEF IInv
  <1> QED BY <1>1, Inductive, PTL

\* No latency is shown of a server whose answers are overdue.
THEOREM HonestStatus == Spec => []StatusIsHonest
  <1>1. IInv => StatusIsHonest
    BY DEF IInv
  <1> QED BY <1>1, Inductive, PTL

\* No task outlives its round of start_all.
THEOREM RoundsSeparate == Spec => []TasksOfRound
  <1>1. IInv => TasksOfRound
    BY DEF IInv
  <1> QED BY <1>1, Inductive, PTL
=============================================================================
