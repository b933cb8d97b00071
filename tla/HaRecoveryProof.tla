--------------------------- MODULE HaRecoveryProof ----------------------------
(***************************************************************************)
(* Theorems about HaRecovery for every number of connections and births.   *)
(***************************************************************************)
EXTENDS HaRecovery, TLAPS

-----------------------------------------------------------------------------
(* No birth is lost                                                         *)

(* A replay that the worker runs occupies the worker.                        *)
WorkerBusy == holder = "worker" => worker = "replay"

(* The main goroutine starts the worker.                                     *)
NotStarted == boot \in {"handler", "start"} => worker = "none"

BirthInv == WorkerBusy /\ NotStarted /\ NoLostBirth

LEMMA BirthInit == Init => BirthInv
BY DEF Init, BirthInv, WorkerBusy, NotStarted, NoLostBirth

LEMMA BirthStep == BirthInv /\ [Next]_vars => BirthInv'
<1> SUFFICES ASSUME BirthInv, [Next]_vars PROVE BirthInv'
  OBVIOUS
<1> USE DEF BirthInv, WorkerBusy, NotStarted, NoLostBirth, bootVars
<1>1. CASE Main
  BY <1>1 DEF Main, AddConnectHandler, StartRecovery, Register, SubscribeIfOpen,
              replayVars, lockVars
<1>2. CASE Connect \/ ConnectionLost \/ Announce \/ BrokerAcknowledges \/ Shutdown
  BY <1>2 DEF Connect, ConnectionLost, Announce, BrokerAcknowledges, Shutdown,
              replayVars, lockVars
<1>3. CASE Dispatch
  BY <1>3 DEF Dispatch, BirthCallback, lockVars
<1>4. ASSUME NEW s \in Connections, OnConnect(s) PROVE BirthInv'
  BY <1>4 DEF OnConnect, HookCopy, HookSubscribe, HookNotify, replayVars, lockVars
<1>5. CASE TakeRequest \/ Coalesce \/ DelayOver \/ WorkerStops
  BY <1>5 DEF TakeRequest, Coalesce, DelayOver, WorkerStops, replayVars, lockVars
<1>6. CASE WorkerStartsReplay
  BY <1>6 DEF WorkerStartsReplay, WorkerHome
<1>7. CASE HandlerStartsReplay
  BY <1>7 DEF HandlerStartsReplay
<1>8. ASSUME NEW outcome \in {"none", "failed"}, EndReplay(outcome),
             cancelled' = cancelled, boot' = boot
      PROVE  BirthInv'
  BY <1>8 DEF EndReplay, WorkerHome
<1>9. CASE Replaying
  BY <1>8, <1>9 DEF Replaying, SendBatch, BatchSucceeds, BatchFails, lockVars
<1>10. CASE UNCHANGED vars
  BY <1>10 DEF vars
<1> QED
  BY <1>1, <1>2, <1>3, <1>4, <1>5, <1>6, <1>7, <1>9, <1>10 DEF Next

(* Until a replay covers it, a birth always has a request or a worker that   *)
(* will replay for it, however bursts, reconnects and replays interleave.    *)
THEOREM BirthsAreNotLost == Spec => []NoLostBirth
<1>1. BirthInv => NoLostBirth
  BY DEF BirthInv
<1> QED
  BY <1>1, BirthInit, BirthStep, PTL DEF Spec

-----------------------------------------------------------------------------
(* An open connection receives births                                       *)

(* The types the argument needs: the goroutines of connections, and which    *)
(* connection is the last.                                                   *)
LinkTypes ==
  /\ boot \in {"handler", "start", "register", "check", "done"}
  /\ registered \in BOOLEAN /\ cancelled \in BOOLEAN
  /\ session \in 0..MaxConnections
  /\ hook \in [Connections -> {"none", "copy", "subscribe", "notify", "done"}]
  /\ copied \in [Connections -> BOOLEAN]

(* The topic is recorded before the main goroutine tests the connection, and *)
(* unless the context is done it gets so far.                                *)
RecordedFirst == boot \in {"check", "done"} /\ ~cancelled => registered

(* An open connection has a number, and its goroutine has started.           *)
Started == connected => session > 0 /\ hook[session] # "none"

(* Only the goroutines of connections that were opened run.                  *)
LaterIdle == \A s \in Connections : s > session => hook[s] = "none"

(* If the copy of the map came too early, the main goroutine, which tests    *)
(* the connection after it recorded the topic, subscribes.                   *)
MainCovers ==
  connected /\ ~subFailed /\ boot = "done" /\ ~cancelled /\ ~copied[session]
    /\ hook[session] \in {"subscribe", "notify", "done"}
    => subscribed

(* If it did not, the goroutine of the connection subscribes.                *)
HookCovers ==
  connected /\ ~subFailed /\ copied[session] /\ hook[session] \in {"notify", "done"}
    => subscribed

ReceiveInv ==
  LinkTypes /\ RecordedFirst /\ Started /\ LaterIdle /\ MainCovers /\ HookCovers

LEMMA ReceiveInit == Init => ReceiveInv
<1> SUFFICES ASSUME Init PROVE ReceiveInv
  OBVIOUS
<1>1. registered \in BOOLEAN /\ cancelled \in BOOLEAN /\ RecordedFirst
  BY DEF Init, RecordedFirst
<1>2. /\ boot = "handler" /\ session = 0 /\ ~connected
      /\ hook = [s \in Connections |-> "none"]
      /\ copied = [s \in Connections |-> FALSE]
  BY DEF Init
<1> QED
  BY <1>1, <1>2, RecoveryAssumption
  DEF ReceiveInv, LinkTypes, Started, LaterIdle, MainCovers, HookCovers

(* What an unsuccessful SUBSCRIBE leaves is not asked to receive anything.   *)
LEMMA SubscribeFacts ==
  ASSUME ReceiveInv, SendSubscribe
  PROVE  connected /\ ~subFailed' => subscribed'
BY DEF SendSubscribe

LEMMA ReceiveStep == ReceiveInv /\ [Next]_vars => ReceiveInv'
<1> SUFFICES ASSUME ReceiveInv, [Next]_vars PROVE ReceiveInv'
  OBVIOUS
<1> USE RecoveryAssumption
    DEF ReceiveInv, LinkTypes, RecordedFirst, Started, LaterIdle, MainCovers, HookCovers,
        Connections
<1>1. CASE AddConnectHandler \/ StartRecovery \/ Register
  <2>1. registered' \in BOOLEAN
    <3>1. registered' = registered \/ registered' = TRUE
      BY <1>1 DEF AddConnectHandler, StartRecovery, Register
    <3> QED
      BY <3>1
  <2>2. RecordedFirst'
    BY <1>1 DEF AddConnectHandler, StartRecovery, Register
  <2>3. UNCHANGED linkVars /\ UNCHANGED hookVars /\ UNCHANGED cancelled
    BY <1>1 DEF AddConnectHandler, StartRecovery, Register
  <2>4. boot' \in {"start", "register", "check"} \/ (boot' = "done" /\ cancelled)
    BY <1>1 DEF AddConnectHandler, StartRecovery, Register
  <2> QED
    BY <2>1, <2>2, <2>3, <2>4 DEF linkVars, hookVars
<1>2. CASE SubscribeIfOpen
  <2>1. connected' /\ ~subFailed' /\ ~cancelled' => subscribed'
    BY <1>2, SubscribeFacts DEF SubscribeIfOpen
  <2> QED
    BY <1>2, <2>1 DEF SubscribeIfOpen, hookVars
<1>3. CASE Connect
  <2>1. session + 1 \in Connections
    BY <1>3 DEF Connect
  <2>2. hook'[session + 1] = "copy" /\ session' = session + 1
    BY <1>3, <2>1 DEF Connect
  <2> QED
    BY <1>3, <2>1, <2>2 DEF Connect, bootVars
<1>4. CASE ConnectionLost
  BY <1>4 DEF ConnectionLost, bootVars, hookVars
<1>5. ASSUME NEW s \in Connections, HookCopy(s) PROVE ReceiveInv'
  <2>1. /\ hook' = [hook EXCEPT ![s] = "subscribe"] /\ hook[s] = "copy"
        /\ copied' = [copied EXCEPT ![s] = registered]
        /\ UNCHANGED <<boot, session>> /\ UNCHANGED registered
        /\ UNCHANGED connected /\ UNCHANGED subscribed /\ UNCHANGED subFailed
        /\ UNCHANGED cancelled
    BY <1>5 DEF HookCopy, bootVars, linkVars
  <2>2. LinkTypes' /\ RecordedFirst' /\ LaterIdle'
    BY <2>1
  <2>3. connected' => session' > 0 /\ hook'[session'] # "none" /\ session \in Connections
    BY <2>1
  <2>4. MainCovers'
    <3>1. CASE session = s
      <4>1. boot = "done" /\ ~cancelled => copied'[session]
        BY <2>1, <3>1
      <4> QED
        BY <2>1, <4>1
    <3>2. CASE session # s
      BY <2>1, <2>3, <3>2
    <3> QED BY <3>1, <3>2
  <2>5. HookCovers'
    BY <2>1, <2>3
  <2> QED
    BY <2>2, <2>3, <2>4, <2>5
<1>6. ASSUME NEW s \in Connections, HookSubscribe(s) PROVE ReceiveInv'
  <2>1. copied[s] => (connected' /\ ~subFailed' => subscribed')
    BY <1>6, SubscribeFacts DEF HookSubscribe
  <2>2. /\ subscribed /\ ~subFailed' => subscribed'
        /\ subFailed => subFailed'
    BY <1>6 DEF HookSubscribe, SendSubscribe
  <2>3. /\ hook' = [hook EXCEPT ![s] = "notify"]
        /\ UNCHANGED <<boot, registered, session, copied>> /\ UNCHANGED connected
        /\ UNCHANGED cancelled
        /\ hook[s] = "subscribe"
    BY <1>6 DEF HookSubscribe, bootVars
  <2>4. LinkTypes' /\ RecordedFirst' /\ LaterIdle'
    BY <2>3
  <2>5. connected' => session' > 0 /\ hook'[session'] # "none" /\ session \in Connections
    BY <2>3
  <2>6. MainCovers'
    <3>1. CASE session = s
      BY <2>1, <2>2, <2>3, <2>5, <3>1
    <3>2. CASE session # s
      BY <2>2, <2>3, <2>5, <3>2
    <3> QED BY <3>1, <3>2
  <2>7. HookCovers'
    <3>1. CASE session = s
      BY <2>1, <2>2, <2>3, <2>5, <3>1
    <3>2. CASE session # s
      BY <2>2, <2>3, <2>5, <3>2
    <3> QED BY <3>1, <3>2
  <2> QED
    BY <2>4, <2>5, <2>6, <2>7
<1>7. ASSUME NEW s \in Connections, HookNotify(s) PROVE ReceiveInv'
  BY <1>7 DEF HookNotify, bootVars, linkVars
<1>8. ASSUME UNCHANGED bootVars, UNCHANGED linkVars, UNCHANGED hookVars,
             cancelled' \in BOOLEAN, cancelled => cancelled'
      PROVE  ReceiveInv'
  BY <1>8 DEF bootVars, linkVars, hookVars
<1>9. CASE Announce \/ BrokerAcknowledges \/ Dispatch \/ Shutdown \/ TakeRequest
           \/ Coalesce \/ DelayOver \/ WorkerStops \/ WorkerStartsReplay
           \/ HandlerStartsReplay \/ Replaying \/ UNCHANGED vars
  BY <1>8, <1>9
  DEF Announce, BrokerAcknowledges, Dispatch, Shutdown, TakeRequest, Coalesce, DelayOver,
      WorkerStops, WorkerStartsReplay, HandlerStartsReplay, Replaying, SendBatch,
      BatchSucceeds, BatchFails, vars, bootVars, linkVars, hookVars
<1> QED
  BY <1>1, <1>2, <1>3, <1>4, <1>5, <1>6, <1>7, <1>9 DEF Next, Main, OnConnect

(* However the start-up and connections interleave, an open connection whose *)
(* goroutine has subscribed receives births, unless a SUBSCRIBE failed.      *)
THEOREM BirthsAreReceived == Spec => []BirthsReceived
<1>1. ReceiveInv => BirthsReceived
  BY RecoveryAssumption
  DEF ReceiveInv, LinkTypes, Started, MainCovers, HookCovers, BirthsReceived, Connections
<1> QED
  BY <1>1, ReceiveInit, ReceiveStep, PTL DEF Spec
=============================================================================
