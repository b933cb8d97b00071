------------------------------ MODULE HaRecovery ------------------------------
(***************************************************************************)
(* Connection start-up and recovery of the bridge: who subscribes to Home  *)
(* Assistant's birth topic, what a birth message asks for, and when the    *)
(* retained snapshot is replayed (internal/hamqtt/publisher.go, the wiring *)
(* in internal/app/app.go).                                                *)
(*                                                                         *)
(* Actors: the main goroutine (boot), one OnConnect goroutine per          *)
(* connection (hook), one goroutine per started connect handler, the       *)
(* recovery worker, and the MQTT client's dispatcher, which hands incoming *)
(* packets over one at a time, so that a callback that waited would hold   *)
(* back the acknowledgement it waits for.  A replay is its announcement    *)
(* and one batch; HamqttPublisher models what is in the batch.             *)
(***************************************************************************)
EXTENDS Naturals, Sequences

CONSTANTS
  MaxConnections,  \* bound: connections the client opens
  MaxBirths        \* bound: births Home Assistant announces

ASSUME RecoveryAssumption ==
  /\ MaxConnections \in Nat \ {0}
  /\ MaxBirths \in Nat

Connections == 1..MaxConnections

VARIABLES
  boot,       \* where the main goroutine is
  registered, \* Publisher.subscriptions holds the birth topic
  handler,    \* Publisher.connectHandlers holds the replay
  connected,  \* client.IsConnectionOpen()
  session,    \* the number of the last connection
  hook,       \* where the OnConnect goroutine of each connection is
  copied,     \* the birth topic was in that goroutine's copy of the map
  subscribed, \* the broker delivers births on this connection
  subFailed,  \* ghost: a SUBSCRIBE of this connection failed
  births,     \* births announced so far
  inbox,      \* incoming packets, in order
  requests,   \* messages in the one-place request channel
  worker,     \* where the recovery worker is
  handlers,   \* connect-handler goroutines waiting for Publisher.replayMu
  holder,     \* who holds it: nobody, the worker or a handler
  batch,      \* the replay's messages: to be sent, sent, their acknowledgement
              \* received by the client, or handed over by the dispatcher
  birth,      \* ghost: the latest birth the callback has seen
  cancelled   \* the application context is done

vars == <<boot, registered, handler, connected, session, hook, copied, subscribed,
          subFailed, births, inbox, requests, worker, handlers,
          holder, batch, birth, cancelled>>

bootVars   == <<boot, registered, handler>>
hookVars   == <<hook, copied>>
linkVars   == <<connected, session, subscribed, subFailed>>
lockVars   == <<worker, handlers, holder>>
replayVars == <<lockVars, batch>>

Init ==
  /\ boot = "handler"
  /\ registered = FALSE /\ handler = FALSE
  /\ connected = FALSE /\ session = 0
  /\ hook = [s \in Connections |-> "none"]
  /\ copied = [s \in Connections |-> FALSE]
  /\ subscribed = FALSE /\ subFailed = FALSE
  /\ births = 0 /\ inbox = <<>> /\ requests = 0
  /\ worker = "none" /\ handlers = 0 /\ holder = "nobody" /\ batch = "none"
  /\ birth = "none"
  /\ cancelled = FALSE

-----------------------------------------------------------------------------
(* The main goroutine, after ConnectAsync: the client connects by itself     *)

(* AddConnectHandler, one critical section: append, and start the handler at *)
(* once if the connection is already open.                                   *)
AddConnectHandler ==
  /\ boot = "handler"
  /\ boot' = "start"
  /\ handler' = TRUE
  /\ handlers' = IF connected THEN handlers + 1 ELSE handlers
  /\ UNCHANGED <<registered, linkVars, hookVars, births, inbox, requests, worker,
                 holder, batch, birth, cancelled>>

(* StartHomeAssistantRecovery starts the worker, and nothing once the        *)
(* context is done; app.Run only logs the error.                             *)
StartRecovery ==
  /\ boot = "start"
  /\ \/ cancelled /\ boot' = "done" /\ UNCHANGED worker
     \/ ~cancelled /\ boot' = "register" /\ worker' = "idle"
  /\ UNCHANGED <<registered, handler, linkVars, hookVars, births, inbox, requests,
                 handlers, holder, batch, birth, cancelled>>

(* Mutant: the connection is tested before the subscription is recorded.     *)
RegisterAfterTest ==
  /\ boot = "register"
  /\ boot' = IF connected THEN "check" ELSE "done"
  /\ registered' = connected
  /\ UNCHANGED <<handler, linkVars, hookVars, births, inbox, requests,
                 replayVars, birth, cancelled>>

(* Subscribe first records the topic for later connections...                *)
Register ==
  /\ boot = "register"
  /\ boot' = "check"
  /\ registered' = TRUE
  /\ UNCHANGED <<handler, linkVars, hookVars, births, inbox, requests,
                 replayVars, birth, cancelled>>

(* A SUBSCRIBE on the current connection succeeds, fails or times out.       *)
SendSubscribe ==
  \/ connected /\ subscribed' = TRUE /\ UNCHANGED subFailed
  \/ subFailed' = TRUE /\ UNCHANGED subscribed

(* ... and then subscribes on the connection that is open now, if any,       *)
(* unless the context was done by then.                                      *)
SubscribeIfOpen ==
  /\ boot = "check"
  /\ boot' = "done"
  /\ IF connected /\ ~cancelled THEN SendSubscribe
     ELSE UNCHANGED <<subscribed, subFailed>>
  /\ UNCHANGED <<registered, handler, connected, session, hookVars, births, inbox,
                 requests, replayVars, birth, cancelled>>

-----------------------------------------------------------------------------
(* Connections                                                              *)

(* A clean session: the broker has no subscription.  OnConnect runs in a     *)
(* goroutine of its own, beside that of an earlier connection; it resets the *)
(* caches, announces availability and ignores how that went.                 *)
Connect ==
  /\ ~connected
  /\ session < MaxConnections
  /\ connected' = TRUE
  /\ session' = session + 1
  /\ hook' = [hook EXCEPT ![session + 1] = "copy"]
  /\ subscribed' = FALSE /\ subFailed' = FALSE
  /\ UNCHANGED <<bootVars, copied, births, inbox, requests, replayVars, birth,
                 cancelled>>

(* Packets the client has read may still be dispatched, but nobody is        *)
(* acknowledged any more.                                                    *)
ConnectionLost ==
  /\ connected
  /\ connected' = FALSE
  /\ subscribed' = FALSE
  /\ inbox' \in {SelectSeq(inbox, LAMBDA p : p = "birth"), <<>>}
  /\ batch' = IF batch = "coming" THEN "sent" ELSE batch
  /\ UNCHANGED <<bootVars, session, hookVars, subFailed, births, requests,
                 lockVars, birth, cancelled>>

(* resubscribe copies the map under the mutex...                             *)
HookCopy(s) ==
  /\ hook[s] = "copy"
  /\ hook' = [hook EXCEPT ![s] = "subscribe"]
  /\ copied' = [copied EXCEPT ![s] = registered]
  /\ UNCHANGED <<bootVars, linkVars, births, inbox, requests, replayVars, birth,
                 cancelled>>

(* ... and subscribes what it copied; a failure is only logged.              *)
HookSubscribe(s) ==
  /\ hook[s] = "subscribe"
  /\ hook' = [hook EXCEPT ![s] = "notify"]
  /\ \/ copied[s] /\ SendSubscribe
     \/ ~copied[s] /\ UNCHANGED <<subscribed, subFailed>>
  /\ UNCHANGED <<bootVars, connected, session, copied, births, inbox, requests,
                 replayVars, birth, cancelled>>

(* notifyConnected starts a goroutine per handler.                           *)
HookNotify(s) ==
  /\ hook[s] = "notify"
  /\ hook' = [hook EXCEPT ![s] = "done"]
  /\ handlers' = IF handler THEN handlers + 1 ELSE handlers
  /\ UNCHANGED <<bootVars, linkVars, copied, births, inbox, requests, worker, holder,
                 batch, birth, cancelled>>

-----------------------------------------------------------------------------
(* Births and the dispatcher                                                *)

(* Home Assistant announces its birth (external).                            *)
Announce ==
  /\ subscribed
  /\ births < MaxBirths
  /\ births' = births + 1
  /\ inbox' = Append(inbox, "birth")
  /\ UNCHANGED <<bootVars, linkVars, hookVars, requests, replayVars, birth,
                 cancelled>>

(* Mutant: the callback waits for room in the request channel.               *)
BirthCallbackBlocks ==
  /\ requests = 0
  /\ requests' = 1
  /\ birth' = "asked"

(* The birth callback never blocks: a request already waiting serves this    *)
(* birth too.  After shutdown it does nothing.                               *)
BirthCallback ==
  IF cancelled THEN UNCHANGED <<requests, birth>>
  ELSE requests' = 1 /\ birth' = "asked"

(* The dispatcher handles one packet after the other.                        *)
Dispatch ==
  /\ inbox # <<>>
  /\ inbox' = Tail(inbox)
  /\ \/ /\ Head(inbox) = "birth"
        /\ BirthCallback
        /\ UNCHANGED batch
     \/ /\ Head(inbox) = "ack"
        /\ batch' = "acked"
        /\ UNCHANGED <<requests, birth>>
  /\ UNCHANGED <<bootVars, linkVars, hookVars, births, lockVars, cancelled>>

-----------------------------------------------------------------------------
(* The recovery worker                                                      *)

(* It takes a request and starts the delay, even if the context is done too. *)
TakeRequest ==
  /\ worker = "idle"
  /\ requests = 1
  /\ requests' = 0
  /\ worker' = "delay"
  /\ UNCHANGED <<bootVars, linkVars, hookVars, births, inbox, handlers, holder, batch,
                 birth, cancelled>>

(* One replay serves all births of the delay.                                *)
Coalesce ==
  /\ worker = "delay"
  /\ requests = 1
  /\ requests' = 0
  /\ UNCHANGED <<bootVars, linkVars, hookVars, births, inbox, replayVars, birth,
                 cancelled>>

(* Mutant: a request that is still waiting when the timer fires is taken to  *)
(* be served, and dropped, when the replay ends.                             *)
WorkerHomeDrains == worker' = "idle" /\ requests' = 0

(* After its replay the worker waits for the next request; one that came     *)
(* during the replay is still in the channel.                                *)
WorkerHome == worker' = "idle" /\ UNCHANGED requests

(* When the timer has fired it looks at the context once more, then asks for *)
(* the replay.                                                               *)
DelayOver ==
  /\ worker = "delay"
  /\ worker' = IF cancelled THEN "done" ELSE "lock"
  /\ UNCHANGED <<bootVars, linkVars, hookVars, births, inbox, requests, handlers,
                 holder, batch, birth, cancelled>>

WorkerStops ==
  /\ cancelled
  /\ worker \in {"idle", "delay"}
  /\ worker' = "done"
  /\ UNCHANGED <<bootVars, linkVars, hookVars, births, inbox, requests, handlers,
                 holder, batch, birth, cancelled>>

-----------------------------------------------------------------------------
(* A replay, by the worker or by a connect handler: ReplayRetained           *)

(* The worker gets the mutex.  With the context done it returns at once.     *)
WorkerStartsReplay ==
  /\ worker = "lock"
  /\ holder = "nobody"
  /\ \/ cancelled /\ WorkerHome /\ UNCHANGED <<holder, batch, birth>>
     \/ /\ ~cancelled
        /\ worker' = "replay"
        /\ holder' = "worker"
        /\ batch' = "ready"
        /\ birth' = IF birth = "asked" THEN "covered" ELSE birth
        /\ UNCHANGED requests
  /\ UNCHANGED <<bootVars, linkVars, hookVars, births, inbox, handlers, cancelled>>

HandlerStartsReplay ==
  /\ handlers > 0
  /\ holder = "nobody"
  /\ handlers' = handlers - 1
  /\ \/ cancelled /\ UNCHANGED <<holder, batch>>
     \/ ~cancelled /\ holder' = "handler" /\ batch' = "ready"
  /\ UNCHANGED <<bootVars, linkVars, hookVars, births, inbox, requests, worker, birth,
                 cancelled>>

(* The replay announces availability and publishes the batch.                *)
SendBatch ==
  /\ batch = "ready"
  /\ connected
  /\ batch' = "sent"
  /\ UNCHANGED <<bootVars, linkVars, hookVars, births, inbox, requests, lockVars,
                 birth, cancelled>>

(* The broker acknowledges it (external).                                    *)
BrokerAcknowledges ==
  /\ connected
  /\ batch = "sent"
  /\ batch' = "coming"
  /\ inbox' = Append(inbox, "ack")
  /\ UNCHANGED <<bootVars, linkVars, hookVars, births, requests, lockVars, birth,
                 cancelled>>

(* Mutant: an error returns from the replay with the mutex locked.           *)
EndReplayKeepsLock(outcome) ==
  /\ batch' = "none"
  /\ holder' = IF outcome = "failed" THEN holder ELSE "nobody"
  /\ IF holder = "worker"
     THEN WorkerHome /\ birth' = IF birth = "covered" THEN outcome ELSE birth
     ELSE UNCHANGED <<worker, requests, birth>>

(* The deferred unlock; the worker's replay settles the birth it covered,    *)
(* unless another one came meanwhile.                                        *)
EndReplay(outcome) ==
  /\ batch' = "none"
  /\ holder' = "nobody"
  /\ IF holder = "worker"
     THEN WorkerHome /\ birth' = IF birth = "covered" THEN outcome ELSE birth
     ELSE UNCHANGED <<worker, requests, birth>>

BatchSucceeds ==
  /\ batch = "acked"
  /\ EndReplay("none")
  /\ UNCHANGED <<bootVars, linkVars, hookVars, births, inbox, handlers, cancelled>>

(* Publishing is an error without a connection, when the context is done, or *)
(* when the timer fires first.  The timer is taken to outlast a dispatcher   *)
(* that runs: it fires while the broker has not answered, so that a          *)
(* dispatcher held up by a callback shows as a replay that never ends.       *)
BatchFails ==
  /\ batch # "none"
  /\ ~connected \/ cancelled \/ batch = "sent"
  /\ inbox' = SelectSeq(inbox, LAMBDA p : p = "birth")
  /\ EndReplay("failed")
  /\ UNCHANGED <<bootVars, linkVars, hookVars, births, handlers, cancelled>>

(* A signal, or a server that failed, cancels the application context.       *)
Shutdown ==
  /\ ~cancelled
  /\ cancelled' = TRUE
  /\ UNCHANGED <<bootVars, linkVars, hookVars, births, inbox, requests, replayVars,
                 birth>>

-----------------------------------------------------------------------------
Main == AddConnectHandler \/ StartRecovery \/ Register \/ SubscribeIfOpen
OnConnect(s) == HookCopy(s) \/ HookSubscribe(s) \/ HookNotify(s)
Replaying == SendBatch \/ BatchSucceeds \/ BatchFails

Next ==
  \/ Main
  \/ Connect \/ ConnectionLost \/ Announce \/ BrokerAcknowledges \/ Dispatch \/ Shutdown
  \/ \E s \in Connections : OnConnect(s)
  \/ TakeRequest \/ Coalesce \/ DelayOver \/ WorkerStops
  \/ WorkerStartsReplay \/ HandlerStartsReplay \/ Replaying

Spec == Init /\ [][Next]_vars

(* Goroutines run, the delay's timer fires (births cannot put it off), a     *)
(* free mutex is handed to every waiter.  Nothing is asked of the network,   *)
(* of Home Assistant or of whoever stops the bridge.                         *)
Fairness ==
  /\ WF_vars(Dispatch)
  /\ WF_vars(TakeRequest \/ WorkerStops)
  /\ WF_vars(DelayOver)
  /\ SF_vars(WorkerStartsReplay)
  /\ WF_vars(Replaying)

FairSpec == Spec /\ Fairness

-----------------------------------------------------------------------------
(* Properties                                                               *)

(* A birth that no replay has covered yet is never forgotten: its request    *)
(* waits in the channel, or the worker is on its way to a replay that will   *)
(* read the state after the birth, whatever arrived during the delay or      *)
(* during an earlier replay.                                                 *)
NoLostBirth ==
  birth = "asked" /\ ~cancelled => requests = 1 \/ worker \in {"delay", "lock"}

(* However the start-up interleaves with connections that open and break, an *)
(* open connection whose OnConnect has subscribed (and whose SUBSCRIBEs did  *)
(* not fail) receives births: the topic is in its copy of the map, or the    *)
(* main goroutine, which recorded it too late for the copy, sees the         *)
(* connection open and subscribes itself.  A bridge that is being stopped    *)
(* may leave Subscribe between the two.                                      *)
BirthsReceived ==
  boot = "done" /\ ~cancelled /\ connected /\ ~subFailed
    /\ hook[session] \in {"notify", "done"}
    => subscribed

(* Every birth gets a complete replay of its own time, or that replay met an *)
(* error it reports, unless the bridge is stopped: the births of a burst,    *)
(* replays of reconnects and acknowledgements queued behind births never     *)
(* keep the worker waiting for good.                                         *)
BirthsServed == birth = "asked" ~> birth \in {"none", "failed"} \/ cancelled

(* At shutdown the worker stops, even in the middle of a delay or of a       *)
(* replay that waits for an acknowledgement, and none is started any more.   *)
WorkerEnds == cancelled ~> [](worker \in {"none", "done"})
=============================================================================
