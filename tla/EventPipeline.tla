---------------------------- MODULE EventPipeline -----------------------------
(***************************************************************************)
(* What happens to an event of the hub once its frame has been read        *)
(* (internal/app/app.go): the engine applies it, the metrics and the MQTT  *)
(* queue are told, the frame is forwarded and the hub gets its answer.     *)
(*                                                                         *)
(* Goroutines: one per SIA connection, the online ticker and the HTTP      *)
(* handler of a catalog change hold snapshots of the engine and publish    *)
(* them in their own time; the MQTT consumer takes updates from a queue of *)
(* one; retained replays read the engine themselves.                       *)
(*                                                                         *)
(* StateEngine models what an event does to the state.  Here the state of  *)
(* the account and of each zone is the number of the event that changed it *)
(* last, and the engine's revision is the number of the last event: a tick *)
(* or a catalog change counts the revision on without changing any of      *)
(* them.  A publication is one step; HamqttPublisher models its messages   *)
(* and errors.                                                             *)
(***************************************************************************)
EXTENDS Naturals

CONSTANTS
  Connections,   \* SIA connections
  Zones,         \* the zones of one account
  Account,       \* the account
  MaxEvents,     \* bound: events applied
  MaxCatalog     \* bound: catalog changes

ASSUME PipelineAssumption ==
  /\ Account \notin Zones
  /\ MaxEvents \in Nat /\ MaxCatalog \in Nat
  /\ Connections \cap {"ticker", "catalog"} = {}

Entities == {Account} \cup Zones
Writers  == Connections \cup {"ticker", "catalog"}
Numbers  == 0..MaxEvents

(* What a metric shows that SetSnapshot has reset.                           *)
Absent == MaxEvents + 1

VARIABLES
  state,    \* Engine: the last event that changed each entity
  pc,       \* where each goroutine is
  held,     \* the snapshot it holds and the entities its update is about
  metrics,  \* what the gauges show of each entity
  queue,    \* App.mqttQueue: no update or one
  latest,   \* Publisher's gates: the newest revision published of each entity
  ha,       \* what Home Assistant shows of each entity
  changes   \* catalog changes so far

vars == <<state, pc, held, metrics, queue, latest, ha, changes>>

Snapshots == [Entities -> Numbers]
Updates   == [of : SUBSET Entities, state : Snapshots]

TypeOK ==
  /\ state \in Snapshots
  /\ pc \in [Writers -> {"idle", "reset", "account", "zones", "offer", "drain",
                         "again", "forward"}]
  /\ held \in [Writers -> Updates]
  /\ metrics \in [Entities -> Numbers \cup {Absent}]
  /\ queue \in SUBSET Updates /\ \A u, v \in queue : u = v
  /\ latest \in [Entities -> Numbers]
  /\ ha \in Snapshots
  /\ changes \in 0..MaxCatalog

(* The revision of a snapshot.                                               *)
Revision(snapshot) == CHOOSE n \in Numbers :
  /\ \E e \in Entities : snapshot[e] = n
  /\ \A e \in Entities : snapshot[e] <= n

Start   == [e \in Entities |-> 0]
Nothing == [of |-> {}, state |-> Start]

(* Start-up publishes the first snapshot before there is an event.           *)
Init ==
  /\ state = Start
  /\ pc = [w \in Writers |-> "idle"]
  /\ held = [w \in Writers |-> Nothing]
  /\ metrics = Start
  /\ queue = {[of |-> Entities, state |-> Start]}
  /\ latest = Start /\ ha = Start
  /\ changes = 0

-----------------------------------------------------------------------------
(* Where snapshots come from                                                *)

Take(w, of, snapshot) ==
  /\ pc[w] = "idle"
  /\ pc' = [pc EXCEPT ![w] = "reset"]
  /\ held' = [held EXCEPT ![w] = [of |-> of, state |-> snapshot]]
  /\ UNCHANGED <<metrics, queue, latest, ha>>

(* handleSIAFrame, an accepted frame: the event changes the account and,     *)
(* when it names one, a zone; its update is about those two.                 *)
HandleFrame(c, of) ==
  /\ Revision(state) < MaxEvents
  /\ state' = [e \in Entities |-> IF e \in of THEN Revision(state) + 1 ELSE state[e]]
  /\ Take(c, of, state')
  /\ UNCHANGED changes

(* The ticker's update is about the accounts only.                           *)
RefreshOnline ==
  /\ Take("ticker", {Account}, state)
  /\ UNCHANGED <<state, changes>>

(* handleCatalogChanged publishes everything.                                *)
CatalogChanged ==
  /\ changes < MaxCatalog
  /\ changes' = changes + 1
  /\ Take("catalog", Entities, state)
  /\ UNCHANGED state

-----------------------------------------------------------------------------
(* metrics.SetSnapshot, which nothing serialises                            *)

Step(w, from, to) ==
  /\ pc[w] = from
  /\ pc' = [pc EXCEPT ![w] = to]
  /\ UNCHANGED <<state, latest, ha, changes>>

ResetGauges(w) ==
  /\ Step(w, "reset", "account")
  /\ metrics' = [e \in Entities |-> Absent]
  /\ UNCHANGED <<held, queue>>

SetAccountGauges(w) ==
  /\ Step(w, "account", "zones")
  /\ metrics' = [metrics EXCEPT ![Account] = held[w].state[Account]]
  /\ UNCHANGED <<held, queue>>

(* Mutant: only the zones of the update are set again.                       *)
SetUpdatedGauges(w) ==
  /\ Step(w, "zones", "offer")
  /\ metrics' = [e \in Entities |->
       IF e \in held[w].of \ {Account} THEN held[w].state[e] ELSE metrics[e]]
  /\ UNCHANGED <<held, queue>>

SetZoneGauges(w) ==
  /\ Step(w, "zones", "offer")
  /\ metrics' = [e \in Entities |->
       IF e \in Zones THEN held[w].state[e] ELSE metrics[e]]
  /\ UNCHANGED <<held, queue>>

-----------------------------------------------------------------------------
(* enqueueMQTTUpdate: three selects that never wait                         *)

(* Done with the snapshot, an SIA connection has its answer to give yet.      *)
Enqueued(w, from) ==
  /\ Step(w, from, IF w \in Connections THEN "forward" ELSE "idle")
  /\ held' = [held EXCEPT ![w] = Nothing]
  /\ UNCHANGED metrics

(* Room for the update, or not.                                              *)
Offer(w) ==
  \/ /\ queue = {}
     /\ queue' = {held[w]}
     /\ Enqueued(w, "offer")
  \/ /\ queue # {}
     /\ Step(w, "offer", "drain")
     /\ UNCHANGED <<held, queue, metrics>>

(* The update that waits is dropped, if the consumer has not got it.         *)
Drain(w) ==
  /\ Step(w, "drain", "again")
  /\ queue' = {}
  /\ UNCHANGED <<held, metrics>>

(* Another goroutine may have taken the room: then this update is dropped.   *)
OfferAgain(w) ==
  /\ queue' = IF queue = {} THEN {held[w]} ELSE queue
  /\ Enqueued(w, "again")

(* The upstream receivers have answered or timed out; the hub gets an ACK,   *)
(* or a NAK when ACKs are required and one is missing: then it will send the *)
(* frame again, which is one more event.                                     *)
Answer(c) ==
  /\ Step(c, "forward", "idle")
  /\ UNCHANGED <<held, metrics, queue>>

-----------------------------------------------------------------------------
(* Publishing                                                               *)

(* Mutant: a publication does not ask for the revision.                      *)
PublishAnyway(snapshot, of) ==
  /\ latest' = [e \in Entities |-> IF e \in of THEN Revision(snapshot) ELSE latest[e]]
  /\ ha' = [e \in Entities |-> IF e \in of THEN snapshot[e] ELSE ha[e]]

(* An entity is published unless a newer revision of it was.                 *)
Publish(snapshot, of) ==
  LET new == {e \in of : Revision(snapshot) >= latest[e]} IN
  /\ latest' = [e \in Entities |-> IF e \in new THEN Revision(snapshot) ELSE latest[e]]
  /\ ha' = [e \in Entities |-> IF e \in new THEN snapshot[e] ELSE ha[e]]

Consume ==
  \E u \in queue :
    /\ queue' = {}
    /\ Publish(u.state, u.of)
    /\ UNCHANGED <<state, pc, held, metrics, changes>>

(* A reconnect or a birth of Home Assistant: publishRetainedMQTT.            *)
Replay ==
  /\ Publish(state, Entities)
  /\ UNCHANGED <<state, pc, held, metrics, queue, changes>>

-----------------------------------------------------------------------------
Handle(c) == \E of \in {{Account}} \cup {{Account, z} : z \in Zones} : HandleFrame(c, of)

SetSnapshot(w) == ResetGauges(w) \/ SetAccountGauges(w) \/ SetZoneGauges(w)

EnqueueMQTTUpdate(w) == Offer(w) \/ Drain(w) \/ OfferAgain(w)

Work(w) ==
  \/ SetSnapshot(w)
  \/ EnqueueMQTTUpdate(w)
  \/ w \in Connections /\ Answer(w)
  \/ w = "ticker" /\ RefreshOnline

Next ==
  \/ \E c \in Connections : Handle(c)
  \/ CatalogChanged
  \/ \E w \in Writers : Work(w)
  \/ Consume
  \/ Replay

Spec == Init /\ [][Next]_vars

(* The ticker ticks and a publication ends, if only by its timeout; a free   *)
(* queue hands the next update to the consumer that waits for it.            *)
TickerSpec == Spec /\ WF_vars(Work("ticker")) /\ SF_vars(Consume)

(* Every goroutine runs.  Nothing is asked of the hub, of catalog changes or *)
(* of replays.                                                               *)
FairSpec == TickerSpec /\ \A w \in Writers : WF_vars(Work(w))

-----------------------------------------------------------------------------
(* Properties                                                               *)

(* What Home Assistant shows never goes back to an older event, whichever    *)
(* goroutine was slow to queue its update.                                   *)
NeverBack == [][\A e \in Entities : ha'[e] >= ha[e]]_vars

(* Snapshots written over each other and resets in between leave the metrics *)
(* wrong, and an account's update may be dropped from the queue, but only    *)
(* for a while: a snapshot of the ticker sets all the metrics right and      *)
(* publishes the accounts again, even if every other goroutine has got stuck *)
(* (TickerSpec).                                                             *)
Behind == metrics # state \/ ha[Account] # state[Account]
CatchUp == Behind ~> ~Behind

(* "Publishes updated HTTP, Prometheus, MQTT, and Home Assistant state"      *)
(* (bridge/docs/sia.md): the state of a zone gets there, too.                *)
ZoneCatchesUp == \A z \in Zones : ha[z] # state[z] ~> ha[z] = state[z]
=============================================================================
