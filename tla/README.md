# AjaxBridge in TLA+

AjaxBridge receives the SIA DC-09 frames of an Ajax alarm hub, derives an alarm
state from them, shows it as metrics, over HTTP and as retained MQTT messages
for Home Assistant, forwards the frames upstream, and exchanges Jeedom's view of
the same devices over MQTT. This directory models the parts in which order,
failure and concurrency decide whether what is shown is true.

Paths are relative to `src/bridge/internal/` unless they say otherwise.
`PROJECT.json` maps every definition to the lines it translates.

## Inventory

| Component | State | Operations | Correct means |
|---|---|---|---|
| **SIA server** (`sia/server.go`, `parser.go`, `response.go`, `crypto.go`) | none beyond the connection | one goroutine per connection: read a frame, handle it, write the answer | every frame gets the answer its parsing calls for; what is acknowledged is done |
| **State engine** (`state/state.go`, event classes in `sia/catalog.go`) | accounts, zones, direct alarms, revision, under one mutex | `Apply`, `RefreshOnline`, `ReloadCatalog`, `Snapshot` | alarm, trouble, mode and online agree with the events, whatever their order |
| **Event pipeline** (`app/app.go`, `metrics/metrics.go`) | the MQTT queue of one update, the snapshot gauges | `handleSIAFrame`, `refreshOnline`, `handleCatalogChanged`, `enqueueMQTTUpdate`, `publishMQTTSnapshots` | what is shown catches up with the engine and never goes back |
| **SIA MQTT publisher** (`hamqtt/publisher.go`) | a gate with a revision per entity, deduplication caches, recorded subscriptions and connect handlers, the replay mutex | `PublishUpdate`, `ReplayRetained`, `Subscribe`, `AddConnectHandler`, OnConnect, the birth callback and the recovery worker | topics never go back, the cache never hides a missing message, births are served, nothing waits for good |
| **Upstream forwarding** (`forward/forward.go`) | none | send a frame to all receivers in parallel, classify the answers | the hub's ACK means what the configuration says |
| **Jeedom store** (`jeedom/store.go`, `mapping.go`, `electrical.go`, `slug.go`) | devices, commands, actions, ownership, pending cleanups, publish revisions, control audit | `Apply`, `ApplyDiscovery`, `ReconcileResolver`, `Acknowledge*Cleanups`, `RecordControl` | one owner per command, and every topic of a former owner is cleaned up |
| **Jeedom publisher and service** (`jeedom/publisher.go`, `service.go`, queue in `app/app.go`) | gates per slug, the batch queue | one goroutine per message, `PublishDeviceWithResult`, batches after catalog changes | a stale snapshot never brings removed topics back |
| **Jeedom persistence** (`jeedom/persistence.go`) | the cache file and its temporary file | `Save`, `LoadStore` | a crash loses at most what was not saved |
| **Jeedom control** (`jeedom/control.go`, set topics in `service.go`) | audit ring in the store | `Execute`, `handleSetTopic` | each command is recorded once, under its own source |
| **Notifications** (`notifications/`) | rules, last values, last deliveries, history | `ObserveJeedomUpdate`, `ObserveJeedomControl`, `SaveConfig` | one alert per rule and cooldown |
| **Device catalog** (`devicecatalog/catalog.go`) | devices, indexes, file | `UpsertFromEvent`, `Replace`, `Lookup` | one entry per device, and the file agrees with the memory |
| **Event store, HTTP API, Jeedom metrics, configuration** | recent events; otherwise none | reads, and `ReloadCatalog` through HTTP | – |
| **Jeedom plugin patch, ha-cards, deployment, scripts** | – | – | – |

How they interact. A connection's goroutine calls the engine, sets the metrics
from the snapshot it gets back, puts an update in the MQTT queue and forwards
the frame, all outside the engine's mutex. The ticker and the HTTP handler of a
catalog change do the same with snapshots of their own. One goroutine takes
updates from the queue and publishes them; connect handlers and the recovery
worker publish whole snapshots beside it. They meet at the publisher's gates (one per
account or zone), its caches, and its replay mutex. The MQTT client calls back
from a dispatcher that handles one packet after the other.

On the Jeedom side a goroutine per MQTT message changes the store, writes the
cache file and publishes the devices it touched; the catalog editor reconciles
the store and queues a batch of every device; a replay publishes them too. They
meet in the store's mutex, in the save lock, and at gates of their own, one per
slug, of which a device needs several. What was cleaned up is acknowledged to
the store afterwards. A control is published, recorded in the audit, shown, and
comes back to the bridge as an echo that must be told from other clients'
commands.

What is hard. Snapshots are published in another order than they were taken;
the queue drops updates; a publish times out and its message arrives all the
same; a cache is marked before the publish and reset by a connection in the
middle of one; the broker restarts empty; callbacks must not wait for
acknowledgements; alarms, faults and arming of several devices overlap; the hub
repeats a frame on a second connection while the first is still being handled;
commands move between devices while tombstones of them wait; a file is removed
before its successor is renamed into place. The
`hazards` of `PROJECT.json` list these at their lines, with the properties that
watch them, or why none does yet.

## Modules

### RetainedReplica: what a subscriber may rely on

The engine has a history, the value of every topic at every revision. A topic
shows nothing or the value of some revision, and moves to the same or a later
one only. Only a broker without its store takes values away. This is
`docs/contracts.md:42-45` as a specification.

### HamqttPublisher: implements it

| State | Code |
|---|---|
| `revision`, `history` | `Engine.revision` and, as a ghost, every snapshot |
| `latest`, `gate` | `statePublishGate.latestRevision` and its mutex |
| `cache` | `discovered` and `publishedStates`: the payload marked for a topic |
| `replayLock` | `replayMu` |
| `pc`, `rev`, `todo`, `cur`, `part`, `acked` | where each goroutine is in `PublishUpdate`, its revision and entities, the message it is at, its token |
| `connected`, `hookPending`, `pipe`, `retained` | the MQTT client (external): connection, OnConnect callback, messages not yet processed by the broker, in order; the broker's retained messages |
| `verdict`, `stale` | ghosts: what went wrong since a replay began; the broker may have lost what the cache marks |

`StartUpdate` takes an update of any earlier revision from the queue.
`StartReplay` to `TakeSnapshot` are `ReplayRetained` and
`publishRetainedMQTT`. `BeginEntity` is `beginStatePublish`: a revision older
than the gate's is refused, any other becomes the latest *before* anything is
sent. `MarkTopic`, `SendPart`, `SendFails`, `WaitSucceeds`, `WaitFails` are
`publishDiscoveryMessage`/`publishState`, `publish` and `wait`, one message at
a time and in the order of `publishAccount`/`publishZone`. Payloads are
compared and never looked into, so they are model values; with `cfg.Retain` the
default, every message is retained.

External assumptions about the client and the broker: messages of a connection
are processed in order; on a lost connection those not processed are lost, or
sent again in order before newer ones; a processed message is not sent twice; a
broker may restart without its retained messages.

### HaRecovery: who subscribes, and what a birth causes

State: how far the main goroutine is in `AddConnectHandler`,
`StartHomeAssistantRecovery` and `Subscribe`;
`registered` and `handler` (`Publisher.subscriptions`, `connectHandlers`); an
OnConnect goroutine per connection (`hook`, `copied`); the dispatcher's `inbox`;
the request channel of one; the worker; the handlers that wait for `replayMu`;
the replay's one `batch`. Every lock region of the code is one action, every
pause between two of them a place where others may step in: `Subscribe` records
the topic, then looks at the connection (`Register`, `SubscribeIfOpen`);
`resubscribe` copies, then subscribes (`HookCopy`, `HookSubscribe`). `Shutdown`
cancels the application context at any time, and whoever looks at the context
leaves: `StartRecovery` then starts no worker, and `SubscribeIfOpen` does not
subscribe although the topic is recorded and the connection open. So
`BirthsReceived` is about a bridge that is not being stopped, and `WorkerEnds`
about one that is: the worker ends, or is never started.

External assumptions: sessions are clean; the dispatcher is ordered; the
acknowledgement timeout outlasts a dispatcher that runs (so that a callback
that blocks is visible as a wait that never ends). Updates of the queue
are left out: they do not touch the replay mutex.

### StateEngine: events to state

`Engine.Apply` is the operator `Apply`: what every event does (time, account
alarm, online) around the effect of its class, which is an action per class.
`clearZoneAlarm`, `applyZoneRestore`, `applyAccountRestore`,
`refreshOnlineLocked` and `refreshAccountAlarmLocked` are operators of nearly
the same names. `Reports` says which classes a device may send: the code accepts
any. Times are ages, which is all the code compares; `age` of an event is how
late it is applied. The ghost `open` is told from the reports alone: where the
hub reported an alarm, and no report has ended that one since (`Begins`, `Ends`,
`EndsDevice`, `Restores`). `OpenAlarmsShow` compares it with the account's flag,
which the code computes from its own records. Left out: names and other texts, the catalog's metadata,
`ReloadCatalog`, and events without an account number (the code calls it
"unknown" and does not recompute its alarm).

### EventPipeline: from the engine to what is shown

A goroutine takes a snapshot (`HandleFrame`, `RefreshOnline`,
`CatalogChanged`), resets and sets the gauges in three steps that nothing
serialises (`ResetGauges`, `SetAccountGauges`, `SetZoneGauges`: the code's are
more, one per gauge), and goes through the three selects of `enqueueMQTTUpdate`
(`Offer`, `Drain`, `OfferAgain`). `Consume` and `Replay` publish through the
gates. The state of an entity is the number of the event that changed it last;
one account stands for all. A publication is one step here and many in
HamqttPublisher.

### JeedomStore: who owns a command

Every exported method of `jeedom/store.go` runs under its mutex, so each is an
operator on a record: devices with the info commands and actions they own,
their aliases, their pending tombstones and publish revision, the index of
owners, the equipments. `Apply` is an event (`EventIdentity`,
`takeCommandFromOtherOwnersLocked`), `Discovered`, `DiscoveryFor` a discovery
(removal of what an equipment does not list any more, aliases, duplicates,
recreated commands), `ReconcileResolver` a changed catalog,
`Acknowledge*Cleanups` what a publication cleaned, `Loaded` a start. Slugs and
ids are numbers because the code visits them sorted. Names, units, values and
metrics are left out: the properties are about who owns what and what is still
to be cleaned. Of a command's metric only whether two share it is kept
(`Signature`), which is what `localDeviceSlug` and the recreation of commands ask.
What the operators simplify: no equipment is the alarm hub itself, whose names
`catalog_resolver.go:110-112` and `141-146` link to the account; two devices of a
catalog list no command both (`CatalogsLinkOnce`; in the code the last has it);
of two devices of one equipment, whose order is that of a Go map
(`store.go:1713-1723`), `RebuildIndexes` takes the first; and
`RemoveCanonicalLegacyAliases` cleans all devices, then numbers them, where the
code numbers each as its map yields it.

### JeedomBridge: the goroutines around the store, and the broker

`th` holds where each goroutine is: the messages' (`Event`, `Discovery`), the
queue's worker (`TakeBatch`), the replay's, the editor's (`SaveCatalog`,
`Reconcile`, `Enqueue`). Each publishes a list of snapshots: `LockGate` takes
one gate of `beginDevicePublish` at a time, in sorted order, and checks the
revision with the last; then come the tombstones, the aliases' topics, the
discovery and the state, each group a step that may fail (`SendFails`); then
`Acknowledge` and `Save`. `cfg`, `ctl` and `shown` are what the broker
retains: discovery of commands, discovery of buttons, states. A save may fail
(`Write`, at most `MaxLapses` times); the code logs that and goes on, the editor's
and the start's too. `lag` remembers it: the file is `behind` until a later save
succeeds, and what it misses is `lost` if the bridge stops before. `Crash` starts
again from the cache file. A group of messages is one step, and the broker's
own delivery is HamqttPublisher's subject. A control gives its device a new
revision too and has it published (`store.go:3094-3126`, `app/app.go:305-309`);
JeedomControl has the first and neither module the second, so `NewestShown` says
nothing of it. Every command is of a kind Home Assistant has an entity for
(`jeedom/publisher.go:261-265`), so the clean-up of the other kinds is not in
`SendDiscovery`.

### JeedomControl: one switch

Requests (`Request`, `Publish`, and the steps after the acknowledgement), the
set topic (`Hear`, `Check`: an echo of the bridge's own command or another
client's), readings, rebuilds, crashes. Values are on and off, with an order of
observations instead of times. `recent` says which entries of the audit are
within the two seconds of `HasRecentBridgeControl`. A save (`Saves`) writes the
store as it is, or fails, any number of times: the context of a request is
cancelled when its client goes, and the error is only logged
(`persistence.go:65-69`, `control.go:130-132`). A save that fails leaves the file
as it was here; that one may also lose it is CacheFiles' subject. A start reads
the file and runs `reconcilePersistedMappings` on it (`Loaded`), which keeps the
state of an action-only switch and builds any other's again; its repair of the
units of electrical metrics is left out. Ghosts: `evidence`, `heard`,
`noticed`, `alerted`, `unsaved` (the last save failed), `newest` (the last
evidence the store took) and `kept` (what `newest` was when the file was written).

### AcknowledgedDelivery: what the hub may rely on

Events come one after the other. What is done with one is done in order: it is
in the history, its device is in the catalog, the engine has it, the receivers
get it. It is acknowledged when the engine has it and, if the answer depends on
them, every receiver. An event may come again at any time, and then all of it
may happen again. This is `docs/sia.md:10-20` and `156` as a specification,
without connections, frames, damage and goroutines.

### SiaIntake: implements it, from a frame to its answer

A goroutine per connection reads a frame, records it, updates the catalog,
applies it to the engine, forwards it to all receivers at once and answers:
`handleSIAFrame`, `Parse`'s verdict on every kind of damage,
`ResponseKind`, `ForwardFrame`. The hub (external) sends one event after the
other until each is acknowledged, gives up waiting, repeats on another
connection, closes. Under the mapping at the end of the module a step of a
handler is one thing done with an event, and the hub that receives its ACK is
`Acknowledge`; frames, waits and answers that are not for the current event are
stutters.

### DurableValue: what a start may rely on

A value in memory has versions. A save puts a version on the disk that is no
older than the one there and no newer than the memory's. A start finds the
version on the disk, or nothing if the bridge stopped in the gap of a save.

### CacheFiles: the JSON files, implement it

The Jeedom cache, the device catalog and the notification settings are written
the same way and under different locks (`kind`). A save locks, takes the
content, writes the file beside it, removes, renames; every step may fail, and
the bridge may stop between any two. The catalog's content is the list of its
entries, for `UpsertFromEvent`, `Replace` and `findDeviceIndex`.


## Runs

| Run | Bounds | Shows |
|---|---|---|
| `publisher` (`MCHamqtt.cfg`) | 1 entity with 1 topic, 2 payloads, 1 update goroutine, 1 replay, 3 revisions, 1 message in the client | `TypeOK`, `CacheHonest`, `ReplayHeals`, `ReplicaSpec`, `JobsEnd` |
| `recovery` (`MCHaRecovery.cfg`) | 2 connections, 3 births | `NoLostBirth`, `BirthsReceived`, `BirthsServed`, `WorkerEnds` |
| `engine` (`MCStateEngine.cfg`) | 1 account; a detector, a keypad, the hub; 2 alarm signals, 2 faults; events 1 unit late | `OpenAlarmsShow`, `AlarmSignalOn`, `ModeAgrees`, `ArmingKeepsAlarms`, `SilenceShows` |
| `engine_trouble` (`MCStateTrouble.cfg`) | the same | **violated**: `TroubleRemains` |
| `pipeline` (`MCEventPipeline.cfg`) | 1 connection, the ticker, 1 catalog change, 2 events, 1 zone | `NeverBack`, `CatchUp` |
| `pipeline_zone` (`MCEventPipelineZone.cfg`) | 1 event | **violated**: `ZoneCatchesUp` |
| `jeedom` (`MCJeedom.cfg`) | 2 equipments, 5 slugs, 2 commands of one metric, 1 action; an old cache; 3 catalogs; 2 messages, 1 change of the catalog, 1 replay, 1 failure of a publication or a save, 1 crash, four of all these in a run; one goroutine after the other | `TypeOK`, `OneOwner`, `NoPendingOwned`, `NoOrphan`, `NoOrphanControl`, `Converged` |
| `jeedom_gates` (`MCJeedomGates.cfg`) | the same equipments, an empty cache too; 2 catalogs; 2 message goroutines, the queue, the editor and the replay of the start at once; no failures | `NoGateDeadlock`, `NewestShown`, `NeverBack` |
| `control` (`MCJeedomControl.cfg`) | each kind of switch; 1 request, 1 command of others, 1 reading, rebuilds, failed saves; 1 failed publication, 1 passing of time, 1 crash, two of reading, failure, passing and crash in a run; 2 goroutines on the set topic | `ShownHasEvidence`, `NewestEvidence`, `SavedWhenQuiet`, `CommandsNoticed`, `FeedbackWins` |
| `switch_zero_load` (`MCJeedomControlZero.cfg`) | readings of a zero load too | **violated**: `NewestEvidence` |
| `intake` (`MCSiaIntake.cfg`) | 3 events, 2 connections, 2 required receivers, 4 kinds of damage, 2 troubles | `TypeOK`, `AckedIsDone`, `FirstInOrder`, `EventsAcked`, `DeliverySpec` |
| `files` (`MCCacheFiles.cfg`) | each of the three files, 2 goroutines, 4 changes, 2 failures, 2 crashes; a zone with 2 devices | `TypeOK`, `LossOnlyInGap`, `FileIsMemory`, `OneEntry`, `DurableSpec` |

Why the bounds are enough. Going back needs two revisions of one entity and two
publishers, and a third revision to publish after it; a stale cache mark needs
two payloads and a message of each on its way. Two connections give the
start-up one to miss and one to catch; three births one in the delay, one in
the replay and one after it. Alarms are independent per account, and a detector,
a keypad and the hub are the three ways an account's alarm begins and ends. The
pipeline needs two events for a snapshot to be stale, and two goroutines beside
the connection to drop and overtake. Two equipments of one name give the store
everything it merges, splits, renames and takes away: an alias, a slug
suffixed with the id of an equipment or of a command, a zone of the catalog, a command recreated under another id, a button
that moves. A second event or discovery undoes what the first did. Overtaking
needs two goroutines and one device between them; the start adds a third. Three
events, two of them sent twice, are what it takes to be acknowledged out of
order. A file needs one change in it, one on its way and one in memory. The
theorems below remove the bounds where they are proved.

What the passing runs exclude, and why. `jeedom` looks at schedules without
overlap (`Serial`): with it, a former owner published late leaves its discovery
behind until a replay, which no document rules out (a hazard of its own in
`PROJECT.json`). `NewestShown`, and what `Converged` says of a device, leave
out slugs that are another device's alias too (`Canonical`): a device hidden
behind another's gate waits until a restart or its next change. Even so, they
do not hold of every catalog. If a catalog links a command of an equipment to
one zone and another zone to the equipment's name, a discovery may take that
zone's slug out of an alias after it has decided what to publish
(`jeedom/store.go:655`, `681`), and the new device is shown only after its next
event, a reconnection or a changed catalog. TLC finds this when it is given such
a catalog; it is in `PROJECT.json` as a hazard. The zone of the runs has a slug
that no device has as an alias. `NoOrphanControl` does not survive a catalog
that exchanges the linked actions of two zones: reconciling merges one device,
with its action, into the other's zone; the other's action is then moved to a
new device at the first zone, whose old button is not among its tombstones
(`ReconcileResolver`, `rehomeResolvedActionsLocked`). TLC finds this too with
two such zones. What `NoOrphan`,
`NoOrphanControl` and `Converged` say of tombstones is said until the bridge stops
before a failed save was made good (`lag # "lost"`): then nothing remembers what
was to be removed. In `jeedom` one thing fails, a publication or a save, and four
things happen (`FourThings`), in `control` two that disturb a command
(`TwoDisturbances`), to keep the runs short; without these constraints, with one of
each, both pass too. For the same reason `jeedom` starts from the cache of earlier
versions only and `jeedom_gates` knows two catalogs. `intake` has `ForwardRequireACK` on, the setting
under which the answer depends on the receivers; the theorems are about both.
`control` leaves the readings of a zero load to `switch_zero_load`.

`CHECK_DEADLOCK FALSE` stands where everything stops for a reason: after
shutdown and the last connection (`recovery`), or when the bounded events have
all happened (`jeedom`, `jeedom_gates`, `control`, `intake`, `files`). Symmetry
is used over goroutines, in runs without liveness.

Fairness. Goroutines that can run do (`WF` on their steps), timers fire, a free
`sync.Mutex` is given to every waiter in the end (`SF` on taking it: Go's mutex
hands over to a waiter that starves), a goroutine blocked on a channel receive
gets an item that is sent (`SF` on `Consume`: the sender hands it over). Nothing
is asked of the network, the broker, Home Assistant or whoever stops the bridge.
`pipeline` assumes less still: only the ticker and the consumer run on
(`TickerSpec`), so a goroutine that is stuck in an upstream receiver does no harm.
`pipeline_zone` runs under the full fairness, so its counterexample is not a
goroutine that merely stopped. `intake` (`FairSpec`) lets every connection's
goroutine go on: reads and receivers have deadlines. The server sets none for
writing its answer (`sia/server.go`), so that a write ends, or fails, is an
assumption about the operating system. The hub's closed connections are noticed,
and it goes on sending.

Each property has a mutant of the code it is about, named `Mutant:` in the module,
that breaks it: a cache mark kept after a
failure, a gate without its comparison, gates taken in any order, a tombstone
forgotten after a failed publication, an answer before the receivers', and so on.


### What the violated runs say

- **TroubleRemains.** `docs/sia.md:44`: "A battery trouble remains active until
  a battery restore arrives." A zone has one trouble flag, and the restore of
  any fault clears it.
- **ZoneCatchesUp.** `docs/sia.md:17-18`: the bridge applies the event and
  "Publishes updated HTTP, Prometheus, MQTT, and Home Assistant state". The queue
  holds one update and drops the older; if that was a zone's, the ticker, whose
  updates are about accounts only, does not bring it back.
- **NewestEvidence** (`switch_zero_load`). `bridge/docs/jeedom.md:192`:
  "AjaxBridge learns and persists state from successful bridge/MQTT ON/OFF
  controls and recognized Ajax event codes" and "A zero measurement does not
  prove `OFF`". A load reading, zero too, rebuilds the state of a wall switch
  from its commands alone (`jeedom/store.go:2106`, `2184-2232`). What a control
  set is in no command: a zero load deletes it, or brings an older event back.

## Proofs

`tlapm` checks these for every value of the constants that meets the modules'
named assumptions. They hold of `Spec`, without fairness. Every auxiliary
invariant named here was checked by TLC on the run of its component before it
was proved.

**HamqttPublisherProof.** `TypeCorrect`, `NeverBackwards` (`RetainedForward`),
`ImplementsReplica` (`ReplicaSpec`). The argument has two layers. `GateInv`: a
caller that is publishing an entity holds its gate at its own revision, and no
revision is ahead of the engine. `PipeInv`: messages to a topic are on their way
in the order of their revisions, none newer than the gate's latest, none older
than what the topic retains, and each carries the payload of the engine's
history. Neither `RetainedForward` nor the refinement follows from
types alone: delivering a message is safe only because the queue is sorted, and
it is sorted only because the gate refuses old revisions. `StepEffects` then says what
any step does to a topic: nothing, show a value of the history no older, or wipe
all; that is a step of RetainedReplica under the mapping at the end of
HamqttPublisher.

`CacheTellsTheTruth` (`CacheHonest`) says nothing of an entity while it is being
published, so it is not inductive. `AwaitInv`: a message someone still waits for
is the last of its topic, so its acknowledgement settles the topic. `MarkInv`:
the mark of a publishing caller is its own payload or, after a reset, nothing;
an acknowledged one is settled; any other mark is settled. `CleanReplayHeals`
(`ReplayHeals`) rests on these. `HeldInv`: who holds an entity's gate is publishing
it. `Covered`: of every part that the holder of the gate, if there is one, is
done with, the latest revision is retained and nothing is on its way. `ReplayInv`:
while a replay is still clean, every entity it no longer has to do is covered,
and every one that was published anew since its snapshot. The step that needs thought is the
refusal: a replay that finds a newer revision behind the gate publishes nothing,
and is right, because that update also began after the marks were reset.

`LocksNeverDeadlock`: no set of updates and replays all wait for each other. Who
has a gate is publishing (`HeldInv`) and takes no other lock; a replay has the
replay lock from its first step to its last, on every error path too
(`LockInv`), and waits for gates only. So every chain of waiting ends after two.
`RetainedForward` and StateEngine's `TypeOK` are proved and in no run: the first
follows from `ReplicaSpec`.

**HaRecoveryProof.** `BirthsAreNotLost` (`NoLostBirth`, strengthened by: a replay
of the worker occupies the worker). `BirthsAreReceived` (`BirthsReceived`): either
the topic was recorded before the connection's goroutine copied the map, and
that goroutine subscribes; or it was recorded after, and then the main
goroutine, which looks at the connection after recording, finds it open and
subscribes, unless the context was cancelled by then.

**StateEngineProof.** `EngineTypes`, `AlarmsFollowReports` (`OpenAlarmsShow`),
`AlarmsHaveSignals` (`AlarmSignalOn`), `ModesAgree` (`ModeAgrees`),
`ArmingEndsNoAlarm` (`ArmingKeepsAlarms`). The types, `AlarmSignalOn`,
`ModeAgrees` and `AlarmTruth` (the account's flag is that of its own alarm and its zones') are inductive
together; `ApplyKeepsInv` reduces an event to the effect of its class on one account
and one zone, and each class has its own step. `AlarmTruth` alone says nothing about the
events. `OpenAgrees` does: device by device, an alarm that was reported and not
ended is the one that is on in the zone, or the account's own. `ApplyKeepsOpen`
and `EventKeepsOpen` show it class by class: what the report ends, the event
ends, and it touches no other place.

**EventPipelineProof.** `ShownNeverBack` (`NeverBack`), `PipelineTypes`. A gate
compares revisions, and the property compares what is shown. `Agree` connects
them: of two snapshots that goroutines or the queue hold, the one with the
lower revision is nowhere newer. `Gates`: a snapshot that a gate would let
through is nowhere older than what is shown. Without the first, the second
would not survive a publication.

**SiaIntakeProof.** `IntakeTypes`, `AcknowledgedIsDone` (`AckedIsDone`),
`EventsInOrder` (`FirstInOrder`), for either value of `RequireACK`. `Stage`: what
the goroutine of a connection has done with the frame it is at, from its place
in the handler; `Deserved`: an ACK on its way is for an event that is done;
`Past`: so is every event before the hub's current one; `NotAhead`: no frame is
of a later one. Order follows: an event is applied for the first time only when
it is current, and then all before it are done.

`IntakeDelivers` (`DeliverySpec`): SiaIntake implements AcknowledgedDelivery. The
same invariant carries it. That a handler's step may be taken in the abstract
specification (the event is in the history before its device is in the catalog,
and so on) is `Stage`; that an event in hand has come is `NotAhead`; that an ACK
which moves the hub on is earned is `Deserved`. A frame that is damaged leaves
no trace but in the history, which is why a kept event is one whose frame was
sound.

**CacheFilesProof.** `FilesTypes`, `SavedIsFound` (`LossOnlyInGap`),
`FileCatchesUp` (`FileIsMemory`). `Locked`: the writer is the one with the lock;
`Beside`: the temporary file is whole when it is to be renamed; `Saved`: the
file is the last one saved or has just been removed; `Kept`: unless a save has
failed, the memory is in the file, on its way, or about to be taken by
somebody who has still to save. `OneEntryEach` (`OneEntry`): the entries of the
memory, of the files and of what is being written are distinct
(`DistinctInv`).
`FilesAreDurable` (`DurableSpec`): CacheFiles implements DurableValue. `InTurn`:
what a save has taken is no older than the last version saved and no newer than
the memory, because taking it and renaming it are under one lock; this is
what makes the rename a step of the abstract save, and `Saved` what makes a
start find it.
The hypothesis of `OneEntryEach`, `EditorListsDistinct`, is about the editor:
`Replace` (`catalog.go:110`) takes any list, and keeps a double it is sent.

**JeedomControlProof.** `ControlTyped`, `ShownIsBacked` (`ShownHasEvidence`),
`FeedbackAlwaysWins` (`FeedbackWins`), `ActionOnlyShowsNewest`
(`NewestEvidence`), `QuietIsSaved` (`SavedWhenQuiet`), `NothingUnnoticed`
(`CommandsNoticed`). `StoreEffects` names the six ways a step may change
the store. `EvidenceInv`: a value anywhere on its way to the store has already
been told by a publication or a reading. `FeedbackInv`: a switch that has
reported its state is shown as the rebuild of its observations.
`SettledInv`: a rebuild would change nothing, neither of what is shown nor of what
is in the file, so `LoadedAsRebuilt` makes a start show what was saved.
`NewestInv`: an action-only switch never reports its state and shows `newest`, and
the file has `kept`; a start that built the state from the readings again would
break it. It needs `TellingReadings`, that every reading says something, and
`switch_zero_load` shows that `NewestEvidence` fails without. `SaveInv`: whoever
changes the store stands right before its save, or the last save failed.
`AuditInv`, `NoticeInv`, `AlertInv` follow a command from the bus through a
handler to the audit and the rules; the hard case is an echo, which is dropped
only when the bridge's own entry is there.

**JeedomBridgeProof.** `GatesNeverDeadlock` (`NoGateDeadlock`). Invariant: a
goroutine's gates are smaller than those it still wants (`Ascending`), only one
that publishes has gates (`Needed`), and it goes through the groups a device
has (`Grouped`). In a circle of waiting goroutines each would wait for a gate
greater than the one its predecessor waits for; there are finitely many slugs.

`OneOwnerEach` (`OneOwner`) is about all the store's operations, each a loop, in
sorted order, over slugs or ids. A loop is a fold of the community modules,
and no installed prover can instantiate an induction theorem. The first
section therefore proves the facts about such loops that the rest needs from
their defining equation, each by a smallest counterexample: what every round
preserves holds after the loop (`LoopStays`). The operations are then
classed by what they may do to the ownership of commands: none (`Frame`: the
same owners, index and devices), the same with new devices (`Grown`), or moves
that leave one owner and the index on it (`Owning`). `OwnersInv` is that the
store is `Sound`: one owner each, and the index names it (and no revision twice,
below). It is inductive
only together: `takeCommandFromOtherOwnersLocked` clears an index entry by
looking at who owns, and removing the commands a discovery no longer lists is
right only if nobody else owns them (`RemoveCommandsOwning` needs `Single`). A
start needs no hypothesis: `DeduplicateCommandOwners` makes any cache single.
`OwnedIsNotPending` (`NoPendingOwned`) adds `TombInv`, the same of the store
and the cache file. It has a hypothesis, that the cache of the first start
names no command both as owned and as to be removed: a load takes tombstones
from the cache as they are.

`BridgeTyped` (`TypeOK`): the types, and that no two devices share a publish
revision and each has one of those given out. Inside a call this does not hold:
a new device has revision 0, and a bump is only noted. What every operation
keeps is `Ranked`, that the revisions differ except for zeros and none is ahead of
the counter (`Counted`: it leaves the revisions it finds and forgets no bump).
`ensureDevicePublishRevisionsLocked` then leaves no device without a revision or
a noted bump (`Settled`), because the depth-first walk of `PublishOrder` visits
every device: a step of the walk puts one more device on the stack or takes one
off it to the visited, so it has ended after twice as many steps as there are
slugs (`WalkTypes`; `WalkStepTypes` for a step). `NumberedFacts` gives each bumped
device the place of its last bump, and two devices never share a place: the
store is `Distinct`.

`ShownMovesForward` (`NeverBack`) follows a snapshot from the store through the
gates. `Entering`: a goroutine at the gates of a device has, or still wants,
every one of them. `Inside`: one behind them has them all, and the gate's
`latest` is its revision. And what is shown is never newer than `latest`. So
two goroutines are never inside the gates of one device, and whoever enters
later is as new or leaves. The theorem's hypothesis is `MaxCrashes = 0`: a start counts
revisions anew, and so the property says nothing across one. That snapshots are
devices of the store is shown for both orders they are taken in.

`PassedIsShown` says the converse, that nothing which passed is lost: until a
publication fails or the bridge is started again, the newest snapshot that
passed the gate of a slug is shown there, unless it is still being sent, or the
slug is an alias by then and shows nothing. Who is behind the gates has it still
to send; the state is sent by somebody whose revision is the gate's (`Inside`);
and the slugs of the same device that show nothing were cleared before, by the
same goroutine (`Cleared`). `NewestShown` would follow if every device's newest
snapshot reached its gate, and that is what the hazard above denies.

`NothingIsOrphaned` (`NoOrphan`). What Home Assistant has, the store and the
cache file know (`Remembered`): as owned or as to be removed (`Known`, `Kept`).
No operation of the store forgets a command it knows; only an acknowledgement
does, and behind the tombstones of a device its pending commands are gone from
the broker (`Carries`). Home Assistant learns of a command only from a batch that
is `Fit`, shows only what is owned and removes nothing that is, and outside a
save the file knows of all that is owned (`Filed`), unless a save has failed since
(`lag`). So a crash loses nothing, unless it comes before a failed save was made
good, which the property excepts. Three hypotheses: goroutines do not overlap (`Serial`: one works or a batch waits;
otherwise a late goroutine puts a removed command back, the hazard without a
property), every event is saved (`Valued \subseteq {TRUE}`: an event without a
value is saved only later, so its command may be on the broker and in no file),
and the caches of the first start name no command both as owned and as to be
removed.

The proofs of the store use six assumptions on its constants: the names of
operations are no messages (`MessagesApart`), ids are finite and have an equipment (`IdsAreNumbers`, `IdsHaveEquipment`), names lead to
slugs (`SlugsOfNames`, `CatalogsNameSlugs`), an action has a name
(`ActionsHaveNames`), caches hold devices (`CachesHoldDevices`).

Model-checked only: liveness (`JobsEnd`, `BirthsServed`, `WorkerEnds`,
`SilenceShows`, `CatchUp`, `EventsAcked`), which this prover cannot treat;
JeedomBridge's `NoOrphanControl`, `Converged` and `NewestShown`. These three hold
of the runs' catalogs and not of every one, as said under the runs, so there is
no theorem to prove before their hypotheses are stated. The bounds matter most
for `NoOrphanControl`: the run has one action, so two that share a name, and with
it a topic, never meet in it.

## Plan

Done: RetainedReplica and HamqttPublisher, HaRecovery, StateEngine,
EventPipeline, JeedomStore, JeedomBridge, JeedomControl, SiaIntake and
AcknowledgedDelivery, CacheFiles and DurableValue, in the order of how much of
what users see depends on them. What would come next: `NoOrphanControl` of
JeedomBridge with two actions; `NewestShown` and `Converged` with a hypothesis on
catalogs, that no zone's slug is an alias; the value rules
of the notifications; two switches, one of which shares the other's topic.


## Not modelled

Parts: parsing, decryption, translation and formatting of frames and payloads
(data, with unit tests in the repository); captured samples; the values, units and
names of metrics other than a switch's state; rules on values, and the channels'
protocols, of the notifications; reads of the HTTP API; the limit of the event
store's ring; configuration and the command line; the PHP patch of the Jeedom
plugin, the browser cards and deployment (no state of the bridge).

Behaviour seen in the code that no property is about, because no document says
what it should be, or because it is outside what a module models:

- `hamqtt/publisher.go:564-582`: the gate records a revision before the publish, so
  a replay of an older snapshot skips an entity whose newer update failed half-way.
- `app/app.go:620`: a publication that failed is only logged; the topic stays behind
  until the next update or replay.
- `state/state.go:383-395`: the restore of one alarm ends the zone's alarm although
  another of its signals is still on. `docs/sia.md:44` says that a restore clears
  "that specific alarm signal" and not what becomes of the zone's alarm then;
  `OpenAlarmsShow` counts alarms by device, as the code does.
- `jeedom/store.go:2803-2806`, `jeedom/publisher.go:217-220`: tombstones of a device
  hidden behind its canonical device's gate wait until a restart or a later change.
- Overlapping publications: the former owner of a command may be published after
  the new owner's tombstone, or a waiting batch's tombstone after the new
  owner's discovery; the clean-up of an alias clears the state of a device
  that goes under that slug again. A replay mends both.
- `jeedom/store.go:655`, `669-683`: when the device an alias stands for is the
  primary one of a discovery, the alias itself is not published, not even if the
  same discovery ends with the alias taken away and a device of its own.
- `app/app.go:317-333`: two saves of the editor may reconcile the store in another
  order than they replaced the catalog. The model has one editor.
- `jeedom/service.go:139`: an event without a value that changes no owner is
  published but not persisted.
- `jeedom/store.go:3128`: a control that was denied, or failed although it was
  delivered, makes its echo, and the same command of another client, count as the
  bridge's; an echo handled before its control is recorded is recorded twice.
  `CommandsNoticed` allows both: it is about missing entries.
- `jeedom/control.go:123-126`: a control that timed out although the broker has it is
  not shown; showing it would not violate `ShownHasEvidence` either.
- Shutdown of the intake: once the context is cancelled `store/store.go:58-63`
  appends no event and `devicecatalog/catalog.go:151-158` adds no device, which
  `app/app.go:459-461` and `527-535` log. SiaIntake ends before.
- `notifications/manager.go:118-150`: last values do not survive a restart, so the
  first value after it never crosses a threshold.
- `devicecatalog/catalog.go:119-126`, `httpapi/server.go:185-189`: a save that fails
  answers 500, but the memory has changed and the engine is not told.
  The editor saves whole lists, so it drops devices discovered meanwhile; and
  `catalog.go:188-213` sets `last_event` fields back when events are applied late.
- `sia/parser.go:51-53`: an empty frame has the status of a good one and an error.
  `docs/sia.md:12` and `:19` speak of one frame per connection and of a NAK for
  rejected frames, where the code reads on and chooses by the fault.
