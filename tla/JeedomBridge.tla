---------------------------- MODULE JeedomBridge ----------------------------
(***************************************************************************)
(* The Jeedom side of the bridge at work: Jeedom's messages, each handled  *)
(* in a goroutine of its own (internal/jeedom/service.go), the queue of    *)
(* the catalog editor and the retained replay (internal/app/app.go), all   *)
(* of them publishing snapshots of the store to the MQTT broker            *)
(* (internal/jeedom/publisher.go) and acknowledging what they cleaned up.  *)
(*                                                                         *)
(* A device is published under the gates of its slug and of its aliases,   *)
(* in four groups of messages: the tombstones, the topics of the aliases,  *)
(* the discovery of its commands and controls, its state. A group is one   *)
(* step or fails as a whole; a failure gives the device up.                *)
(***************************************************************************)
EXTENDS JeedomStore

CONSTANTS
    Messages,       \* goroutines of Jeedom messages
    Eqs,            \* Jeedom equipments
    NameOf,         \* the local slug of the name of an equipment
    Catalogs,       \* the catalogs an editor saves: sets of entries [slug, cmds, names]
    FirstCatalog,
    Caches,         \* the caches a first start may find
    Controls,       \* AJAXBRIDGE_JEEDOM_CONTROLS_ENABLED
    Valued,         \* whether an event carries a value: a subset of BOOLEAN
    Serial,         \* look only at the schedules in which goroutines do not overlap
    MaxMessages, MaxCatalogs, MaxReplays, MaxFailures, MaxLapses, MaxCrashes,
    None

Threads == Messages \cup {"queue", "replay", "admin"}
ASSUME NobodyIsNone == None \notin Threads
ASSUME MessagesApart == Messages \cap {"queue", "replay", "admin"} = {}
ASSUME IdsHaveEquipment == EqOf \in [Cmds \cup Acts -> Eqs] /\ NameOf \in [Eqs -> Slugs]
ASSUME CatalogsNameSlugs == /\ FirstCatalog \in Catalogs
                            /\ \A r \in Catalogs : \A e \in r : e.slug \in Slugs
ASSUME CatalogsLinkOnce == \A r \in Catalogs : \A a, b \in r : a.cmds \cap b.cmds # {} => a.slug = b.slug

VARIABLES
    dev, index, eqs, next,  \* the store (JeedomStore)
    resolver,       \* the catalog the store was last reconciled with
    catalog,        \* the catalog
    saved,          \* the cache file
    lag,            \* "behind" since a save that failed, "lost" once the bridge has stopped so
    th,             \* the goroutines: what each has still to publish
    queue,          \* jeedomQueue: at most one batch
    owner, latest,  \* the gate of a slug: who holds it, the revision it has seen
    cfg,            \* retained discovery of a command: the device it names
    ctl,            \* retained discovery of controls
    shown,          \* retained state of a device: the revision it is of
    spent,          \* how often each bounded thing has happened
    whole           \* no publication has failed since everything was replayed

store == <<dev, index, eqs, next>>
gates == <<owner, latest>>
broker == <<cfg, ctl, shown>>
vars == <<store, resolver, catalog, saved, lag, th, queue, gates, broker, spent, whole>>

Limit == [messages |-> MaxMessages, catalogs |-> MaxCatalogs, replays |-> MaxReplays,
          failures |-> MaxFailures, lapses |-> MaxLapses, crashes |-> MaxCrashes]
Spend(what) == spent[what] < Limit[what] /\ spent' = [spent EXCEPT ![what] = @ + 1]

MayBegin(t) ==
    /\ th[t].pc = "idle"
    /\ Serial => (\A u \in Threads : th[u].pc = "idle") /\ (t = "queue" \/ queue = <<>>)

Idle == [pc |-> "idle", todo |-> <<>>, want |-> {}, dirty |-> FALSE]
Store == [dev |-> dev, index |-> index, eqs |-> eqs, next |-> next, log |-> <<>>, touched |-> {}]
Becomes(T) == dev' = T.dev /\ index' = T.index /\ eqs' = T.eqs /\ next' = T.next
Devices == SnapshotsBySlug(Store, Live(Store))

(***************************************************************************)
(* Publishing a device.                                                    *)
(***************************************************************************)
Keys(sn) == ({sn.slug} \cup sn.d.legacy) \cap Slugs
Gone(sn) == sn.d.pend # {} \/ sn.d.pendActs # {}
AliasesOf(sn) == sn.d.legacy \ {sn.slug}

\* The groups are sent in this order; those a snapshot lacks are skipped.
After(sn, pc) ==
    IF pc = "gates" /\ Gone(sn) THEN "tombstones"
    ELSE IF pc \in {"gates", "tombstones"} /\ AliasesOf(sn) # {} THEN "aliases"
    ELSE IF pc = "discovery" THEN "state" ELSE "discovery"

\* A goroutine that has something to publish, or nothing more to do. The worker
\* saves once for the whole batch, a message's goroutine after each device.
Begin(t, todo, dirty) ==
    IF todo # <<>>
    THEN [pc |-> "gates", todo |-> todo, want |-> Keys(Head(todo)), dirty |-> dirty]
    ELSE IF dirty THEN [Idle EXCEPT !.pc = "save", !.dirty = TRUE] ELSE Idle

Skip(t) == th' = [th EXCEPT ![t] = Begin(t, Tail(th[t].todo), th[t].dirty)]
Release(t) == owner' = [s \in Slugs |-> IF owner[s] = t THEN None ELSE owner[s]]

\* Mutant: the gates are taken in any order.
AnyGate(t) == th[t].want
NextGate(t) == {Min(th[t].want)}

\* Mutant: the gates are taken but no revision is compared.
NeverStale(sn) == FALSE
Stale(sn) == sn.d.rev < latest[sn.slug]

\* gate.mu.Lock, in sorted order; with the last gate the revision is checked.
LockGate(t) ==
    LET sn == Head(th[t].todo)
    IN  /\ th[t].pc = "gates"
        /\ \E s \in NextGate(t) :
             /\ owner[s] = None
             /\ \/ /\ th[t].want # {s}
                   /\ owner' = [owner EXCEPT ![s] = t]
                   /\ th' = [th EXCEPT ![t].want = @ \ {s}]
                   /\ UNCHANGED latest
                \/ /\ th[t].want = {s} /\ Stale(sn)
                   /\ Release(t) /\ Skip(t) /\ UNCHANGED latest
                \/ /\ th[t].want = {s} /\ ~Stale(sn)
                   /\ owner' = [owner EXCEPT ![s] = t]
                   /\ latest' = [k \in Slugs |-> IF k \in Keys(sn) /\ sn.d.rev > latest[k]
                                                 THEN sn.d.rev ELSE latest[k]]
                   /\ th' = [th EXCEPT ![t].want = {}, ![t].pc = After(sn, "gates")]
        /\ UNCHANGED <<store, resolver, catalog, saved, lag, queue, broker, spent, whole>>

Sent(t, pc) ==
    /\ th[t].pc = pc
    /\ th' = [th EXCEPT ![t].pc = After(Head(th[t].todo), pc)]
    /\ UNCHANGED <<store, resolver, catalog, saved, lag, queue, gates, spent, whole>>

\* CleanupCommands, CleanupActions.
SendTombstones(t) ==
    LET sn == Head(th[t].todo)
    IN  /\ Sent(t, "tombstones")
        /\ cfg' = [c \in Cmds |-> IF c \in sn.d.pend THEN 0 ELSE cfg[c]]
        /\ ctl' = ctl \ UNION {{sn.slug, p[2]} \X {ActName[p[1]]} : p \in sn.d.pendActs}
        /\ UNCHANGED shown

\* publishLegacyCleanup.
SendAliases(t) ==
    LET sn == Head(th[t].todo)
    IN  /\ Sent(t, "aliases")
        /\ ctl' = IF Controls THEN ctl \ (AliasesOf(sn) \X Names) ELSE ctl
        /\ shown' = [s \in Slugs |-> IF s \in AliasesOf(sn) THEN 0 ELSE shown[s]]
        /\ UNCHANGED cfg

\* The commands of a device the catalog does not link are hidden, not shown. All
\* commands here are of the kinds Home Assistant has an entity for
\* (commandDiscoverable).
SendDiscovery(t) ==
    LET sn == Head(th[t].todo)
        mine == {c \in Cmds : sn.d.cmds[c] # "none"}
        buttons == IF sn.d.disabled THEN {} ELSE {<<sn.slug, ActName[a]>> : a \in sn.d.acts}
    IN  /\ Sent(t, "discovery")
        /\ cfg' = [c \in Cmds |-> IF c \in mine THEN (IF sn.d.disabled THEN 0 ELSE sn.slug) ELSE cfg[c]]
        /\ ctl' = IF ~Controls THEN ctl
                  ELSE IF buttons = {} THEN ctl \ ({sn.slug} \X Names) ELSE ctl \cup buttons
        /\ UNCHANGED shown

\* The state, and with it the device is published: the gates are released.
SendState(t) ==
    LET sn == Head(th[t].todo)
    IN  /\ th[t].pc = "state"
        /\ shown' = [shown EXCEPT ![sn.slug] = sn.d.rev]
        /\ Release(t)
        /\ IF Gone(sn) THEN th' = [th EXCEPT ![t].pc = "acknowledge"] ELSE Skip(t)
        /\ UNCHANGED <<store, resolver, catalog, saved, lag, queue, latest, cfg, ctl, spent, whole>>

\* Mutant: a failed publication is acknowledged like any other.
SendFailsUnnoticed(t) ==
    /\ th[t].pc \in {"tombstones", "aliases", "discovery", "state"}
    /\ Spend("failures")
    /\ Release(t)
    /\ th' = [th EXCEPT ![t].pc = "acknowledge"]
    /\ whole' = FALSE
    /\ UNCHANGED <<store, resolver, catalog, saved, lag, queue, latest, broker>>

\* A publication fails: the device is given up, its tombstones stay.
SendFails(t) ==
    /\ th[t].pc \in {"tombstones", "aliases", "discovery", "state"}
    /\ Spend("failures")
    /\ Release(t) /\ Skip(t)
    /\ whole' = FALSE
    /\ UNCHANGED <<store, resolver, catalog, saved, lag, queue, latest, broker>>

\* acknowledgePublishedCleanups, and the same in publishJeedomDevices.
Acknowledge(t) ==
    LET sn == Head(th[t].todo)
        acked == AcknowledgeActionCleanups(AcknowledgeCommandCleanups(dev, sn.d.pend), sn.d.pendActs)
        dirty == th[t].dirty \/ acked # dev
    IN  /\ th[t].pc = "acknowledge"
        /\ dev' = acked
        /\ th' = [th EXCEPT ![t] = IF t \in Messages /\ dirty
                                   THEN [pc |-> "save", todo |-> Tail(@.todo), want |-> {}, dirty |-> TRUE]
                                   ELSE Begin(t, Tail(@.todo), dirty)]
        /\ UNCHANGED <<index, eqs, next, resolver, catalog, saved, lag, queue, gates, broker, spent, whole>>

\* Store.Save: the file becomes what the store is at that moment, or it fails,
\* which is only logged.
Write ==
    \/ saved' = dev /\ lag' = (IF lag = "lost" THEN lag ELSE "none") /\ UNCHANGED spent
    \/ Spend("lapses") /\ lag' = (IF lag = "lost" THEN lag ELSE "behind") /\ UNCHANGED saved

Save(t) ==
    /\ th[t].pc = "save"
    /\ Write
    /\ th' = [th EXCEPT ![t] = Begin(t, @.todo, FALSE)]
    /\ UNCHANGED <<store, resolver, catalog, queue, gates, broker, whole>>

(***************************************************************************)
(* What makes the bridge publish.                                          *)
(***************************************************************************)
\* A command event: the store takes it, then the cache is written, then the
\* former owners and the owner are published. An event without a value that
\* changes no owner is not persisted.
Event(t, c, valued) ==
    LET n == NameOf[EqOf[c]]
        s == EventIdentity(Store, resolver, c, n).slug
        T == Apply(Store, resolver, c, n)
        todo == Append(SnapshotsBySlug(T, T.touched \ {s}), Snapshot(T, s))
    IN  /\ MayBegin(t)
        /\ Spend("messages")
        /\ Becomes(T)
        /\ th' = [th EXCEPT ![t] = IF valued \/ OwnershipChanges(Store, resolver, c, n)
                                   THEN [pc |-> "save", todo |-> todo, want |-> {}, dirty |-> TRUE]
                                   ELSE Begin(t, todo, FALSE)]
        /\ UNCHANGED <<resolver, catalog, saved, lag, queue, gates, broker, whole>>

\* Jeedom lists equipment e.
Discovery(t, e, cs, as) ==
    LET D == Discovered(Store, resolver, e, cs, as, NameOf[e])
    IN  /\ MayBegin(t)
        /\ Spend("messages")
        /\ \E primary \in IF LinkedTargets(D) = {} THEN {D.slug} ELSE LinkedTargets(D) :
             LET placed == DiscoveryFor(D, resolver, primary)
                 T == Numbered(placed)
             IN  /\ Becomes(T)
                 /\ th' = [th EXCEPT ![t] = [pc |-> "save", want |-> {}, dirty |-> TRUE,
                                             todo |-> SnapshotsInPublishOrder(T, T.touched)]]
        /\ UNCHANGED <<resolver, catalog, saved, lag, queue, gates, broker, whole>>

\* adminSaveDevices: the catalog is replaced ...
SaveCatalog(r) ==
    /\ MayBegin("admin")
    /\ r # catalog /\ Spend("catalogs")
    /\ catalog' = r
    /\ th' = [th EXCEPT !["admin"].pc = "reconcile"]
    /\ UNCHANGED <<store, resolver, saved, lag, queue, gates, broker, whole>>

\* ... then the store is reconciled with it ...
Reconcile ==
    LET r == NewCatalogResolver(catalog)
        T == ReconcileResolver(Store, r)
    IN  /\ th["admin"].pc = "reconcile"
        /\ resolver' = r
        /\ Becomes(T)
        /\ th' = [th EXCEPT !["admin"] = [pc |-> "persist", todo |-> SnapshotsInPublishOrder(T, Live(T)),
                                          want |-> {}, dirty |-> FALSE]]
        /\ UNCHANGED <<catalog, saved, lag, queue, gates, broker, spent, whole>>

\* ... then persisted, and every device queued: a batch that waits is dropped.
Enqueue ==
    /\ th["admin"].pc = "persist"
    /\ Write
    /\ queue' = <<th["admin"].todo>>
    /\ th' = [th EXCEPT !["admin"] = Idle]
    /\ UNCHANGED <<store, resolver, catalog, gates, broker, whole>>

TakeBatch ==
    /\ MayBegin("queue") /\ queue # <<>>
    /\ th' = [th EXCEPT !["queue"] = Begin("queue", Head(queue), FALSE)]
    /\ queue' = <<>>
    /\ UNCHANGED <<store, resolver, catalog, saved, lag, gates, broker, spent, whole>>

\* publishRetainedMQTT, on a reconnection or when Home Assistant announces itself.
Replay ==
    /\ MayBegin("replay")
    /\ Spend("replays")
    /\ th' = [th EXCEPT !["replay"] = Begin("replay", Devices, FALSE)]
    /\ whole' = TRUE
    /\ UNCHANGED <<store, resolver, catalog, saved, lag, queue, gates, broker>>

\* The bridge stops anywhere and is started again: the cache is loaded,
\* reconciled and written back (if that fails it is logged), and the first connection replays it.
Started(T) == [t \in Threads |->
    IF t = "replay" THEN Begin(t, SnapshotsBySlug(T, Live(T)), FALSE) ELSE Idle]

\* Mutant: a start loads the cache as it is.
LoadUnreconciled(cache, r) ==
    Numbered(RebuildIndexes(
        [dev |-> [s \in Slugs |-> IF cache[s] = NoDevice THEN NoDevice ELSE [cache[s] EXCEPT !.rev = 0]],
         index |-> [c \in Cmds |-> 0], eqs |-> [e \in Eqs |-> 0], next |-> 0,
         log |-> <<>>, touched |-> {}]))

Load(cache, r) == Loaded(cache, Eqs, r)

Crash ==
    /\ Spend("crashes")
    /\ LET T == Load(saved, NewCatalogResolver(catalog))
       IN  /\ Becomes(T) /\ th' = Started(T)
           /\ \/ saved' = T.dev /\ lag' = (IF lag = "none" THEN "none" ELSE "lost")
              \/ saved' = saved /\ lag' = (IF lag = "none" THEN "behind" ELSE "lost") /\ spent.lapses < MaxLapses
    /\ resolver' = NewCatalogResolver(catalog)
    /\ queue' = <<>>
    /\ owner' = [s \in Slugs |-> None] /\ latest' = [s \in Slugs |-> 0]
    /\ whole' = TRUE
    /\ UNCHANGED <<catalog, broker>>

Init ==
    /\ \E cache \in Caches : LET T == Load(cache, NewCatalogResolver(FirstCatalog))
         IN  /\ dev = T.dev /\ index = T.index /\ eqs = T.eqs /\ next = T.next
             /\ saved = T.dev /\ th = Started(T)
    /\ resolver = NewCatalogResolver(FirstCatalog) /\ catalog = FirstCatalog
    /\ queue = <<>>
    /\ owner = [s \in Slugs |-> None] /\ latest = [s \in Slugs |-> 0]
    /\ cfg = [c \in Cmds |-> 0] /\ ctl = {} /\ shown = [s \in Slugs |-> 0]
    /\ whole = TRUE /\ lag = "none"
    /\ spent = [what \in DOMAIN Limit |-> 0]

Publishing(t) ==
    \/ LockGate(t) \/ SendTombstones(t) \/ SendAliases(t) \/ SendDiscovery(t) \/ SendState(t)
    \/ SendFails(t) \/ Acknowledge(t) \/ Save(t)

Receive(t) ==
    \/ \E c \in Cmds, valued \in Valued : Event(t, c, valued)
    \/ \E e \in Eqs : \E cs \in SUBSET {c \in Cmds : EqOf[c] = e}, as \in SUBSET {a \in Acts : EqOf[a] = e} :
          Discovery(t, e, cs, as)

Next ==
    \/ \E t \in Threads : Publishing(t)
    \/ \E t \in Messages : Receive(t)
    \/ \E r \in Catalogs : SaveCatalog(r)
    \/ Reconcile \/ Enqueue \/ TakeBatch \/ Replay \/ Crash

Spec == Init /\ [][Next]_vars
-----------------------------------------------------------------------------
Device == [cmds : [Cmds -> {"none", "event", "discovered"}], acts : SUBSET Acts,
           pend : SUBSET Cmds, pendActs : SUBSET (Acts \X Slugs), legacy : SUBSET Slugs,
           linked : BOOLEAN, disabled : BOOLEAN, jid : Eqs \cup {0}, rev : Nat]

ASSUME CachesHoldDevices == /\ NoDevice \notin Device
                            /\ Caches \subseteq [Slugs -> Device \cup {NoDevice}]

\* The types of the state; every device in the store has a publish revision of
\* its own (bumpDevicePublishRevisionLocked), the order devices are published in.
TypeOK ==
    /\ \A s \in Slugs : dev[s] \in Device \cup {NoDevice} /\ saved[s] \in Device \cup {NoDevice}
    /\ \A s \in Live(Store) : dev[s].rev \in 1..next
    /\ \A s, k \in Live(Store) : dev[s].rev = dev[k].rev => s = k
    /\ index \in [Cmds -> Slugs \cup {0}] /\ eqs \in [Eqs -> Slugs \cup {0}] /\ next \in Nat
    /\ resolver \in {NewCatalogResolver(r) : r \in Catalogs} /\ catalog \in Catalogs
    /\ \A t \in Threads : /\ th[t].want \subseteq Slugs /\ th[t].dirty \in BOOLEAN
                         /\ \A i \in DOMAIN th[t].todo : th[t].todo[i].d \in Device
    /\ Len(queue) <= 1
    /\ owner \in [Slugs -> Threads \cup {None}] /\ latest \in [Slugs -> Nat]
    /\ cfg \in [Cmds -> Slugs \cup {0}] /\ ctl \subseteq Slugs \X Names /\ shown \in [Slugs -> Nat]
    /\ whole \in BOOLEAN /\ lag \in {"none", "behind", "lost"}

Quiet == /\ \A t \in Threads : th[t].pc = "idle"
         /\ queue = <<>>

\* However events, discoveries, catalogs and restarts follow each other, an info
\* command belongs to one device at most, and the index the store finds it by
\* (rebuildIndexesLocked, takeCommandFromOtherOwnersLocked) agrees.
OneOwner ==
    \A c \in Cmds : /\ Cardinality(Owners(Store, c)) <= 1
                    /\ index[c] = IF Owners(Store, c) = {} THEN 0 ELSE Min(Owners(Store, c))

\* A command some device owns is not waiting to be removed from Home Assistant
\* anywhere: its tombstone would take the new owner's entity away
\* (takeCommandFromOtherOwnersLocked withdraws it).
NoPendingOwned == \A c \in Cmds, s \in Live(Store) : c \in dev[s].pend => Owners(Store, c) = {}

\* A goroutine waits for a gate another one holds.
Waits(t, u) == /\ th[t].pc = "gates"
               /\ \E s \in th[t].want : owner[s] = u /\ \A k \in th[t].want : s <= k
\* Goroutines that publish devices with common slugs never all wait for each
\* other (beginDevicePublish takes the gates in sorted order).
NoGateDeadlock == \A S \in SUBSET Threads : S # {} => \E t \in S : \A u \in S : ~Waits(t, u)

\* Some publication under way, or a tombstone, still removes the topic.
WillClear(c) ==
    \/ \E s \in Live(Store) : c \in dev[s].pend
    \/ \E t \in Threads : \E i \in DOMAIN th[t].todo : c \in th[t].todo[i].d.pend
    \/ \E i \in DOMAIN queue : \E j \in DOMAIN queue[i] : c \in queue[i][j].d.pend
\* A command no device owns any more, but Home Assistant still has, is going to
\* be removed: a failed publication, a failed save, a crash or a move to another
\* device never forgets it (queueCommandCleanups, acknowledgePublishedCleanups);
\* only a stop before a failed save was made good can.
NoOrphan == lag # "lost" => \A c \in Cmds : cfg[c] # 0 /\ Owners(Store, c) = {} => WillClear(c)

\* The same for a button whose device has no action of the name any more
\* (queueActionCleanups, CleanupActions, publishLegacyCleanup).
NoOrphanControl ==
    lag # "lost" => \A s \in Slugs, n \in Names : <<s, n>> \in ctl =>
        \/ s \in Live(Store) /\ n \in {ActName[a] : a \in dev[s].acts}
        \/ \E k \in Live(Store) : s \in dev[k].legacy
        \/ \E k \in Live(Store) : \E p \in dev[k].pendActs : ActName[p[1]] = n /\ s \in {k, p[2]}
        \/ \E t \in Threads : \E i \in DOMAIN th[t].todo : th[t].todo[i].d.pendActs # {}

\* No other device goes under the slug too.
Canonical(s) == \A k \in Live(Store) : s \notin dev[k].legacy

\* When everything was published and nothing is left to do, Home Assistant has
\* for every command the discovery of its owner, none if the owner is not to be
\* shown, and no tombstone is left (Service.Start, publishRetainedMQTT).
Converged ==
    Quiet /\ whole =>
        /\ \A c \in Cmds : LET s == index[c]
                          IN  IF s = 0 THEN cfg[c] # 0 /\ lag # "lost" => \E k \in Live(Store) : c \in dev[k].pend
                              ELSE Canonical(s) => cfg[c] = IF dev[s].disabled THEN 0 ELSE s
        /\ \A s \in Live(Store) : Canonical(s) => dev[s].pend = {} /\ dev[s].pendActs = {}

\* When goroutines that overlap have all finished, Home Assistant shows the
\* newest state of every device, whichever of them published last
\* (bumpDevicePublishRevisionLocked, beginDevicePublish).
NewestShown ==
    Quiet /\ whole => \A s \in Live(Store) : Canonical(s) => shown[s] = dev[s].rev

\* What Home Assistant shows of a device never goes back to an older snapshot,
\* however late it is sent (the revision beginDevicePublish checks under the gate).
NeverBack == [][\A s \in Slugs : shown'[s] >= shown[s] \/ shown'[s] = 0 \/ next' < next]_vars
=============================================================================
