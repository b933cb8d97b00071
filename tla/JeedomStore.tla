---------------------------- MODULE JeedomStore ----------------------------
(***************************************************************************)
(* The Jeedom mirror of the bridge (internal/jeedom/store.go): devices,    *)
(* the info commands and actions they own, and the tombstones of retained  *)
(* Home Assistant discovery that waits to be removed.                      *)
(*                                                                         *)
(* Every exported method of the store runs under its mutex, so each is one *)
(* operator here, a function of the store record                           *)
(*   dev     the devices by slug, NoDevice where there is none             *)
(*   index   the owner of each info command, 0 for none                    *)
(*   eqs     the device of each Jeedom equipment, 0 for none               *)
(*   next    the last publish revision given out                           *)
(* and of the work of the call                                             *)
(*   log     the slugs bumpDevicePublishRevisionLocked was called for      *)
(*   touched the devices to publish next to the one the call is about.     *)
(* Slugs and command ids are numbers: the code visits both in sorted       *)
(* order. Names, values, times and metrics are left out: what is modelled  *)
(* is who owns what, and what is still to be cleaned.                      *)
(***************************************************************************)
EXTENDS Naturals, SequencesExt

CONSTANTS
    Slugs,            \* device slugs, positive numbers
    BaseOf,           \* the slug of the Jeedom name a device is known under
    Suffixed,         \* <name>_<eqLogic id> for a name that is already taken
    NameWithId,       \* <name>_<command id> for a command the devices of its name have already
    Cmds,             \* ids of info commands
    Acts,             \* ids of action commands
    EqOf,             \* the Jeedom equipment an id belongs to
    Signature,        \* the metric of a command, which one that was recreated has in common
    Names,            \* action names
    ActName,          \* normalizeDiscoveryAction of an action
    DiscoverUnlinked, \* AJAXBRIDGE_JEEDOM_DISCOVER_UNLINKED
    NoDevice

ASSUME SlugsAreNumbers == Slugs \subseteq Nat \ {0} /\ IsFiniteSet(Slugs)
ASSUME IdsAreNumbers == /\ (Cmds \cup Acts) \subseteq Nat \ {0} /\ Cmds \cap Acts = {}
                        /\ IsFiniteSet(Cmds) /\ IsFiniteSet(Acts)
ASSUME SlugsOfNames == /\ BaseOf \in [Slugs -> Slugs] /\ Suffixed \in [Slugs -> Slugs]
                       /\ NameWithId \in [Cmds -> Slugs]
ASSUME ActionsHaveNames == ActName \in [Acts -> Names]

\* What a loop over the sorted slugs or ids of S makes of x.
InOrder(op(_, _), x, S) == MapThenFoldSet(LAMBDA s, y : op(y, s), x, LAMBDA s : s, Max, S)

NewDevice == [cmds |-> [c \in Cmds |-> "none"], acts |-> {}, pend |-> {}, pendActs |-> {},
              legacy |-> {}, linked |-> FALSE, disabled |-> FALSE, jid |-> 0, rev |-> 0]

Live(T) == {s \in Slugs : T.dev[s] # NoDevice}
Has(T, s, c) == T.dev[s] # NoDevice /\ T.dev[s].cmds[c] # "none"
Owners(T, c) == {s \in Slugs : Has(T, s, c)}

Touch(T, S) == [T EXCEPT !.touched = @ \cup S]

\* The slugs an alias stands for: its own aliases too (flattenDeviceLegacySlugsLocked).
Aliases(T, s) ==
    LET step(S) == S \cup UNION {T.dev[l].legacy : l \in {l \in S : T.dev[l] # NoDevice}}
    IN  InOrder(LAMBDA S, i : step(S), T.dev[s].legacy, Slugs) \ {s}

Bump(T, s) == [T EXCEPT !.dev[s].legacy = Aliases(T, s), !.log = Append(@, s)]
BumpEach(T, S) == InOrder(Bump, T, S)

\* Mutant: devices bumped by one call get the same revision.
NumberedWithoutCounting(T) ==
    [T EXCEPT !.dev = [s \in Slugs |-> IF s \in ToSet(T.log) /\ @[s] # NoDevice
                                       THEN [@[s] EXCEPT !.rev = T.next + 1] ELSE @[s]]]

\* Every bump counts: a device keeps the number of its last one.
Numbered(T) ==
    LET last(s) == CHOOSE i \in DOMAIN T.log :
                      T.log[i] = s /\ \A j \in DOMAIN T.log : T.log[j] = s => j <= i
    IN  [T EXCEPT !.dev = [s \in Slugs |-> IF s \in ToSet(T.log) /\ T.dev[s] # NoDevice
                                           THEN [T.dev[s] EXCEPT !.rev = T.next + last(s)] ELSE T.dev[s]],
                  !.next = T.next + Len(T.log)]

Snapshot(T, s) == [slug |-> s, d |-> T.dev[s]]
\* Copies of the devices of S, by slug or the ones of lower revision first.
SnapshotsBySlug(T, S) == InOrder(LAMBDA out, s : Append(out, Snapshot(T, s)), <<>>, S \cap Live(T))
SnapshotsInPublishOrder(T, S) ==
    LET newest(V) == CHOOSE s \in V : \A k \in V : T.dev[k].rev <= T.dev[s].rev
    IN  MapThenFoldSet(LAMBDA s, out : Append(out, Snapshot(T, s)), <<>>, LAMBDA s : s, newest, S \cap Live(T))

(***************************************************************************)
(* Identity: the catalog links a command or a name to a slug of its own    *)
(* (CatalogResolver), 0 when it does not. No equipment here is the alarm   *)
(* hub itself, whose names link it to the account.                         *)
(***************************************************************************)
ResolveName(r, id, n) == IF r.cmd[id] # 0 THEN r.cmd[id] ELSE r.name[n]
Resolve(r, id, s) == ResolveName(r, id, BaseOf[s])

ResolveDiscovery(r, ids, n) ==
    LET linked == {id \in ids : r.cmd[id] # 0}
    IN  IF linked # {} THEN r.cmd[Min(linked)] ELSE r.name[n]

\* NewCatalogResolver: what a list of catalog entries [slug, cmds, names] links. A
\* name that two devices share links nothing. (Of two that list the same command
\* id the last would have it: no catalog here does, CatalogsLinkOnce.)
NewCatalogResolver(entries) ==
    LET linked(key, field) ==
            LET of == {e.slug : e \in {e \in entries : key \in e[field]}}
            IN  IF Cardinality(of) = 1 THEN Min(of) ELSE 0
    IN  [cmd  |-> [id \in Cmds \cup Acts |-> linked(id, "cmds")],
         name |-> [n \in Slugs |-> linked(n, "names")]]

\* mergeIdentity: a resolved slug leaves the local one behind as an alias.
Identity(local, resolved) ==
    [slug     |-> IF resolved = 0 THEN local ELSE resolved,
     legacy   |-> IF resolved \in {0, local} THEN {} ELSE {local},
     linked   |-> resolved # 0,
     disabled |-> resolved = 0 /\ ~DiscoverUnlinked]

Group(T, n) == {s \in Slugs : BaseOf[s] = n /\ T.dev[s] # NoDevice}

\* The last device of the name that has no command of the same metric.
LocalDeviceSlug(T, c, n) ==
    LET free == {s \in Group(T, n) : \A d \in Cmds : Has(T, s, d) => Signature[d] # Signature[c]}
    IN  IF T.index[c] # 0 THEN T.index[c]
        ELSE IF Group(T, n) = {} THEN n
        ELSE IF free # {} THEN Max(free) ELSE NameWithId[c]

LocalDiscoverySlug(T, e, n) ==
    LET same == {s \in Group(T, n) : T.dev[s].jid = e}
    IN  IF T.eqs[e] # 0 THEN T.eqs[e]
        ELSE IF Group(T, n) = {} THEN n
        ELSE IF same # {} THEN Min(same) ELSE Suffixed[n]

\* Fills the actions of a device from another's: names it has no action for.
CopyActions(T, target, source) ==
    LET free == {a \in T.dev[source].acts : \A b \in T.dev[target].acts : ActName[a] # ActName[b]}
    IN  [T EXCEPT !.dev[target].acts = @ \cup free]

MergeLegacyActions(T, s) ==
    InOrder(LAMBDA U, l : CopyActions(U, s, l), T, (T.dev[s].legacy \cap Live(T)) \ {s})

\* The device of an identity, created when it is new, with the identity's metadata.
Adopt(T, id) ==
    LET s == id.slug
        d == IF T.dev[s] = NoDevice THEN NewDevice ELSE T.dev[s]
    IN  [T EXCEPT !.dev[s] = [d EXCEPT !.legacy = (d.legacy \cup id.legacy) \ {s},
                                       !.linked = id.linked, !.disabled = id.disabled]]

(***************************************************************************)
(* Ownership of info commands.                                             *)
(***************************************************************************)
\* Mutant: a command moves while a device still waits to remove it.
TakeCommandButNotItsTombstones(T, c, target) ==
    LET moved == Owners(T, c) \ {target}
        taken == [T EXCEPT !.dev = [s \in Slugs |->
                    IF s \in moved THEN [@[s] EXCEPT !.cmds[c] = "none"] ELSE @[s]]]
    IN  Touch(BumpEach(taken, moved), moved)

\* Mutant: the former owner of a command is not published.
TakeCommandSilently(T, c, target) ==
    LET moved == Owners(T, c) \ {target}
        taken == [T EXCEPT !.dev = [s \in Slugs |->
                    IF @[s] = NoDevice THEN NoDevice
                    ELSE [@[s] EXCEPT !.pend = @ \ {c},
                                      !.cmds[c] = IF s \in moved THEN "none" ELSE @]]]
    IN  BumpEach(taken, moved)

\* Every other device loses the command, every device the wish to clean it up.
TakeCommand(T, c, target) ==
    LET waiting == {s \in Live(T) : c \in T.dev[s].pend}
        moved   == (waiting \cup Owners(T, c)) \ {target}
        taken   == [T EXCEPT
            !.dev = [s \in Slugs |->
                IF T.dev[s] = NoDevice THEN NoDevice
                ELSE [T.dev[s] EXCEPT !.pend = T.dev[s].pend \ {c},
                                      !.cmds[c] = IF s = target THEN T.dev[s].cmds[c] ELSE "none"]],
            !.index[c] = IF T.index[c] = target THEN target ELSE 0]
    IN  Touch(BumpEach(taken, moved), moved)

Provenance(T, c) == IF \E s \in Slugs : Has(T, s, c) /\ T.dev[s].cmds[c] = "discovered"
                    THEN "discovered" ELSE "event"

Give(T, c, target, how) == [TakeCommand(T, c, target) EXCEPT !.dev[target].cmds[c] = how,
                                                             !.index[c] = target]

(***************************************************************************)
(* Ownership of actions: an alias may mirror the action of its target.     *)
(***************************************************************************)
Mirror(T, s, target, a) ==
    /\ \/ T.dev[target].legacy \cap {s} # {}
       \/ T.dev[s].legacy \cap {target} # {}
    /\ a \in T.dev[s].acts \cap T.dev[target].acts

TakeActionFrom(T, a, target, s) ==
    LET cleanup == <<a, target>> \in T.dev[s].pendActs
        U == [T EXCEPT !.dev[s].pendActs = @ \ {<<a, target>>}]
        moves == s # target /\ a \in U.dev[s].acts /\ ~Mirror(U, s, target, a)
        V == IF moves THEN [U EXCEPT !.dev[s].acts = @ \ {a}, !.dev[s].pendActs = @ \cup {<<a, s>>}]
                      ELSE U
    IN  IF cleanup \/ moves THEN Touch(Bump(V, s), {s} \ {target}) ELSE V

TakeAction(T, a, target) ==
    InOrder(LAMBDA U, s : TakeActionFrom(U, a, target, s), T, Live(T))

ActionFound(T, a, target) ==
    \E s \in Live(T) \ {target} : a \in T.dev[s].acts /\ ~Mirror(T, s, target, a)

(***************************************************************************)
(* The passes that put everything where the catalog wants it.              *)
(***************************************************************************)
EnsureIdentityDevice(T, s) == Adopt(T, [slug |-> s, legacy |-> {}, linked |-> TRUE, disabled |-> FALSE])

RehomeCommand(T, r, s, c) ==
    LET target == Resolve(r, c, s)
        how == Provenance(T, c)
        U == Give(EnsureIdentityDevice(T, target), c, target, how)
        V == [U EXCEPT !.dev[target].jid = IF @ = 0 /\ how = "discovered" THEN EqOf[c] ELSE @]
    IN  IF Has(T, s, c) THEN Touch(Bump(V, target), {s, target}) ELSE T

RehomeCommands(T, r) ==
    LET misplaced(s) == {c \in Cmds : Has(T, s, c) /\ Resolve(r, c, s) \notin {0, s}}
        from(U, s) == InOrder(LAMBDA W, c : RehomeCommand(W, r, s, c), U, misplaced(s))
    IN  InOrder(from, T, Live(T))

RehomeAction(T, r, s, a) ==
    LET target == Resolve(r, a, s)
        U == EnsureIdentityDevice(T, target)
        V == TakeAction(U, a, target)
        W == [V EXCEPT !.dev[target].acts = {b \in @ : ActName[b] # ActName[a]} \cup {a}]
    IN  IF a \notin T.dev[s].acts THEN T
        ELSE IF ~ActionFound(U, a, target) THEN [V EXCEPT !.touched = T.touched]
        ELSE Touch(Bump(W, target), {s, target})

RehomeActions(T, r) ==
    LET misplaced(s) == {a \in T.dev[s].acts : Resolve(r, a, s) \notin {0, s}}
        from(U, s) == InOrder(LAMBDA W, a : RehomeAction(W, r, s, a), U, misplaced(s))
    IN  InOrder(from, T, Live(T))

\* Of several actions of one name a device keeps one: the one the catalog puts
\* there, then the one of its own equipment, then the smallest id.
ResolveActionCollisions(T, r) ==
    LET better(s, a, b) ==
            LET rank(x) == <<Resolve(r, x, s) = s, EqOf[x] = T.dev[s].jid>>
            IN  \/ rank(a)[1] /\ ~rank(b)[1]
                \/ rank(a)[1] = rank(b)[1] /\ rank(a)[2] /\ ~rank(b)[2]
                \/ rank(a) = rank(b) /\ a < b
        loses(s, a) == \E b \in T.dev[s].acts : ActName[b] = ActName[a] /\ better(s, b, a)
        changed == {s \in Live(T) : \E a \in T.dev[s].acts : loses(s, a)}
        kept == [T EXCEPT !.dev = [s \in Slugs |->
                    IF s \in changed THEN [T.dev[s] EXCEPT !.acts = {a \in T.dev[s].acts : ~loses(s, a)}]
                    ELSE T.dev[s]]]
    IN  Touch(BumpEach(kept, changed), changed)

\* A cache of an earlier version may hold a command twice: the owner of its
\* equipment wins, then (the observation times being equal) the first slug.
DeduplicateCommand(T, c) ==
    LET own(s) == T.dev[s].cmds[c] = "discovered" /\ T.dev[s].jid = EqOf[c]
        first == {s \in Owners(T, c) : own(s)}
        winner == IF first # {} THEN Min(first) ELSE Min(Owners(T, c))
        how == T.dev[winner].cmds[c]
    IN  IF Cardinality(Owners(T, c)) < 2 THEN T
        ELSE Bump([Give(T, c, winner, how) EXCEPT !.touched = T.touched], winner)

\* Mutant: an old cache keeps every owner of a command.
KeepEveryOwner(T) == T

DeduplicateCommandOwners(T) == InOrder(DeduplicateCommand, T, Cmds)

\* The slug of a device the catalog knows is no longer an alias of another. (The
\* code numbers each device as it comes to it, in any order; here all are cleaned
\* up first.)
RemoveCanonicalLegacyAliases(T) ==
    LET canonical == {s \in Live(T) : T.dev[s].linked}
        changed == {s \in Live(T) : T.dev[s].legacy \cap canonical # {}}
        kept == [T EXCEPT !.dev = [s \in Slugs |->
                    IF s \in changed THEN [T.dev[s] EXCEPT !.legacy = T.dev[s].legacy \ canonical]
                    ELSE T.dev[s]]]
    IN  Touch(BumpEach(kept, changed), changed)

\* Aliases first: a device is published after the slugs it cleans up
\* (devicePublishRevisionOrderLocked: a depth-first walk, here with its stack).
PublishOrder(T) ==
    LET step(w, i) ==
            IF w.stack = <<>> THEN w
            ELSE LET s == Last(w.stack)
                     below == (T.dev[s].legacy \cap Live(T)) \ (ToSet(w.out) \cup ToSet(w.stack))
                 IN  IF below = {} THEN [stack |-> Front(w.stack), out |-> Append(w.out, s)]
                                   ELSE [w EXCEPT !.stack = Append(@, Min(below))]
        walk(w, s) == IF s \in ToSet(w.out) THEN w
                      ELSE InOrder(step, [w EXCEPT !.stack = <<s>>], 1..(2 * Cardinality(Slugs)))
    IN  InOrder(walk, [stack |-> <<>>, out |-> <<>>], Live(T)).out

BumpAll(T) == FoldLeft(Bump, T, PublishOrder(T))
EnsureRevisions(T) ==
    LET ensure(U, s) == IF T.dev[s].rev = 0 /\ s \notin ToSet(T.log) THEN Bump(U, s) ELSE U
    IN  FoldLeft(ensure, T, PublishOrder(T))

\* Of two devices of one equipment the code takes any, in the order of its map;
\* here the first.
RebuildIndexes(T) ==
    EnsureRevisions([T EXCEPT
        !.index = [c \in Cmds |-> IF Owners(T, c) = {} THEN 0 ELSE Min(Owners(T, c))],
        !.eqs = [e \in DOMAIN T.eqs |->
                   LET of == {s \in Live(T) : T.dev[s].jid = e}
                   IN  IF of = {} THEN 0 ELSE Min(of)]])

Placed(T, r) ==
    LET homed == RehomeActions(RehomeCommands(T, r), r)
        unique == DeduplicateCommandOwners(ResolveActionCollisions(homed, r))
    IN  RebuildIndexes(RemoveCanonicalLegacyAliases(unique))

(***************************************************************************)
(* The exported operations.                                                *)
(***************************************************************************)
\* Apply: an event of command c from the Jeedom device named n. The owner it is
\* found under is published after the devices that lost the command.
EventIdentity(T, r, c, n) == Identity(LocalDeviceSlug(T, c, n), ResolveName(r, c, n))

Apply(T, r, c, n) ==
    LET id == EventIdentity(T, r, c, n)
        s == id.slug
        how == IF Owners(T, c) = {} THEN "event" ELSE Provenance(T, c)
        given == Give(MergeLegacyActions(Adopt(T, id), s), c, s, how)
    IN  Numbered(Bump(given, s))

\* Apply reports whether ownership changed (StoreChanged).
OwnershipChanges(T, r, c, n) ==
    \/ \E s \in Live(T) : c \in T.dev[s].pend
    \/ Owners(T, c) \ {EventIdentity(T, r, c, n).slug} # {}

\* ApplyDiscovery removes the commands and actions of equipment e it does not
\* list, and tombstones them; a command only seen in events is removed when the
\* listing has its successor.
RemoveCommands(T, e, cs) ==
    LET gone(s) == {c \in Cmds \ cs :
            \/ T.dev[s].cmds[c] = "discovered" /\ EqOf[c] = e
            \/ /\ T.dev[s].cmds[c] = "event" /\ T.dev[s].jid = e
               /\ \E d \in cs : Signature[d] = Signature[c]}
        losers == {s \in Live(T) : gone(s) # {}}
        removed == [T EXCEPT
            !.dev = [s \in Slugs |-> IF s \notin losers THEN T.dev[s] ELSE
                       [T.dev[s] EXCEPT !.cmds = [c \in Cmds |-> IF c \in gone(s) THEN "none" ELSE T.dev[s].cmds[c]],
                                        !.pend = T.dev[s].pend \cup gone(s)]],
            !.index = [c \in Cmds |-> IF \E s \in losers : c \in gone(s) THEN 0 ELSE T.index[c]]]
    IN  Touch(BumpEach(removed, losers), losers)

\* Mutant: an action that disappeared leaves no tombstone.
RemoveActionsForGood(T, e, as) ==
    [T EXCEPT !.dev = [s \in Slugs |-> IF @[s] = NoDevice THEN NoDevice ELSE
        [@[s] EXCEPT !.acts = {a \in @ : a \in as \/ EqOf[a] # e}]]]

RemoveActions(T, e, as) ==
    LET gone(s) == {a \in T.dev[s].acts \ as : EqOf[a] = e}
        losers == {s \in Live(T) : gone(s) # {}}
        removed == [T EXCEPT !.dev = [s \in Slugs |-> IF s \notin losers THEN T.dev[s] ELSE
                       [T.dev[s] EXCEPT !.acts = T.dev[s].acts \ gone(s),
                                        !.pendActs = T.dev[s].pendActs \cup {<<a, s>> : a \in gone(s)}]]]
    IN  Touch(BumpEach(removed, losers), losers)

Discovered(T, r, e, cs, as, n) ==
    LET id == Identity(LocalDiscoverySlug(T, e, n), ResolveDiscovery(r, cs \cup as, n))
        s == id.slug
        adopted == [Adopt(T, id) EXCEPT !.dev[s].jid = e, !.eqs[e] = s]
        pruned == RemoveCommands(MergeLegacyActions(adopted, s), e, cs)
        listed == InOrder(LAMBDA U, c : Give(U, c, s, "discovered"), pruned, cs)
        controls == InOrder(LAMBDA U, a : [TakeAction(U, a, s) EXCEPT !.dev[s].acts = @ \cup {a}],
                            RemoveActions(listed, e, as), as)
    IN  [slug |-> s, T |-> Bump(controls, s)]

\* A device the discovered one is an alias of: it takes over the new actions
\* and is the one to publish. Any, if there are several (linkedTargetForLegacyLocked).
LinkedTargets(D) == {s \in Live(D.T) \ {D.slug} : D.slug \in D.T.dev[s].legacy}

DiscoveryFor(D, r, primary) ==
    LET linked == IF primary = D.slug THEN D.T ELSE Bump(CopyActions(D.T, primary, D.slug), primary)
    IN  Touch(Placed(linked, r), {primary})

\* ReconcileResolver: every device goes where the new catalog wants it.
MergeDevice(T, r, s) ==
    LET d == T.dev[s]
        ids == {c \in Cmds : d.cmds[c] # "none"} \cup d.acts
        id == Identity(s, ResolveDiscovery(r, ids, BaseOf[s]))
        t == id.slug
        into == IF T.dev[t] = NoDevice THEN NewDevice ELSE T.dev[t]
        merged == [into EXCEPT
            !.cmds = [c \in Cmds |-> IF "discovered" \in {into.cmds[c], d.cmds[c]} THEN "discovered"
                                      ELSE IF into.cmds[c] # "none" THEN into.cmds[c] ELSE d.cmds[c]],
            !.acts = into.acts \cup d.acts, !.pend = into.pend \cup d.pend,
            !.pendActs = into.pendActs \cup d.pendActs,
            !.legacy = into.legacy \cup d.legacy \cup id.legacy,
            !.linked = id.linked, !.disabled = id.disabled,
            !.jid = IF d.jid # 0 THEN d.jid ELSE into.jid]
        placed == [T EXCEPT !.dev[t] = merged]
    IN  IF d = NoDevice THEN T
        ELSE IF t = s THEN placed ELSE [placed EXCEPT !.dev[s] = NoDevice]

ReconcileResolver(T, r) ==
    LET merged == InOrder(LAMBDA U, s : MergeDevice(U, r, s), T, Live(T))
        bumped == BumpAll(RebuildIndexes(merged))
    IN  Numbered(Placed(bumped, r))

\* Published tombstones are dropped, from every device.
AcknowledgeCommandCleanups(dev, cs) ==
    [s \in Slugs |-> IF dev[s] = NoDevice THEN NoDevice ELSE [dev[s] EXCEPT !.pend = @ \ cs]]
AcknowledgeActionCleanups(dev, as) ==
    [s \in Slugs |-> IF dev[s] = NoDevice THEN NoDevice ELSE [dev[s] EXCEPT !.pendActs = @ \ as]]

\* A start: the cache has no revisions, and is reconciled before it is used.
Loaded(saved, eqs, r) ==
    LET dev == [s \in Slugs |-> IF saved[s] = NoDevice THEN NoDevice ELSE [saved[s] EXCEPT !.rev = 0]]
        T == [dev |-> dev, index |-> [c \in Cmds |-> 0], eqs |-> [e \in eqs |-> 0],
              next |-> 0, log |-> <<>>, touched |-> {}]
    IN  ReconcileResolver(RebuildIndexes(T), r)
=============================================================================
