----------------------------- MODULE CacheFiles -----------------------------
(***************************************************************************)
(* The JSON files the bridge keeps: the Jeedom mirror                      *)
(* (internal/jeedom/persistence.go), the device catalog                    *)
(* (internal/devicecatalog/catalog.go) and the notification settings       *)
(* (internal/notifications/store.go). All are written beside themselves    *)
(* and renamed into place after the old file was removed, and read again   *)
(* at the next start, an absent file as an empty one.                      *)
(*                                                                         *)
(* The catalog and the settings change and are written under one lock. The *)
(* Jeedom store changes under its own lock; a save has a lock of its own   *)
(* and takes what the store is by then.                                    *)
(***************************************************************************)
EXTENDS Naturals, SequencesExt

CONSTANTS
    Kinds,          \* which file: a subset of {"jeedom", "catalog", "settings"}
    Writers,        \* goroutines
    Zones, Devices, \* of the catalog; NoDevice is an entry for a whole zone
    Lists,          \* what the catalog editor may save
    MaxChanges, MaxFailures, MaxCrashes,
    NoDevice, None, Torn

Entries == Seq([zone : Zones, device : Devices \cup {NoDevice}])

ASSUME KindsKnown == Kinds \subseteq {"jeedom", "catalog", "settings"}
ASSUME ListsAreEntries == Lists \subseteq Entries /\ MaxChanges \in Nat
ASSUME NoContent == /\ None \notin Writers /\ None # Torn
                    /\ {None, Torn} \cap [ver : Nat, list : Entries] = {}

VARIABLES
    kind,
    mem,            \* content in memory: number of its last change, catalog entries
    file, tmp,      \* the file and the one beside it
    lock,           \* saveMu, or the store's mutex
    th,             \* the goroutines
    count,          \* changes so far
    done,           \* the last change a save that succeeded has written
    failed,         \* a save has failed since all of the memory was last written
    lost,           \* its rename has: there is no file
    spent

files == <<file, tmp>>
ghosts == <<done, failed, lost>>
vars == <<kind, mem, files, lock, th, count, ghosts, spent>>

Limit == [failures |-> MaxFailures, crashes |-> MaxCrashes]
Spend(what) == spent[what] < Limit[what] /\ spent' = [spent EXCEPT ![what] = @ + 1]

Nothing == [ver |-> 0, list |-> <<>>]
Idle == [pc |-> "idle", body |-> Nothing]
Goto(w, pc) == th' = [th EXCEPT ![w].pc = pc]

(***************************************************************************)
(* The catalog: an event names a zone and a device, or a zone only.        *)
(***************************************************************************)
Entry(z, d) == [zone |-> z, device |-> d]

\* Mutant: the first entry of the zone is found, the device's own or not.
AnyOfZone(list, z, d) ==
    LET zone == {i \in DOMAIN list : list[i].zone = z /\ list[i].device \in {d, NoDevice}}
    IN  IF zone = {} THEN 0 ELSE Min(zone)

\* The entry of the device, else the zone's own, which becomes the device's.
findDeviceIndex(list, z, d) ==
    LET exact == {i \in DOMAIN list : list[i] = Entry(z, d) /\ d # NoDevice}
        zone == {i \in DOMAIN list : list[i] = Entry(z, NoDevice)}
    IN  IF exact # {} THEN Min(exact) ELSE IF zone # {} THEN Min(zone) ELSE 0

UpsertFromEvent(list, z, d) ==
    LET i == findDeviceIndex(list, z, d)
    IN  IF i = 0 THEN Append(list, Entry(z, d))
        ELSE [list EXCEPT ![i].device = IF @ = NoDevice THEN d ELSE @]

\* Lookup: the last entry of the device, else the first of the zone.
Lookup(list, z, d) ==
    LET exact == {i \in DOMAIN list : list[i] = Entry(z, d) /\ d # NoDevice}
        zone == {i \in DOMAIN list : list[i].zone = z}
    IN  IF exact # {} THEN Max(exact) ELSE IF zone # {} THEN Min(zone) ELSE 0

(***************************************************************************)
(* Changes. A catalog or settings change holds the lock until it is saved; *)
(* a Jeedom change is saved afterwards.                                    *)
(***************************************************************************)
Change(w, list) ==
    /\ th[w].pc = "idle" /\ count < MaxChanges
    /\ kind = "jeedom" \/ lock = None
    /\ count' = count + 1
    /\ mem' = [ver |-> count', list |-> list]
    /\ lock' = IF kind = "jeedom" THEN lock ELSE w
    /\ th' = [th EXCEPT ![w] = [pc |-> IF kind = "jeedom" THEN "save" ELSE "write", body |-> mem']]
    /\ UNCHANGED <<kind, files, ghosts, spent>>

Learn(w) == kind = "catalog" /\ \E z \in Zones, d \in Devices \cup {NoDevice} :
                Change(w, UpsertFromEvent(mem.list, z, d))
Replace(w) == kind = "catalog" /\ \E list \in Lists : Change(w, list)
Store(w) == kind # "catalog" /\ Change(w, <<>>)

\* Mutant: a save writes its own change, not what the store is by then.
TakeOwnChange(w) ==
    /\ th[w].pc = "save" /\ lock = None
    /\ lock' = w
    /\ Goto(w, "write")
    /\ UNCHANGED <<kind, mem, files, count, ghosts, spent>>

\* Store.Save: with saveMu, the store's devices as they are now.
TakeSnapshot(w) ==
    /\ th[w].pc = "save" /\ lock = None
    /\ lock' = w
    /\ th' = [th EXCEPT ![w] = [pc |-> "write", body |-> mem]]
    /\ UNCHANGED <<kind, mem, files, count, ghosts, spent>>

SaveFails(w) ==
    /\ Spend("failures")
    /\ failed' = TRUE
    /\ th' = [th EXCEPT ![w] = Idle]
    /\ lock' = IF lock = w THEN None ELSE lock

\* The bridge is being stopped: the save does not begin.
Refuse(w) ==
    /\ th[w].pc = "save"
    /\ SaveFails(w)
    /\ UNCHANGED <<kind, mem, files, count, done, lost>>

\* Mutant: the old file is removed before the new one is written.
WriteAfterRemoval(w) ==
    /\ th[w].pc = "write"
    /\ file' = None
    /\ \/ tmp' = th[w].body /\ Goto(w, "remove") /\ UNCHANGED <<lock, failed, spent>>
       \/ SaveFails(w) /\ tmp' \in {tmp, Torn}
    /\ UNCHANGED <<kind, mem, count, done, lost>>

\* WriteFile beside the file: it may fail half way.
WriteTmp(w) ==
    /\ th[w].pc = "write"
    /\ \/ tmp' = th[w].body /\ Goto(w, "remove") /\ UNCHANGED <<lock, failed, spent>>
       \/ SaveFails(w) /\ tmp' \in {tmp, Torn}
    /\ UNCHANGED <<kind, mem, file, count, done, lost>>

\* os.Remove, whose error is ignored.
RemoveFile(w) ==
    /\ th[w].pc = "remove"
    /\ \/ file' = None /\ UNCHANGED spent
       \/ file # None /\ Spend("failures") /\ UNCHANGED file
    /\ Goto(w, "rename")
    /\ UNCHANGED <<kind, mem, tmp, lock, count, ghosts>>

Renamed(w) ==
    /\ file' = tmp /\ tmp' = None
    /\ done' = th[w].body.ver /\ failed' = (failed /\ th[w].body # mem) /\ lost' = FALSE
    /\ th' = [th EXCEPT ![w] = Idle]

RenameTmp(w) ==
    /\ th[w].pc = "rename"
    /\ \/ Renamed(w) /\ lock' = None /\ UNCHANGED spent
       \/ SaveFails(w) /\ lost' = (lost \/ file = None) /\ UNCHANGED <<files, done>>
    /\ UNCHANGED <<kind, mem, count>>

\* Mutant: a start reads the file beside when there is no other.
LoadTmp == IF file # None THEN file ELSE IF tmp # None THEN tmp ELSE Nothing

\* LoadStore, Load: an absent file is an empty one.
Loaded == IF file = None THEN Nothing ELSE file

\* The bridge stops anywhere, in the middle of a write too, and starts again;
\* the Jeedom store is reconciled with the catalog and saved.
Restart ==
    /\ Spend("crashes")
    /\ tmp' \in {tmp} \cup (IF \E w \in Writers : th[w].pc = "write" THEN {Torn} ELSE {})
    /\ mem' = Loaded
    /\ lock' = None
    /\ \E main \in Writers :
          th' = [w \in Writers |-> IF kind = "jeedom" /\ w = main
                                   THEN [Idle EXCEPT !.pc = "save"] ELSE Idle]
    /\ done' = IF file = None THEN 0 ELSE done
    /\ failed' = FALSE /\ lost' = FALSE
    /\ UNCHANGED <<kind, file, count>>

Init ==
    /\ kind \in Kinds
    /\ mem = Nothing /\ file = None /\ tmp = None /\ lock = None
    /\ th = [w \in Writers |-> Idle]
    /\ count = 0 /\ done = 0 /\ failed = FALSE /\ lost = FALSE
    /\ spent = [what \in DOMAIN Limit |-> 0]

Saving(w) == TakeSnapshot(w) \/ Refuse(w) \/ WriteTmp(w) \/ RemoveFile(w) \/ RenameTmp(w)
Changing(w) == Learn(w) \/ Replace(w) \/ Store(w)

Next == (\E w \in Writers : Changing(w) \/ Saving(w)) \/ Restart

Spec == Init /\ [][Next]_vars
-----------------------------------------------------------------------------
Content == [ver : 0..count, list : Entries]

\* The types of the state; the lock is held exactly by the goroutine that writes.
TypeOK ==
    /\ kind \in Kinds /\ mem \in Content /\ file \in Content \cup {None, Torn}
    /\ tmp \in Content \cup {None, Torn}
    /\ \A w \in Writers : th[w].body \in Content /\ (lock = w <=> th[w].pc \in {"write", "remove", "rename"})
    /\ count \in 0..MaxChanges /\ done \in 0..count /\ failed \in BOOLEAN /\ lost \in BOOLEAN

\* A start never finds half a file, and finds what was saved, unless the bridge
\* stops, or the rename fails, in the gap between the removal of the old file and
\* the rename of the new one.
LossOnlyInGap ==
    /\ file # Torn
    /\ \/ file # None /\ file.ver >= done
       \/ done = 0 \/ lost
       \/ \E w \in Writers : th[w].pc = "rename"

\* The file is what the memory is whenever no save is under way and none has failed
\* since the memory was last written, whatever saves overlap and although a Jeedom
\* store changes while it is being saved (saveMu is taken before the snapshot).
FileIsMemory ==
    (\A w \in Writers : th[w].pc = "idle") /\ ~failed /\ mem.ver > 0 => file = mem

\* The catalog has one entry of a device of a zone, which is the one Lookup finds,
\* whichever of the editor and the events came first (findDeviceIndex).
OneEntry ==
    \A i, j \in DOMAIN mem.list :
        /\ mem.list[i] = mem.list[j] => i = j
        /\ mem.list[i].device # NoDevice => Lookup(mem.list, mem.list[i].zone, mem.list[i].device) = i

\* A file is a DurableValue: the removal of the old file opens the gap, the
\* rename of the new one closes it.
Durable == INSTANCE DurableValue WITH
    newest <- count, memory <- mem.ver, disk <- done, gap <- file = None /\ done # 0
\* Whichever goroutines save at once, the file moves to the same or a newer
\* change only, and a start takes up what the last save that succeeded wrote
\* (saveMu, the catalog's and the settings' mutex, LoadStore).
DurableSpec == Durable!DurableSpec
=============================================================================
