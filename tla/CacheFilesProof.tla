--------------------------- MODULE CacheFilesProof ---------------------------
(***************************************************************************)
(* Theorems about CacheFiles for any number of goroutines, changes,        *)
(* failures and crashes.                                                   *)
(***************************************************************************)
EXTENDS CacheFiles, TLAPS

Contents == [ver : Nat, list : Entries]
Phases == {"idle", "save", "write", "remove", "rename"}
Writing(w) == th[w].pc \in {"write", "remove", "rename"}

\* The types of the state, as the argument needs them.
Types ==
    /\ kind \in Kinds /\ mem \in Contents
    /\ file \in Contents \cup {None} /\ tmp \in Contents \cup {None, Torn}
    /\ th \in [Writers -> [pc : Phases, body : Contents]]
    /\ count \in 0..MaxChanges /\ done \in Nat
    /\ failed \in BOOLEAN /\ lost \in BOOLEAN

\* Nothing in memory or on its way is newer than the last change.
Known == mem.ver <= count /\ done <= count /\ \A w \in Writers : th[w].body.ver <= count
KnownFiles == /\ file # None => file.ver <= count
              /\ tmp \in Contents => tmp.ver <= count

Locked == \A w \in Writers : lock = w <=> Writing(w)

\* What lies beside the file is what its writer is about to put into place.
Beside == \A w \in Writers : th[w].pc \in {"remove", "rename"} => tmp = th[w].body

\* The file is the last one saved, or it has just been removed.
Saved == IF file # None THEN file.ver = done
         ELSE done = 0 \/ lost \/ \E w \in Writers : th[w].pc = "rename"

\* The memory is in the file, or going to be.
Kept ==
    ~failed /\ mem.ver > 0 =>
        \/ file = mem /\ \A w \in Writers : ~Writing(w)
        \/ \E w \in Writers : th[w].pc = "save"
        \/ \E w \in Writers : Writing(w) /\ th[w].body = mem

Inv == Types /\ Known /\ KnownFiles /\ Locked /\ Beside /\ Saved /\ Kept
-----------------------------------------------------------------------------
(* Types of what the operations compute                                    *)

LEMMA UpsertTypes ==
    ASSUME NEW list \in Entries, NEW z \in Zones, NEW d \in Devices \cup {NoDevice}
    PROVE  UpsertFromEvent(list, z, d) \in Entries
<1> DEFINE i == findDeviceIndex(list, z, d)
           E == [zone : Zones, device : Devices \cup {NoDevice}]
<1>1. Append(list, Entry(z, d)) \in Entries
  BY DEF Entries, Entry
<1>2. list \in Seq(E)
  BY DEF Entries
<1> HIDE DEF i
<1>3. [list EXCEPT ![i].device = IF @ = NoDevice THEN d ELSE @] \in Seq(E)
  <2> DEFINE new == [list EXCEPT ![i].device = IF @ = NoDevice THEN d ELSE @]
  <2>1. CASE i \in DOMAIN list
    <3>1. list[i] \in E
      <4> HIDE DEF E
      <4> QED
        BY <1>2, <2>1
    <3>2. [list[i] EXCEPT !.device = IF @ = NoDevice THEN d ELSE @] \in E
      BY <3>1
    <3>3. new = [list EXCEPT ![i] = [list[i] EXCEPT !.device = IF @ = NoDevice THEN d ELSE @]]
      BY <2>1
    <3> HIDE DEF new, E
    <3> QED
      BY <1>2, <2>1, <3>2, <3>3 DEF new
  <2>2. CASE i \notin DOMAIN list
    <3>1. new = list
      BY <1>2, <2>2
    <3> QED
      BY <1>2, <3>1
  <2> QED
    BY <2>1, <2>2
<1> QED
  BY <1>1, <1>3 DEF UpsertFromEvent, Entries, i

LEMMA ThreadTypes ==
    ASSUME Types, NEW w \in Writers
    PROVE  /\ th[w].pc \in Phases /\ th[w].body \in Contents
           /\ \A p \in Phases : [th EXCEPT ![w].pc = p] \in [Writers -> [pc : Phases, body : Contents]]
           /\ \A p \in Phases, b \in Contents :
                 [th EXCEPT ![w] = [pc |-> p, body |-> b]] \in [Writers -> [pc : Phases, body : Contents]]
BY DEF Types

LEMMA NothingTypes == Nothing \in Contents /\ Nothing.ver = 0
BY DEF Nothing, Contents, Entries

LEMMA InvInit == Init => Inv
<1> SUFFICES ASSUME Init PROVE Inv
  OBVIOUS
<1>1. Types
  <2>1. Idle \in [pc : Phases, body : Contents]
    BY NothingTypes DEF Idle, Phases
  <2>2. th \in [Writers -> [pc : Phases, body : Contents]]
    BY <2>1 DEF Init
  <2>3. kind \in Kinds /\ mem \in Contents /\ file = None /\ tmp = None
    BY NothingTypes DEF Init
  <2>4. count \in 0..MaxChanges /\ done \in Nat
    BY ListsAreEntries DEF Init
  <2>5. failed \in BOOLEAN /\ lost \in BOOLEAN
    BY DEF Init
  <2> QED
    BY <2>2, <2>3, <2>4, <2>5 DEF Types
<1>2. Known /\ KnownFiles
  BY NothingTypes, NoContent DEF Init, Known, KnownFiles, Idle, Contents
<1>3. Locked /\ Beside
  BY NoContent DEF Init, Locked, Beside, Writing, Idle
<1>4. Saved /\ Kept
  BY NothingTypes DEF Init, Saved, Kept
<1> QED
  BY <1>1, <1>2, <1>3, <1>4 DEF Inv
-----------------------------------------------------------------------------
(* A change                                                                *)

LEMMA ChangeKeeps ==
    ASSUME Inv, NEW w \in Writers, NEW list \in Entries, Change(w, list)
    PROVE  Inv'
<1> USE DEF Inv
<1> DEFINE pc == IF kind = "jeedom" THEN "save" ELSE "write"
<1>1. /\ mem' = [ver |-> count + 1, list |-> list] /\ count' = count + 1
      /\ th' = [th EXCEPT ![w] = [pc |-> pc, body |-> mem']]
      /\ UNCHANGED <<kind, file, tmp, done, failed, lost>>
  BY DEF Change, files, ghosts
<1>2. count \in Nat /\ count + 1 \in 0..MaxChanges
  BY ListsAreEntries DEF Types, Change
<1>3. mem' \in Contents /\ mem'.ver = count + 1
  BY <1>1, <1>2 DEF Contents
<1>4. th'[w].pc = pc /\ th'[w].body = mem' /\ \A v \in Writers \ {w} : th'[v] = th[v]
  BY <1>1 DEF Types
<1>5. Types'
  BY <1>1, <1>2, <1>3, ThreadTypes DEF Types, Phases
<1>6. Known' /\ KnownFiles'
  <2>1. \A v \in Writers : th[v].body.ver \in Nat /\ th[v].body.ver <= count
    BY ThreadTypes DEF Known, Contents
  <2>2. (file # None => file.ver \in Nat) /\ (tmp \in Contents => tmp.ver \in Nat) /\ done \in Nat
    BY DEF Types, Contents
  <2> QED
    BY <1>1, <1>2, <1>3, <1>4, <2>1, <2>2 DEF Known, KnownFiles
<1>7. Locked'
  <2>1. ~Writing(w) /\ (kind # "jeedom" => lock = None)
    BY DEF Change, Writing
  <2>2. lock' = IF kind = "jeedom" THEN lock ELSE w
    BY DEF Change
  <2> QED
    BY <1>4, <2>1, <2>2, NoContent DEF Locked, Writing
<1>8. Beside'
  BY <1>1, <1>4 DEF Beside
<1>9. Saved'
  <2>1. th[w].pc = "idle"
    BY DEF Change
  <2> QED
    BY <1>1, <1>4, <2>1 DEF Saved
<1>10. Kept'
  BY <1>4 DEF Kept, Writing
<1> QED
  BY <1>5, <1>6, <1>7, <1>8, <1>9, <1>10
-----------------------------------------------------------------------------
(* A save                                                                  *)

LEMMA TakeSnapshotKeeps ==
    ASSUME Inv, NEW w \in Writers, TakeSnapshot(w)
    PROVE  Inv'
<1> USE DEF Inv
<1>1. /\ th[w].pc = "save" /\ lock = None /\ lock' = w
      /\ th' = [th EXCEPT ![w] = [pc |-> "write", body |-> mem]]
      /\ UNCHANGED <<kind, mem, file, tmp, count, done, failed, lost>>
  BY DEF TakeSnapshot, files, ghosts
<1>2. th'[w].pc = "write" /\ th'[w].body = mem /\ \A v \in Writers \ {w} : th'[v] = th[v]
  BY <1>1 DEF Types
<1>3. Types'
  BY <1>1, ThreadTypes DEF Types, Phases
<1>4. Known' /\ KnownFiles'
  BY <1>1, <1>2 DEF Known, KnownFiles
<1>5. Locked'
  BY <1>1, <1>2, NoContent DEF Locked, Writing
<1>6. Beside' /\ Saved'
  BY <1>1, <1>2 DEF Beside, Saved
<1>7. Kept'
  BY <1>1, <1>2 DEF Kept, Writing
<1> QED
  BY <1>3, <1>4, <1>5, <1>6, <1>7

LEMMA SaveFailsKeeps ==
    ASSUME Inv, NEW w \in Writers, SaveFails(w), th[w].pc \in {"save", "write", "rename"},
           UNCHANGED <<kind, mem, file, count, done>>,
           tmp' = tmp \/ (th[w].pc = "write" /\ tmp' = Torn),
           lost' \in BOOLEAN, lost => lost', th[w].pc = "rename" /\ file = None => lost'
    PROVE  Inv'
<1> USE DEF Inv
<1>1. failed' = TRUE /\ th' = [th EXCEPT ![w] = Idle] /\ lock' = IF lock = w THEN None ELSE lock
  BY DEF SaveFails
<1>2. th'[w].pc = "idle" /\ th'[w].body = Nothing /\ \A v \in Writers \ {w} : th'[v] = th[v]
  BY <1>1 DEF Types, Idle
<1>3. Types'
  <2>1. th' \in [Writers -> [pc : Phases, body : Contents]]
    BY <1>1, ThreadTypes, NothingTypes DEF Idle, Phases
  <2>2. lost' \in BOOLEAN /\ failed' \in BOOLEAN
    BY <1>1
  <2>3. tmp' \in Contents \cup {None, Torn}
    BY DEF Types
  <2> QED
    BY <2>1, <2>2, <2>3 DEF Types
<1>4. Known' /\ KnownFiles'
  BY <1>2, NothingTypes, NoContent DEF Known, KnownFiles, Types, Contents
<1>5. Locked'
  BY <1>1, <1>2, NoContent DEF Locked, Writing
<1>6. Beside'
  <2>1. ASSUME NEW v \in Writers, th'[v].pc \in {"remove", "rename"} PROVE tmp' = th'[v].body
    <3>1. v # w /\ th'[v] = th[v] /\ tmp = th[v].body
      BY <1>2, <2>1 DEF Beside
    <3>2. th[w].pc # "write"
      BY <2>1, <3>1 DEF Locked, Writing
    <3> QED
      BY <3>1, <3>2
  <2> QED
    BY <2>1 DEF Beside
<1>7. Saved'
  BY <1>2 DEF Saved
<1>8. Kept'
  BY <1>1 DEF Kept
<1> QED
  BY <1>3, <1>4, <1>5, <1>6, <1>7, <1>8

\* The next step of a save that holds the lock.
LEMMA PhaseFacts ==
    ASSUME Inv, NEW w \in Writers, NEW p \in Phases, Goto(w, p)
    PROVE  /\ th'[w].pc = p /\ th'[w].body = th[w].body /\ \A v \in Writers \ {w} : th'[v] = th[v]
           /\ th' \in [Writers -> [pc : Phases, body : Contents]]
<1>1. th \in [Writers -> [pc : Phases, body : Contents]] /\ th[w] \in [pc : Phases, body : Contents]
  BY DEF Inv, Types
<1>2. th' \in [Writers -> [pc : Phases, body : Contents]]
  BY ThreadTypes DEF Inv, Goto
<1> QED
  BY <1>1, <1>2 DEF Goto

LEMMA WriteTmpKeeps ==
    ASSUME Inv, NEW w \in Writers, WriteTmp(w)
    PROVE  Inv'
<1> USE DEF Inv
<1>1. CASE SaveFails(w) /\ tmp' \in {tmp, Torn}
  <2>1. /\ th[w].pc = "write" /\ UNCHANGED <<kind, mem, file, count, done>> /\ lost' = lost
        /\ tmp' = tmp \/ tmp' = Torn
    BY <1>1 DEF WriteTmp
  <2>2. lost' \in BOOLEAN /\ (lost => lost') /\ (th[w].pc = "rename" /\ file = None => lost')
    BY <2>1 DEF Types
  <2>3. th[w].pc \in {"save", "write", "rename"} /\ (tmp' = tmp \/ (th[w].pc = "write" /\ tmp' = Torn))
    BY <2>1
  <2> QED
    BY <1>1, <2>1, <2>2, <2>3, SaveFailsKeeps, Zenon
<1>2. CASE tmp' = th[w].body /\ Goto(w, "remove") /\ UNCHANGED <<lock, failed, spent>>
  <2>1. /\ th'[w].pc = "remove" /\ th'[w].body = th[w].body
        /\ \A v \in Writers \ {w} : th'[v] = th[v]
        /\ th' \in [Writers -> [pc : Phases, body : Contents]]
    BY <1>2, PhaseFacts DEF Phases
  <2>2. UNCHANGED <<kind, mem, file, count, done, lost, lock, failed>> /\ th[w].pc = "write"
    BY <1>2 DEF WriteTmp
  <2>3. Types'
    BY <1>2, <2>1, <2>2, ThreadTypes DEF Types
  <2>4. Known' /\ KnownFiles'
    BY <1>2, <2>1, <2>2 DEF Known, KnownFiles
  <2>5. Locked'
    BY <2>1, <2>2 DEF Locked, Writing
  <2>6. Beside'
    BY <1>2, <2>1, <2>2 DEF Beside, Locked, Writing
  <2>7. Saved' /\ Kept'
    BY <2>1, <2>2 DEF Saved, Kept, Writing
  <2> QED
    BY <2>3, <2>4, <2>5, <2>6, <2>7
<1> QED
  BY <1>1, <1>2 DEF WriteTmp

LEMMA RemoveFileKeeps ==
    ASSUME Inv, NEW w \in Writers, RemoveFile(w)
    PROVE  Inv'
<1> USE DEF Inv
<1>1. /\ th'[w].pc = "rename" /\ th'[w].body = th[w].body
      /\ \A v \in Writers \ {w} : th'[v] = th[v]
      /\ th' \in [Writers -> [pc : Phases, body : Contents]]
  BY PhaseFacts DEF RemoveFile, Phases
<1>2. /\ UNCHANGED <<kind, mem, tmp, lock, count, done, failed, lost>> /\ th[w].pc = "remove"
      /\ file' = None \/ file' = file
  BY DEF RemoveFile, ghosts
<1>3. Types'
  BY <1>1, <1>2 DEF Types
<1>4. Known' /\ KnownFiles'
  BY <1>1, <1>2 DEF Known, KnownFiles
<1>5. Locked' /\ Beside'
  BY <1>1, <1>2 DEF Locked, Beside, Writing
<1>6. Saved'
  BY <1>1, <1>2 DEF Saved
<1>7. Kept'
  BY <1>1, <1>2 DEF Kept, Writing
<1> QED
  BY <1>3, <1>4, <1>5, <1>6, <1>7

LEMMA RenameTmpKeeps ==
    ASSUME Inv, NEW w \in Writers, RenameTmp(w)
    PROVE  Inv'
<1> USE DEF Inv
<1>1. CASE SaveFails(w) /\ lost' = (lost \/ file = None) /\ UNCHANGED <<files, done>>
  <2>1. th[w].pc = "rename" /\ UNCHANGED <<kind, mem, file, tmp, count, done>>
    BY <1>1 DEF RenameTmp, files
  <2>2. lost' \in BOOLEAN /\ (lost => lost') /\ (th[w].pc = "rename" /\ file = None => lost')
    BY <1>1, <2>1 DEF Types
  <2>3. th[w].pc \in {"save", "write", "rename"} /\ (tmp' = tmp \/ (th[w].pc = "write" /\ tmp' = Torn))
    BY <2>1
  <2> QED
    BY <1>1, <2>1, <2>2, <2>3, SaveFailsKeeps, Zenon
<1>2. CASE Renamed(w) /\ lock' = None /\ UNCHANGED spent
  <2> DEFINE body == th[w].body
  <2>1. /\ file' = tmp /\ tmp' = None /\ done' = body.ver /\ lost' = FALSE
        /\ failed' = (failed /\ body # mem) /\ th' = [th EXCEPT ![w] = Idle]
        /\ UNCHANGED <<kind, mem, count>> /\ th[w].pc = "rename" /\ lock' = None
    BY <1>2 DEF RenameTmp, Renamed
  <2>2. tmp = body /\ body \in Contents /\ body # None /\ lock = w
    BY <2>1, ThreadTypes, NoContent DEF Beside, Locked, Writing, Contents
  <2>3. th'[w].pc = "idle" /\ th'[w].body = Nothing /\ \A v \in Writers \ {w} : th'[v] = th[v]
    BY <2>1 DEF Types, Idle
  <2>4. \A v \in Writers \ {w} : ~Writing(v)
    BY <2>2 DEF Locked
  <2>5. Types'
    <3>1. th' \in [Writers -> [pc : Phases, body : Contents]]
      BY <2>1, ThreadTypes, NothingTypes DEF Idle, Phases
    <3>2. body.ver \in Nat
      BY <2>2 DEF Contents
    <3> QED
      BY <2>1, <2>2, <3>1, <3>2 DEF Types
  <2>6. Known' /\ KnownFiles'
    <3>1. body.ver <= count /\ count \in Nat
      BY ListsAreEntries DEF Known, Types
    <3> QED
      BY <2>1, <2>2, <2>3, <3>1, NothingTypes, NoContent DEF Known, KnownFiles, Contents
  <2>7. Locked' /\ Beside'
    BY <2>1, <2>3, <2>4, NoContent DEF Locked, Beside, Writing
  <2>8. Saved'
    BY <2>1, <2>2 DEF Saved
  <2>9. Kept'
    <3>1. CASE body = mem
      BY <2>1, <2>2, <2>3, <2>4, <3>1 DEF Kept, Writing
    <3>2. CASE body # mem
      <4>1. Writing(w)
        BY <2>1 DEF Writing
      <4>2. ~failed' /\ mem'.ver > 0 => \E v \in Writers \ {w} : th[v].pc = "save"
        BY <2>1, <2>4, <3>2, <4>1 DEF Kept
      <4> QED
        BY <2>3, <4>2 DEF Kept
    <3> QED
      BY <3>1, <3>2
  <2> QED
    BY <2>5, <2>6, <2>7, <2>8, <2>9
<1> QED
  BY <1>1, <1>2 DEF RenameTmp

LEMMA RestartKeeps ==
    ASSUME Inv, Restart
    PROVE  Inv'
<1> USE DEF Inv
<1>1. PICK main \in Writers :
        th' = [w \in Writers |-> IF kind = "jeedom" /\ w = main
                                 THEN [Idle EXCEPT !.pc = "save"] ELSE Idle]
  BY DEF Restart
<1>2. /\ \A w \in Writers : th'[w].pc \in {"idle", "save"} /\ th'[w].body = Nothing
      /\ th' \in [Writers -> [pc : Phases, body : Contents]]
  BY <1>1, NothingTypes DEF Idle, Phases
<1>3. /\ UNCHANGED <<kind, file, count>> /\ mem' = Loaded /\ lock' = None
      /\ tmp' \in {tmp, Torn} /\ done' = (IF file = None THEN 0 ELSE done)
      /\ failed' = FALSE /\ lost' = FALSE
  BY DEF Restart
<1>4. Types'
  BY <1>2, <1>3, NothingTypes DEF Types, Loaded
<1>5. Known' /\ KnownFiles'
  <2>1. count \in Nat
    BY ListsAreEntries DEF Types
  <2> QED
    BY <1>2, <1>3, <2>1, NothingTypes, NoContent DEF Known, KnownFiles, Loaded, Types, Contents
<1>6. Locked' /\ Beside'
  BY <1>2, <1>3, NoContent DEF Locked, Beside, Writing
<1>7. Saved'
  BY <1>3 DEF Saved
<1>8. Kept'
  BY <1>2, <1>3, NothingTypes DEF Kept, Loaded, Writing
<1> QED
  BY <1>4, <1>5, <1>6, <1>7, <1>8
-----------------------------------------------------------------------------
(* Theorems                                                                *)

LEMMA InvStep == Inv /\ [Next]_vars => Inv'
<1> SUFFICES ASSUME Inv, [Next]_vars PROVE Inv'
  OBVIOUS
<1>1. ASSUME NEW w \in Writers, Changing(w) PROVE Inv'
  <2>1. <<>> \in Entries /\ mem.list \in Entries
    BY DEF Entries, Inv, Types, Contents
  <2>2. \E list \in Entries : Change(w, list)
    BY <1>1, <2>1, UpsertTypes, ListsAreEntries DEF Changing, Learn, Replace, Store
  <2> QED
    BY <2>2, ChangeKeeps
<1>2. ASSUME NEW w \in Writers, Refuse(w) PROVE Inv'
  <2>1. /\ SaveFails(w) /\ th[w].pc = "save" /\ lost' = lost
        /\ UNCHANGED <<kind, mem, file, tmp, count, done>>
    BY <1>2 DEF Refuse, files
  <2>2. lost' \in BOOLEAN /\ (lost => lost') /\ (th[w].pc = "rename" /\ file = None => lost')
    BY <2>1 DEF Inv, Types
  <2> QED
    BY <2>1, <2>2, SaveFailsKeeps, Zenon
<1>3. ASSUME NEW w \in Writers, Saving(w) PROVE Inv'
  BY <1>2, <1>3, TakeSnapshotKeeps, WriteTmpKeeps, RemoveFileKeeps, RenameTmpKeeps DEF Saving
<1>4. CASE UNCHANGED vars
  <2>1. UNCHANGED <<kind, mem, file, tmp, lock, th>> /\ UNCHANGED <<count, done, failed, lost>>
    BY <1>4 DEF vars, files, ghosts
  <2> QED
    BY <2>1 DEF Inv, Types, Known, KnownFiles, Locked, Beside, Saved, Kept, Writing
<1> QED
  BY <1>1, <1>3, <1>4, RestartKeeps DEF Next

LEMMA Invariance == Spec => []Inv
BY InvInit, InvStep, PTL DEF Spec

\* However many goroutines save the Jeedom mirror or the catalog at once, the
\* contents in memory and in the files are well formed, and the lock is held by
\* the one that writes and by no other.
THEOREM FilesTypes == Spec => []TypeOK
<1>1. Inv => TypeOK
  <2> SUFFICES ASSUME Inv PROVE TypeOK
    OBVIOUS
  <2>1. \A x \in Contents : x.ver <= count => x \in Content
    BY ListsAreEntries DEF Contents, Content, Inv, Types
  <2>2. mem \in Content /\ file \in Content \cup {None, Torn} /\ tmp \in Content \cup {None, Torn}
    BY <2>1, NoContent DEF Inv, Types, Known, KnownFiles
  <2>3. \A w \in Writers : th[w].body \in Content
    BY <2>1, ThreadTypes DEF Inv, Known
  <2>4. count \in 0..MaxChanges /\ done \in 0..count
    BY ListsAreEntries DEF Inv, Types, Known
  <2> QED
    BY <2>2, <2>3, <2>4 DEF TypeOK, Inv, Types, Locked, Writing
<1> QED
  BY <1>1, Invariance, PTL

\* The file a start reads is never half written, and is not older than the last
\* save that succeeded, unless the gap between removing and renaming was hit.
THEOREM SavedIsFound == Spec => []LossOnlyInGap
<1>1. Inv => LossOnlyInGap
  <2> SUFFICES ASSUME Inv PROVE LossOnlyInGap
    OBVIOUS
  <2>1. file # Torn
    BY NoContent DEF Inv, Types, Contents
  <2>2. file # None => file.ver >= done
    BY DEF Inv, Types, Saved
  <2> QED
    BY <2>1, <2>2 DEF Inv, Saved, LossOnlyInGap
<1> QED
  BY <1>1, Invariance, PTL

\* When no save is under way and none has failed since, the file is the memory,
\* whatever saves and changes of any number of goroutines overlapped.
THEOREM FileCatchesUp == Spec => []FileIsMemory
<1>1. Inv => FileIsMemory
  BY DEF Inv, Kept, Writing, FileIsMemory
<1> QED
  BY <1>1, Invariance, PTL

-----------------------------------------------------------------------------
(* The abstract specification                                              *)

\* What a save writes is no older than what was saved, and no newer than the memory.
InTurn ==
    /\ done <= mem.ver
    /\ \A w \in Writers : Writing(w) => done <= th[w].body.ver /\ th[w].body.ver <= mem.ver

Gap == file = None /\ done # 0
DurableStep == [Durable!DurableNext]_(Durable!durableVars)

LEMMA Versions ==
    ASSUME Inv
    PROVE  /\ mem.ver \in Nat /\ count \in Nat /\ done \in Nat /\ mem.ver <= count
           /\ \A w \in Writers : th[w].body.ver \in Nat
           /\ file # None => file.ver = done
<1>1. mem.ver \in Nat /\ \A w \in Writers : th[w].body.ver \in Nat
  BY ThreadTypes DEF Inv, Types, Contents
<1> QED
  BY <1>1, ListsAreEntries DEF Inv, Types, Known, Saved

\* Goroutines other than w keep their place and their body.
LEMMA OthersInTurn ==
    ASSUME Inv, InTurn, NEW w \in Writers, \A v \in Writers \ {w} : th'[v] = th[v],
           UNCHANGED <<mem, done>>,
           Writing(w)' => done <= th'[w].body.ver /\ th'[w].body.ver <= mem.ver
    PROVE  InTurn'
BY DEF InTurn, Writing

LEMMA ChangeDurable ==
    ASSUME Inv, InTurn, NEW w \in Writers, NEW list \in Entries, Change(w, list)
    PROVE  InTurn' /\ DurableStep
<1>1. /\ count' = count + 1 /\ mem' = [ver |-> count + 1, list |-> list]
      /\ UNCHANGED <<file, done>> /\ (kind = "jeedom" \/ lock = None)
  BY DEF Change, files, ghosts
<1>2. th' = [th EXCEPT ![w] = [pc |-> IF kind = "jeedom" THEN "save" ELSE "write", body |-> mem']]
  BY DEF Change
<1>3. th'[w].body = mem' /\ \A v \in Writers \ {w} : th'[v] = th[v]
  BY <1>2 DEF Inv, Types
<1>4. mem'.ver = count + 1
  BY <1>1
<1>5. InTurn'
  <2>1. done' <= mem'.ver
    BY <1>1, <1>4, Versions DEF InTurn
  <2>2. ASSUME NEW v \in Writers, Writing(v)'
        PROVE  done' <= th'[v].body.ver /\ th'[v].body.ver <= mem'.ver
    <3>1. CASE v = w
      BY <1>3, <1>4, <2>1, <3>1, Versions
    <3>2. CASE v # w
      BY <1>1, <1>3, <1>4, <2>2, <3>2, Versions DEF InTurn, Writing
    <3> QED
      BY <3>1, <3>2
  <2> QED
    BY <2>1, <2>2 DEF InTurn
<1>6. Durable!ChangeMemory
  BY <1>1, <1>4 DEF Durable!ChangeMemory
<1> QED
  BY <1>5, <1>6 DEF DurableStep, Durable!DurableNext

LEMMA SavingDurable ==
    ASSUME Inv, InTurn, NEW w \in Writers, Saving(w)
    PROVE  InTurn' /\ DurableStep
<1>0. th \in [Writers -> [pc : Phases, body : Contents]]
  BY DEF Inv, Types
<1>1. ASSUME UNCHANGED <<count, mem, done, file>> PROVE DurableStep
  BY <1>1 DEF DurableStep, Durable!durableVars
<1>2. ASSUME SaveFails(w), UNCHANGED <<mem, done>> PROVE InTurn'
  <2>1. th'[w] = Idle /\ \A v \in Writers \ {w} : th'[v] = th[v]
    BY <1>0, <1>2 DEF SaveFails
  <2> QED
    BY <1>2, <2>1, OthersInTurn DEF Idle, Writing
<1>3. ASSUME NEW p \in Phases, Goto(w, p), Writing(w), UNCHANGED <<mem, done>> PROVE InTurn'
  <2>1. th'[w].body = th[w].body /\ \A v \in Writers \ {w} : th'[v] = th[v]
    BY <1>3, PhaseFacts
  <2>2. done <= th[w].body.ver /\ th[w].body.ver <= mem.ver
    BY <1>3 DEF InTurn
  <2> QED
    BY <1>3, <2>1, <2>2, OthersInTurn
<1>4. CASE TakeSnapshot(w)
  <2>1. /\ th'[w].body = mem /\ \A v \in Writers \ {w} : th'[v] = th[v]
        /\ UNCHANGED <<count, mem, done, file>>
    BY <1>0, <1>4 DEF TakeSnapshot, files, ghosts
  <2>2. done <= th'[w].body.ver /\ th'[w].body.ver <= mem.ver
    BY <2>1, Versions DEF InTurn
  <2> QED
    BY <1>1, <2>1, <2>2, OthersInTurn
<1>5. CASE Refuse(w)
  BY <1>1, <1>2, <1>5 DEF Refuse, files
<1>6. CASE WriteTmp(w)
  <2>1. UNCHANGED <<count, mem, done, file>> /\ Writing(w)
    BY <1>6 DEF WriteTmp, Writing
  <2>2. SaveFails(w) \/ Goto(w, "remove")
    BY <1>6 DEF WriteTmp
  <2> QED
    BY <1>1, <1>2, <1>3, <2>1, <2>2 DEF Phases
<1>7. CASE RemoveFile(w)
  <2>1. UNCHANGED <<count, mem, done>> /\ Writing(w) /\ Goto(w, "rename")
    BY <1>7 DEF RemoveFile, Writing, ghosts
  <2>2. InTurn'
    BY <1>3, <2>1 DEF Phases
  <2>3. file' = None \/ file' = file
    BY <1>7 DEF RemoveFile
  <2>4. CASE file' = None /\ done # 0
    <3>1. Gap'
      BY <2>1, <2>4 DEF Gap
    <3>2. Durable!TakeAway
      BY <2>1, <2>4, <3>1 DEF Gap, Durable!TakeAway
    <3> QED
      BY <2>2, <3>2 DEF DurableStep, Durable!DurableNext
  <2>5. CASE file' = file \/ done = 0
    BY <2>1, <2>2, <2>5 DEF DurableStep, Durable!durableVars
  <2> QED
    BY <2>3, <2>4, <2>5
<1>8. CASE RenameTmp(w)
  <2>1. CASE SaveFails(w) /\ UNCHANGED <<files, done>>
    <3>1. UNCHANGED <<count, mem, done, file>>
      BY <1>8, <2>1 DEF RenameTmp, files
    <3> QED
      BY <1>1, <1>2, <2>1, <3>1
  <2>2. CASE Renamed(w)
    <3> DEFINE v == th[w].body.ver
    <3>1. /\ file' = tmp /\ done' = v /\ th' = [th EXCEPT ![w] = Idle]
          /\ UNCHANGED <<count, mem>> /\ Writing(w) /\ th[w].pc = "rename"
      BY <1>8, <2>2 DEF RenameTmp, Renamed, Writing
    <3>2. done <= v /\ v <= mem.ver /\ v \in 0..count
      BY <3>1, Versions DEF InTurn
    <3>3. file' # None
      BY <3>1, ThreadTypes, NoContent DEF Inv, Beside, Contents
    <3>4. \A u \in Writers : ~Writing(u)'
      <4>1. \A u \in Writers \ {w} : ~Writing(u)
        BY <3>1 DEF Inv, Locked
      <4> QED
        BY <3>1, <4>1, <1>0 DEF Writing, Idle
    <3>5. InTurn'
      BY <3>1, <3>2, <3>4 DEF InTurn
    <3> HIDE DEF v
    <3>6. Durable!PutInPlace(v)
      BY <3>1, <3>2, <3>3 DEF Durable!PutInPlace
    <3> QED
      BY <3>2, <3>5, <3>6 DEF DurableStep, Durable!DurableNext
  <2> QED
    BY <1>8, <2>1, <2>2 DEF RenameTmp
<1> QED
  BY <1>4, <1>5, <1>6, <1>7, <1>8 DEF Saving

LEMMA RestartDurable ==
    ASSUME Inv, InTurn, Restart
    PROVE  InTurn' /\ DurableStep
<1>1. /\ mem' = Loaded /\ done' = (IF file = None THEN 0 ELSE done)
      /\ UNCHANGED <<count, file>>
  BY DEF Restart
<1>2. \A w \in Writers : ~Writing(w)'
  BY DEF Restart, Idle, Writing
<1>3. mem'.ver = done'
  BY <1>1, Versions, NothingTypes DEF Loaded
<1>4. InTurn'
  BY <1>1, <1>2, <1>3, Versions DEF InTurn
<1>5. CASE Gap
  <2>1. mem'.ver = 0 /\ done' = 0 /\ ~Gap'
    BY <1>1, <1>3, <1>5 DEF Gap
  <2>2. Durable!RestartInGap
    BY <1>1, <1>5, <2>1 DEF Gap, Durable!RestartInGap
  <2> QED
    BY <1>4, <2>2 DEF DurableStep, Durable!DurableNext
<1>6. CASE ~Gap
  <2>1. done' = done /\ ~Gap'
    BY <1>1, <1>6 DEF Gap
  <2>2. Durable!Restart
    BY <1>1, <1>3, <1>6, <2>1 DEF Gap, Durable!Restart
  <2> QED
    BY <1>4, <2>2 DEF DurableStep, Durable!DurableNext
<1> QED
  BY <1>5, <1>6

\* A file of the bridge is a durable value: it never moves to an older change,
\* however many goroutines save at once, and a start takes up what the last save
\* that succeeded wrote, or nothing if the bridge stopped between a removal and
\* its rename.
THEOREM FilesAreDurable == Spec => DurableSpec
<1>1. Init => InTurn /\ Durable!DurableInit
  BY NothingTypes DEF Init, InTurn, Idle, Writing, Durable!DurableInit
<1>2. Inv /\ InTurn /\ [Next]_vars => InTurn' /\ DurableStep
  <2> SUFFICES ASSUME Inv, InTurn, [Next]_vars PROVE InTurn' /\ DurableStep
    OBVIOUS
  <2>1. ASSUME NEW w \in Writers, Changing(w) PROVE InTurn' /\ DurableStep
    <3>1. <<>> \in Entries /\ mem.list \in Entries
      BY DEF Entries, Inv, Types, Contents
    <3>2. \E list \in Entries : Change(w, list)
      BY <2>1, <3>1, UpsertTypes, ListsAreEntries DEF Changing, Learn, Replace, Store
    <3> QED
      BY <3>2, ChangeDurable
  <2>2. CASE UNCHANGED vars
    BY <2>2 DEF vars, files, ghosts, InTurn, Writing, DurableStep, Durable!durableVars
  <2> QED
    BY <2>1, <2>2, SavingDurable, RestartDurable DEF Next
<1> QED
  BY <1>1, <1>2, Invariance, PTL DEF Spec, DurableStep, DurableSpec, Durable!DurableSpec

-----------------------------------------------------------------------------
(* One entry of a device                                                   *)

\* No entry twice. Replace keeps what the editor sends, and rejects no double
\* (catalog.go:110): an editor that sends an entry twice has it twice.
Distinct(list) == \A i, j \in DOMAIN list : list[i] = list[j] => i = j
EditorListsDistinct == \A list \in Lists : Distinct(list)

DistinctInv ==
    /\ Distinct(mem.list)
    /\ file # None => Distinct(file.list)
    /\ \A w \in Writers : Distinct(th[w].body.list)

\* The smallest and the largest index of one are that one.
LEMMA OnlyIndex ==
    ASSUME NEW i \in Nat
    PROVE  Min({i}) = i /\ Max({i}) = i
BY DEF Min, Max

\* findDeviceIndex: 0 when neither the device nor its zone has an entry.
LEMMA FoundIndex ==
    ASSUME NEW list \in Entries, Distinct(list),
           NEW z \in Zones, NEW d \in Devices \cup {NoDevice}
    PROVE  LET i == findDeviceIndex(list, z, d) IN
           \/ i = 0 /\ \A j \in DOMAIN list : list[j] # Entry(z, d)
           \/ i \in DOMAIN list /\ list[i] = Entry(z, d)
           \/ /\ i \in DOMAIN list /\ list[i] = Entry(z, NoDevice)
              /\ \A j \in DOMAIN list : list[j] # Entry(z, d)
<1> DEFINE exact == {i \in DOMAIN list : list[i] = Entry(z, d) /\ d # NoDevice}
           zone == {i \in DOMAIN list : list[i] = Entry(z, NoDevice)}
<1>1. findDeviceIndex(list, z, d) =
          IF exact # {} THEN Min(exact) ELSE IF zone # {} THEN Min(zone) ELSE 0
  BY DEF findDeviceIndex
<1>2. DOMAIN list \subseteq Nat
  BY DEF Entries
<1>3. CASE exact # {}
  <2>1. PICK i \in exact : TRUE
    BY <1>3
  <2>2. exact = {i}
    BY <2>1 DEF Distinct
  <2>3. Min(exact) = i
    BY <1>2, <2>1, <2>2, OnlyIndex
  <2> QED
    BY <1>1, <1>3, <2>1, <2>3
<1>4. CASE exact = {} /\ zone # {}
  <2>1. PICK i \in zone : TRUE
    BY <1>4
  <2>2. zone = {i}
    BY <2>1 DEF Distinct
  <2>3. Min(zone) = i
    BY <1>2, <2>1, <2>2, OnlyIndex
  <2>4. findDeviceIndex(list, z, d) = i /\ list[i] = Entry(z, NoDevice) /\ i \in DOMAIN list
    BY <1>1, <1>4, <2>1, <2>3
  <2>5. d # NoDevice => \A j \in DOMAIN list : list[j] # Entry(z, d)
    BY <1>4
  <2> QED
    BY <2>4, <2>5
<1>5. CASE exact = {} /\ zone = {}
  BY <1>1, <1>5
<1> QED
  BY <1>3, <1>4, <1>5

\* An event adds no second entry of its device: the zone's own becomes the
\* device's only when the device has none.
LEMMA UpsertDistinct ==
    ASSUME NEW list \in Entries, Distinct(list),
           NEW z \in Zones, NEW d \in Devices \cup {NoDevice}
    PROVE  Distinct(UpsertFromEvent(list, z, d))
<1> DEFINE E == [zone : Zones, device : Devices \cup {NoDevice}]
<1>1. PICK i : i = findDeviceIndex(list, z, d)
  OBVIOUS
<1>2. UpsertFromEvent(list, z, d) =
          IF i = 0 THEN Append(list, Entry(z, d))
          ELSE [list EXCEPT ![i].device = IF @ = NoDevice THEN d ELSE @]
  BY <1>1 DEF UpsertFromEvent
<1>3. list \in Seq(E) /\ 0 \notin DOMAIN list
  BY DEF Entries
<1>4. \/ i = 0 /\ \A j \in DOMAIN list : list[j] # Entry(z, d)
      \/ i \in DOMAIN list /\ list[i] = Entry(z, d)
      \/ i \in DOMAIN list /\ list[i] = Entry(z, NoDevice) /\ \A j \in DOMAIN list : list[j] # Entry(z, d)
  BY <1>1, FoundIndex
<1>5. CASE i = 0
  <2> DEFINE e == Entry(z, d)
  <2>1. \A j \in DOMAIN list : list[j] # e
    BY <1>3, <1>4, <1>5
  <2>2. e \in E
    BY DEF Entry
  <2>3. Distinct(Append(list, e))
    <3> HIDE DEF e, E
    <3> QED
      BY <1>3, <2>1, <2>2 DEF Distinct
  <2> QED
    BY <1>2, <1>5, <2>3
<1>6. CASE i \in DOMAIN list /\ list[i] = Entry(z, d)
  <2>1. list[i].device = d /\ list[i] \in E
    <3>1. list[i].device = d
      BY <1>6 DEF Entry
    <3>2. list[i] \in E
      <4> HIDE DEF E
      <4> QED
        BY <1>3, <1>6
    <3> QED
      BY <3>1, <3>2
  <2> DEFINE r == [list[i] EXCEPT !.device = IF @ = NoDevice THEN d ELSE @]
  <2>2. r = list[i]
    BY <2>1
  <2>3. UpsertFromEvent(list, z, d) = [list EXCEPT ![i] = r]
    BY <1>2, <1>3, <1>6
  <2>4. [list EXCEPT ![i] = r] = list
    <3> HIDE DEF r, E
    <3> QED
      BY <1>3, <1>6, <2>2
  <2> QED
    BY <2>3, <2>4
<1>7. CASE i \in DOMAIN list /\ list[i] = Entry(z, NoDevice) /\ \A j \in DOMAIN list : list[j] # Entry(z, d)
  <2> DEFINE r == [list[i] EXCEPT !.device = IF @ = NoDevice THEN d ELSE @]
             e == Entry(z, d)
  <2>1. r = e
    BY <1>7 DEF Entry
  <2>2. UpsertFromEvent(list, z, d) = [list EXCEPT ![i] = e]
    <3>1. UpsertFromEvent(list, z, d) = [list EXCEPT ![i] = r]
      BY <1>2, <1>3, <1>7
    <3> QED
      BY <2>1, <3>1
  <2>3. \A j \in DOMAIN list : list[j] # e
    BY <1>7
  <2>4. Distinct([list EXCEPT ![i] = e])
    <3> HIDE DEF e, r, E
    <3> QED
      BY <1>3, <1>7, <2>3 DEF Distinct
  <2> QED
    BY <2>2, <2>4
<1> QED
  BY <1>4, <1>5, <1>6, <1>7

LEMMA DistinctInit == Init => DistinctInv
BY DEF Init, DistinctInv, Distinct, Nothing, Idle

\* What a goroutine carries is what it carried, the memory, or nothing.
LEMMA DistinctStep ==
    ASSUME EditorListsDistinct, Inv, DistinctInv, [Next]_vars
    PROVE  DistinctInv'
<1>0. Distinct(Nothing.list)
  BY DEF Distinct, Nothing
<1>1. ASSUME NEW w \in Writers, NEW list \in Entries, Distinct(list), Change(w, list)
      PROVE  DistinctInv'
  <2>1. mem'.list = list /\ file' = file
    BY <1>1 DEF Change, files
  <2>2. \A v \in Writers : th'[v].body.list \in {th[v].body.list, mem'.list}
    BY <1>1 DEF Change, Inv, Types
  <2> QED
    BY <1>1, <2>1, <2>2 DEF DistinctInv
<1>2. ASSUME NEW w \in Writers, Changing(w) PROVE DistinctInv'
  <2>1. <<>> \in Entries /\ mem.list \in Entries /\ Distinct(<<>>)
    BY DEF Entries, Inv, Types, Contents, Distinct
  <2>2. \E list \in Entries : Distinct(list) /\ Change(w, list)
    <3>1. CASE Learn(w)
      BY <2>1, <3>1, UpsertTypes, UpsertDistinct DEF Learn, DistinctInv
    <3>2. CASE Replace(w)
      BY <3>2, ListsAreEntries DEF Replace, EditorListsDistinct
    <3>3. CASE Store(w)
      BY <2>1, <3>3 DEF Store
    <3> QED
      BY <1>2, <3>1, <3>2, <3>3 DEF Changing
  <2> QED
    BY <1>1, <2>2
<1>3. ASSUME NEW w \in Writers, Saving(w) PROVE DistinctInv'
  <2>1. mem' = mem
    BY <1>3 DEF Saving, TakeSnapshot, Refuse, WriteTmp, RemoveFile, RenameTmp, files
  <2>2. file' # None => file' = file \/ file' = th[w].body
    BY <1>3 DEF Saving, TakeSnapshot, Refuse, WriteTmp, RemoveFile, RenameTmp, files, Renamed, Inv, Beside
  <2>3. \A v \in Writers : th'[v].body \in {th[v].body, mem, Nothing}
    <3>1. th \in [Writers -> [pc : Phases, body : Contents]]
      BY DEF Inv, Types
    <3>2. ASSUME NEW p \in Phases, Goto(w, p) PROVE \A v \in Writers : th'[v].body = th[v].body
      BY <3>1, <3>2 DEF Goto
    <3>3. ASSUME th' = [th EXCEPT ![w] = Idle]
          PROVE  \A v \in Writers : th'[v].body \in {th[v].body, mem, Nothing}
      BY <3>1, <3>3 DEF Idle
    <3>4. CASE TakeSnapshot(w)
      BY <3>1, <3>4 DEF TakeSnapshot
    <3>5. CASE Refuse(w)
      BY <3>3, <3>5 DEF Refuse, SaveFails
    <3>6. CASE WriteTmp(w)
      BY <3>2, <3>3, <3>6 DEF WriteTmp, SaveFails, Phases
    <3>7. CASE RemoveFile(w)
      BY <3>2, <3>7 DEF RemoveFile, Phases
    <3>8. CASE RenameTmp(w)
      BY <3>3, <3>8 DEF RenameTmp, Renamed, SaveFails
    <3> QED
      BY <1>3, <3>4, <3>5, <3>6, <3>7, <3>8 DEF Saving
  <2> QED
    BY <1>0, <2>1, <2>2, <2>3 DEF DistinctInv
<1>4. CASE Restart
  <2>1. mem' = Loaded /\ file' = file
    BY <1>4 DEF Restart
  <2>2. \A w \in Writers : th'[w].body = Nothing
    BY <1>4 DEF Restart, Idle
  <2> QED
    BY <1>0, <2>1, <2>2 DEF DistinctInv, Loaded
<1>5. CASE UNCHANGED vars
  BY <1>5 DEF vars, files, DistinctInv
<1> QED
  BY <1>2, <1>3, <1>4, <1>5 DEF Next

\* The catalog never has two entries of a device of a zone, and Lookup finds the
\* one there is, whichever of the editor, the events, a failed save and a restart
\* came first, as long as the editor sends no entry twice.
THEOREM OneEntryEach ==
    ASSUME EditorListsDistinct
    PROVE  Spec => []OneEntry
<1>1. Inv /\ DistinctInv => OneEntry
  <2> SUFFICES ASSUME Inv, DistinctInv, NEW i \in DOMAIN mem.list, mem.list[i].device # NoDevice
               PROVE  Lookup(mem.list, mem.list[i].zone, mem.list[i].device) = i
    BY DEF OneEntry, DistinctInv, Distinct
  <2> DEFINE z == mem.list[i].zone
             d == mem.list[i].device
             exact == {k \in DOMAIN mem.list : mem.list[k] = Entry(z, d) /\ d # NoDevice}
  <2>1. mem.list \in Entries
    BY DEF Inv, Types, Contents
  <2>2. mem.list[i] = Entry(z, d) /\ i \in Nat
    <3> DEFINE E == [zone : Zones, device : Devices \cup {NoDevice}]
    <3>1. mem.list \in Seq(E)
      BY <2>1 DEF Entries
    <3>2. i \in Nat /\ mem.list[i] \in E
      <4> HIDE DEF E
      <4> QED
        BY <3>1
    <3> QED
      BY <3>2 DEF Entry
  <2>3. exact = {i}
    BY <2>2 DEF DistinctInv, Distinct
  <2>4. Max(exact) = i
    BY <2>2, <2>3, OnlyIndex
  <2> QED
    BY <2>3, <2>4 DEF Lookup
<1>2. Init => DistinctInv
  BY DistinctInit
<1>3. Inv /\ DistinctInv /\ [Next]_vars => DistinctInv'
  BY DistinctStep
<1> QED
  BY <1>1, <1>2, <1>3, Invariance, PTL DEF Spec
=============================================================================
