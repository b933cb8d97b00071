------------------------- MODULE JeedomControlProof -------------------------
(***************************************************************************)
(* Theorems about JeedomControl for every set of goroutines, every set of  *)
(* readings and every bound: what a switch is shown as, what is saved of   *)
(* it, and that no command passes unnoticed.                               *)
(***************************************************************************)
EXTENDS JeedomControl, TLAPS

Reported == {r[2] : r \in Readings} \cup {"none"}
Observations == [Sources -> [value : Reported, at : Nat]]
Shown == Toggles \cup {"none"}
Pcs == {"idle", "publish", "wait", "record", "optimistic", "save", "check",
        "notify", "deliver", "mark"}
Thread == [pc : Pcs, act : Acts \cup {"none"}, ok : BOOLEAN]
Entry == [act : Acts, bridge : BOOLEAN, ok : BOOLEAN]

ControlTypes ==
    /\ kind \in Kinds /\ relay \in Toggles
    /\ obs \in Observations /\ shown \in Shown /\ clock \in Nat
    /\ saved \in [obs : Observations, shown : Shown]
    /\ unsaved \in BOOLEAN /\ kept \in Shown
    /\ audits \in Seq(Entry) /\ recent \in Nat
    /\ bus \in Seq(Toggles)
    /\ th \in [Threads -> Thread]
    /\ cooling \in BOOLEAN /\ alerted \in BOOLEAN
    /\ evidence \subseteq Toggles /\ newest \in Shown
    /\ heard \subseteq Toggles /\ noticed \subseteq Acts
    /\ spent \in [DOMAIN Limit -> Nat]

(* Where a goroutine is tells what its action is: only a toggle is          *)
(* published, and what is taken for the state was acknowledged or heard.    *)
Placed(x) ==
    /\ x.pc \in {"publish", "wait", "check", "optimistic", "save"} \/ x.ok => x.act \in Toggles
    /\ x.pc \in {"check", "optimistic", "save"} => x.ok
    /\ x.pc # "idle" => x.act \in Acts

Base == ControlTypes /\ \A t \in Threads : Placed(th[t])

(* A state with its observations rests on evidence.                         *)
Backed(o, current) ==
    /\ current \in evidence \cup {"none"}
    /\ \A s \in Sources : Says(s, o[s].value) \in evidence \cup {"none"}

EvidenceInv ==
    /\ Backed(obs, shown) /\ Backed(saved.obs, saved.shown)
    /\ \A i \in DOMAIN bus : bus[i] \in evidence
    /\ \A t \in Threads : th[t].ok \/ th[t].pc = "wait" => th[t].act \in evidence

(* A switch that reports its state is shown as its observations say.        *)
FeedbackInv ==
    /\ \A s \in Sources : obs[s].at <= clock /\ saved.obs[s].at <= clock
    /\ Observed(obs) => shown = Rebuilt(obs)

(* A rebuild, or a start, changes nothing: neither of what is shown nor of  *)
(* what is saved, but for what new observations say.                        *)
Settled(o, current) == RebuiltKeepingControl(o, current) = current
SettledInv == Settled(obs, shown) /\ Settled(saved.obs, saved.shown)

(* An action-only switch never reports its state, and shows the newest      *)
(* evidence; its cache has what was the newest when it was written.         *)
NewestInv ==
    kind = "action_only" => /\ ~Observed(obs) /\ ~Observed(saved.obs)
                            /\ shown = newest /\ saved.shown = kept

(* The cache differs from the store only while a goroutine is about to save,*)
(* or after a save that failed.                                             *)
SaveInv ==
    \/ \E t \in Threads : th[t].pc = "save"
    \/ unsaved
    \/ saved = [obs |-> obs, shown |-> shown]

(* A command that was heard of has its entry, or is still to get it.        *)
OnBus(act) == \E i \in DOMAIN bus : bus[i] = act
Entered(act) == \E i \in DOMAIN audits : audits[i].act = act
Handled(act, pcs) == \E t \in Handlers : th[t].act = act /\ th[t].pc \in pcs
Underway == {"check", "optimistic", "save", "record"}
AuditInv == \A act \in heard : Entered(act) \/ OnBus(act) \/ Handled(act, Underway)

(* Without failures a command the bridge has recorded is one the rules have *)
(* seen or will see, so an echo that is dropped hides nothing from them.    *)
Rule == {"record", "optimistic", "save", "notify"}
Seen(act) ==
    \/ act \in noticed
    \/ \E t \in Threads : /\ th[t].act = act /\ th[t].ok
                          /\ th[t].pc \in Rule
HeardSeen == \A act \in heard : OnBus(act) \/ Handled(act, {"check"}) \/ Seen(act)
Recorded(act) == \E i \in DOMAIN audits : audits[i].bridge /\ audits[i].act = act
RecordedSeen == \A act \in Toggles : Recorded(act) => Seen(act)
RecordsOk == \A t \in Threads : th[t].pc = "record" /\ th[t].act \in Toggles => th[t].ok
NoticeInv == spent["failures"] = 0 => HeardSeen /\ RecordedSeen /\ RecordsOk

AlertInv ==
    /\ cooling => alerted
    /\ \A t \in Threads : th[t].pc = "mark" => alerted
    /\ noticed # {} => alerted \/ \E t \in Threads : th[t].pc = "deliver"

-----------------------------------------------------------------------------
(* Operators and data                                                       *)

LEMMA AppendElements ==
  ASSUME NEW S, NEW s \in Seq(S), NEW x \in S
  PROVE  /\ Append(s, x) \in Seq(S)
         /\ DOMAIN Append(s, x) = 1..(Len(s) + 1)
         /\ DOMAIN s = 1..Len(s) /\ Len(s) \in Nat
         /\ \A i \in 1..Len(s) : Append(s, x)[i] = s[i]
         /\ Append(s, x)[Len(s) + 1] = x
OBVIOUS

LEMMA TailElements ==
  ASSUME NEW S, NEW s \in Seq(S), s # <<>>
  PROVE  /\ Tail(s) \in Seq(S)
         /\ Head(s) = s[1] /\ Head(s) \in S
         /\ Len(s) \in Nat \ {0} /\ DOMAIN s = 1..Len(s)
         /\ DOMAIN Tail(s) = 1..(Len(s) - 1)
         /\ \A i \in 1..(Len(s) - 1) : Tail(s)[i] = s[i + 1]
OBVIOUS

LEMMA SaysTypes ==
  ASSUME NEW source, NEW value
  PROVE  Says(source, value) \in Shown
BY DEF Says, Shown, Toggles

(* A rebuild shows what the latest of the sources says that say anything.   *)
LEMMA RebuiltLatest ==
  ASSUME NEW o \in Observations
  PROVE  \/ /\ Rebuilt(o) = "none"
            /\ \A s \in Sources : Says(s, o[s].value) = "none"
         \/ \E s \in Sources :
              /\ Says(s, o[s].value) # "none" /\ Rebuilt(o) = Says(s, o[s].value)
              /\ \A r \in Sources : Says(r, o[r].value) # "none" => o[r].at <= o[s].at
<1> DEFINE telling == {s \in Sources : Says(s, o[s].value) # "none"}
           Latest(s) == \A r \in telling : o[r].at <= o[s].at
<1>1. CASE telling = {}
  BY <1>1 DEF Rebuilt
<1>2. CASE telling # {}
  <2>1. \A s \in Sources : o[s].at \in Nat
    BY DEF Observations
  <2>2. \E s \in telling : Latest(s)
    <3>1. telling \subseteq {"state", "code", "load"}
      BY DEF Sources
    <3>2. \A s \in telling : o[s].at \in Nat
      BY <2>1
    <3> HIDE DEF telling
    <3>3. ASSUME \A s \in telling : \E r \in telling : ~(o[r].at <= o[s].at)
          PROVE  FALSE
      <4>1. PICK x \in telling : TRUE
        BY <1>2
      <4>2. PICK y \in telling : ~(o[y].at <= o[x].at)
        BY <3>3
      <4>3. PICK z \in telling : ~(o[z].at <= o[y].at)
        BY <3>3
      <4>4. PICK w \in telling : ~(o[w].at <= o[z].at)
        BY <3>3
      <4>5. o[x].at < o[y].at /\ o[y].at < o[z].at /\ o[z].at < o[w].at
        BY <3>2, <4>2, <4>3, <4>4
      <4> QED
        BY <3>1, <3>2, <4>5
    <3> QED
      BY <3>3
  <2>3. PICK s \in telling : s = (CHOOSE x \in telling : Latest(x))
    BY <2>2
  <2>4. Latest(s)
    BY <2>2, <2>3
  <2>5. Rebuilt(o) = Says(s, o[s].value)
    BY <2>3, <1>2 DEF Rebuilt
  <2> QED
    BY <2>4, <2>5
<1> QED
  BY <1>1, <1>2

LEMMA SpendTypes ==
  ASSUME Base, NEW what \in DOMAIN Limit, Spend(what)
  PROVE  /\ spent' \in [DOMAIN Limit -> Nat]
         /\ spent'[what] # 0
         /\ \A w \in DOMAIN Limit : spent'[w] = 0 => spent[w] = 0
BY DEF Spend, Base, ControlTypes

LEMMA LimitDomain ==
  DOMAIN Limit = {"requests", "others", "readings", "passes", "failures", "crashes"}
BY DEF Limit

LEMMA RebuiltTypes ==
  ASSUME NEW o \in Observations
  PROVE  Rebuilt(o) \in Shown
BY RebuiltLatest, SaysTypes DEF Shown

LEMMA ReadingTypes ==
  ASSUME Base, NEW r \in Readings
  PROVE  /\ r[1] \in Sources /\ r[2] \in Reported
         /\ [obs EXCEPT ![r[1]] = [value |-> r[2], at |-> clock + 1]] \in Observations
<1>1. r[1] \in Sources /\ r[2] \in Reported
  BY ReadingsKnown DEF Sources, Reported
<1>2. [value |-> r[2], at |-> clock + 1] \in [value : Reported, at : Nat]
  BY <1>1 DEF Base, ControlTypes
<1> QED
  BY <1>1, <1>2 DEF Base, ControlTypes, Observations

(* What a control set is kept, or a rebuild shows what is observed.         *)
LEMMA RebuiltKeeping ==
  ASSUME NEW o \in Observations, NEW current \in Shown
  PROVE  /\ RebuiltKeepingControl(o, current) \in Shown
         /\ \/ RebuiltKeepingControl(o, current) = Rebuilt(o)
            \/ /\ RebuiltKeepingControl(o, current) = current
               /\ current # "none" /\ ~Observed(o)
BY RebuiltTypes DEF RebuiltKeepingControl, KeepsControl

(* A start makes of the cache what a rebuild would.                         *)
LEMMA LoadedAsRebuilt ==
  ASSUME NEW o, NEW current
  PROVE  Loaded(o, current) = RebuiltKeepingControl(o, current)
BY DEF Loaded, RebuiltKeepingControl

LEMMA SavesEither ==
  ASSUME Saves
  PROVE  \/ /\ saved' = [obs |-> obs', shown |-> shown']
            /\ kept' = newest' /\ unsaved' = FALSE
         \/ saved' = saved /\ kept' = kept /\ unsaved' = TRUE
BY DEF Saves

LEMMA SavedObs ==
  ASSUME Saves
  PROVE  saved'.obs = obs' \/ saved'.obs = saved.obs
BY DEF Saves

LEMMA SavesTyped ==
  ASSUME Base, Saves, obs' \in Observations, shown' \in Shown, newest' \in Shown
  PROVE  /\ saved' \in [obs : Observations, shown : Shown]
         /\ kept' \in Shown /\ unsaved' \in BOOLEAN
<1>1. CASE /\ saved' = [obs |-> obs', shown |-> shown']
           /\ kept' = newest' /\ unsaved' = FALSE
  BY <1>1
<1>2. CASE saved' = saved /\ kept' = kept /\ unsaved' = TRUE
  BY <1>2 DEF Base, ControlTypes
<1> QED
  BY <1>1, <1>2, SavesEither

-----------------------------------------------------------------------------
(* Types                                                                    *)

LEMMA BaseInit == Init => Base
<1> SUFFICES ASSUME Init PROVE Base
  OBVIOUS
<1>1. obs \in Observations
  <2>1. [value |-> "none", at |-> 0] \in [value : Reported, at : Nat]
    BY DEF Reported
  <2> QED
    BY <2>1 DEF Init, Observations
<1>2. th \in [Threads -> Thread]
  BY DEF Init, Idle, Thread, Pcs
<1>3. \A t \in Threads : Placed(th[t])
  BY DEF Init, Idle, Placed
<1>4. saved \in [obs : Observations, shown : Shown]
  BY <1>1 DEF Init, Shown
<1>5. spent \in [DOMAIN Limit -> Nat]
  BY DEF Init
<1>6. audits \in Seq(Entry) /\ bus \in Seq(Toggles)
  BY DEF Init
<1> QED
  BY <1>1, <1>2, <1>3, <1>4, <1>5, <1>6 DEF Init, Base, ControlTypes, Shown, Toggles

(* A goroutine goes on, or starts, and nothing else of its kind changes.    *)
LEMMA ThreadSet ==
  ASSUME Base, NEW t \in Threads, NEW x \in Thread, Placed(x),
         th' = [th EXCEPT ![t] = x]
  PROVE  th' \in [Threads -> Thread] /\ \A u \in Threads : Placed(th'[u])
BY DEF Base, ControlTypes

LEMMA ThreadGoes ==
  ASSUME Base, NEW t \in Threads, NEW pc \in Pcs, Placed([th[t] EXCEPT !.pc = pc]),
         Goto(t, pc)
  PROVE  th' \in [Threads -> Thread] /\ \A u \in Threads : Placed(th'[u])
<1>1. [th[t] EXCEPT !.pc = pc] \in Thread
  BY DEF Base, ControlTypes, Thread
<1>2. th' = [th EXCEPT ![t] = [th[t] EXCEPT !.pc = pc]]
  BY DEF Goto
<1> QED
  BY <1>1, <1>2, ThreadSet

LEMMA BaseRequests ==
  ASSUME Base, NEW t \in Callers, Request(t) \/ Publish(t)
  PROVE  Base'
<1> t \in Threads /\ th[t] \in Thread /\ Placed(th[t])
  BY DEF Threads, Base, ControlTypes
<1>1. ASSUME NEW act \in Acts, Execute(t, act)
      PROVE  Base'
  <2> DEFINE x == [pc |-> IF act \in Toggles THEN "publish" ELSE "record",
                   act |-> act, ok |-> FALSE]
  <2>1. x \in Thread /\ Placed(x)
    BY DEF Thread, Pcs, Placed
  <2>2. th' = [th EXCEPT ![t] = x]
    BY <1>1 DEF Execute
  <2>3. th' \in [Threads -> Thread] /\ \A u \in Threads : Placed(th'[u])
    BY <2>1, <2>2, ThreadSet
  <2> QED
    BY <1>1, <2>3, SpendTypes, LimitDomain DEF Execute, Base, ControlTypes, store, cache, audit, rule
<1>2. CASE CommandReaches(t)
  <2>1. th' \in [Threads -> Thread] /\ \A u \in Threads : Placed(th'[u])
    BY <1>2, ThreadGoes DEF CommandReaches, Placed, Pcs, Thread
  <2>2. th[t].act \in Toggles
    BY <1>2 DEF CommandReaches, Placed
  <2>3. bus' \in Seq(Toggles)
    BY <1>2, <2>2, AppendElements DEF CommandReaches, Reaches, Base, ControlTypes
  <2> QED
    BY <1>2, <2>1, <2>2, <2>3 DEF CommandReaches, Reaches, Base, ControlTypes, store, cache, audit, rule
<1>3. CASE Acknowledged(t)
  <2> DEFINE x == [pc |-> "record", act |-> th[t].act, ok |-> TRUE]
  <2>1. x \in Thread /\ Placed(x)
    BY <1>3 DEF Acknowledged, Thread, Pcs, Placed
  <2>2. th' = [th EXCEPT ![t] = x]
    BY <1>3 DEF Acknowledged, Thread, Base, ControlTypes
  <2>3. th' \in [Threads -> Thread] /\ \A u \in Threads : Placed(th'[u])
    BY <2>1, <2>2, ThreadSet
  <2> QED
    BY <1>3, <2>3 DEF Acknowledged, Base, ControlTypes, store, cache, audit, rule
<1>4. CASE PublishFails(t)
  <2>1. th' \in [Threads -> Thread] /\ \A u \in Threads : Placed(th'[u])
    BY <1>4, ThreadGoes DEF PublishFails, Placed, Pcs, Thread
  <2> QED
    BY <1>4, <2>1, SpendTypes, LimitDomain DEF PublishFails, Base, ControlTypes, store, cache, audit, rule
<1> QED
  BY <1>1, <1>2, <1>3, <1>4 DEF Request, Publish

LEMMA BaseSetTopic ==
  ASSUME Base, NEW t \in Handlers, Hear(t) \/ Check(t)
  PROVE  Base'
<1> t \in Threads /\ th[t] \in Thread /\ Placed(th[t])
  BY DEF Threads, Base, ControlTypes
<1>1. CASE Hear(t)
  <2> DEFINE x == [pc |-> "check", act |-> Head(bus), ok |-> TRUE]
  <2>1. Head(bus) \in Toggles /\ Tail(bus) \in Seq(Toggles)
    BY <1>1, TailElements DEF Hear, Base, ControlTypes
  <2>2. x \in Thread /\ Placed(x)
    BY <2>1 DEF Thread, Pcs, Placed, Acts
  <2>3. th' = [th EXCEPT ![t] = x]
    BY <1>1 DEF Hear
  <2>4. th' \in [Threads -> Thread] /\ \A u \in Threads : Placed(th'[u])
    BY <2>2, <2>3, ThreadSet
  <2> QED
    BY <1>1, <2>1, <2>4 DEF Hear, Base, ControlTypes, store, cache, audit, rule
<1>2. CASE Check(t)
  <2> DEFINE x == IF HasRecentBridgeControl(th[t].act) THEN Idle
                  ELSE [th[t] EXCEPT !.pc = "optimistic"]
  <2>1. x \in Thread /\ Placed(x)
    BY <1>2 DEF Check, Thread, Pcs, Placed, Idle
  <2>2. th' = [th EXCEPT ![t] = x]
    BY <1>2 DEF Check, Base, ControlTypes
  <2>3. th' \in [Threads -> Thread] /\ \A u \in Threads : Placed(th'[u])
    BY <2>1, <2>2, ThreadSet
  <2> QED
    BY <1>2, <2>3 DEF Check, Base, ControlTypes, store, cache, audit, rule
<1> QED
  BY <1>1, <1>2

LEMMA BaseSteps ==
  ASSUME Base, NEW t \in Threads, Steps(t)
  PROVE  Base'
<1> th[t] \in Thread /\ Placed(th[t])
  BY DEF Base, ControlTypes
<1>1. CASE Record(t)
  <2> DEFINE e == [act |-> th[t].act, bridge |-> t \in Callers, ok |-> th[t].ok]
  <2>1. e \in Entry
    BY <1>1 DEF Record, Placed, Thread, Entry
  <2>2. audits' \in Seq(Entry) /\ recent' \in Nat
    BY <1>1, <2>1, AppendElements DEF Record, Base, ControlTypes
  <2>3. th' \in [Threads -> Thread] /\ \A u \in Threads : Placed(th'[u])
    BY <1>1, ThreadGoes DEF Record, AfterRecord, Placed, Pcs, Thread
  <2> QED
    BY <1>1, <2>2, <2>3 DEF Record, Base, ControlTypes, store, cache, rule
<1>2. CASE Optimistic(t)
  <2>1. th' \in [Threads -> Thread] /\ \A u \in Threads : Placed(th'[u])
    BY <1>2, ThreadGoes DEF Optimistic, AfterSave, Placed, Pcs, Thread
  <2>2. shown' \in Shown /\ newest' \in Shown /\ clock' \in Nat
    BY <1>2 DEF Optimistic, Placed, Shown, Base, ControlTypes
  <2> QED
    BY <1>2, <2>1, <2>2 DEF Optimistic, Base, ControlTypes, audit, rule, cache
<1>3. CASE SaveControl(t)
  <2>1. th' \in [Threads -> Thread] /\ \A u \in Threads : Placed(th'[u])
    BY <1>3, ThreadGoes DEF SaveControl, AfterSave, Placed, Pcs, Thread
  <2>2. UNCHANGED <<kind, relay, obs, shown, clock, audits, recent, bus, cooling, alerted,
                    noticed, evidence, newest, heard, spent>>
    BY <1>3 DEF SaveControl, audit, rule
  <2>3. /\ saved' \in [obs : Observations, shown : Shown]
        /\ kept' \in Shown /\ unsaved' \in BOOLEAN
    BY <1>3, <2>2, SavesTyped DEF SaveControl, Base, ControlTypes
  <2> QED
    BY <2>1, <2>2, <2>3 DEF Base, ControlTypes
<1>4. CASE Evaluate(t)
  <2> DEFINE x == IF th[t].ok /\ ~cooling THEN [th[t] EXCEPT !.pc = "deliver"] ELSE Idle
  <2>1. x \in Thread /\ Placed(x)
    BY <1>4 DEF Evaluate, Thread, Pcs, Placed, Idle
  <2>2. th' = [th EXCEPT ![t] = x]
    BY <1>4 DEF Evaluate, Base, ControlTypes
  <2>3. th' \in [Threads -> Thread] /\ \A u \in Threads : Placed(th'[u])
    BY <2>1, <2>2, ThreadSet
  <2>4. noticed' \subseteq Acts
    BY <1>4 DEF Evaluate, Placed, Acts, Base, ControlTypes
  <2> QED
    BY <1>4, <2>3, <2>4 DEF Evaluate, Base, ControlTypes, store, cache, audit
<1>5. CASE Deliver(t)
  <2>1. th' \in [Threads -> Thread] /\ \A u \in Threads : Placed(th'[u])
    BY <1>5, ThreadGoes DEF Deliver, Placed, Pcs, Thread
  <2> QED
    BY <1>5, <2>1 DEF Deliver, Base, ControlTypes, store, cache, audit
<1>6. CASE MarkSent(t)
  <2>1. Idle \in Thread /\ Placed(Idle)
    BY DEF Thread, Pcs, Placed, Idle
  <2>2. th' \in [Threads -> Thread] /\ \A u \in Threads : Placed(th'[u])
    BY <1>6, <2>1, ThreadSet DEF MarkSent
  <2> QED
    BY <1>6, <2>2 DEF MarkSent, Base, ControlTypes, store, cache, audit
<1> QED
  BY <1>1, <1>2, <1>3, <1>4, <1>5, <1>6 DEF Steps

LEMMA BaseReading ==
  ASSUME Base, NEW r \in Readings, Reading(r[1], r[2])
  PROVE  Base'
<1> DEFINE o == [obs EXCEPT ![r[1]] = [value |-> r[2], at |-> clock + 1]]
<1>1. o \in Observations /\ Rebuilt(o) \in Shown
  BY ReadingTypes, RebuiltTypes
<1>2. obs' = o /\ shown' = Rebuilt(o) /\ clock' = clock + 1 /\ Saves
  BY DEF Reading
<1>3. spent' \in [DOMAIN Limit -> Nat]
  BY SpendTypes, LimitDomain DEF Reading
<1>4. evidence' \subseteq Toggles /\ newest' \in Shown
  BY SaysTypes DEF Reading, Shown, Base, ControlTypes
<1>5. UNCHANGED <<kind, relay, audits, recent, bus, th, cooling, alerted, noticed, heard>>
  BY DEF Reading, audit, rule
<1> HIDE DEF o
<1>6. /\ saved' \in [obs : Observations, shown : Shown]
      /\ kept' \in Shown /\ unsaved' \in BOOLEAN
  BY <1>1, <1>2, <1>4, SavesTyped
<1> QED
  BY <1>1, <1>2, <1>3, <1>4, <1>5, <1>6 DEF Base, ControlTypes

LEMMA BaseWorld ==
  ASSUME Base,
         \/ \E act \in Toggles : OtherCommand(act)
         \/ Press \/ Rebuild \/ TimePasses \/ Crash
  PROVE  Base'
<1>1. ASSUME NEW act \in Toggles, OtherCommand(act)
      PROVE  Base'
  <2>1. bus' \in Seq(Toggles)
    BY <1>1, AppendElements DEF OtherCommand, Reaches, Base, ControlTypes
  <2> QED
    BY <1>1, <2>1, SpendTypes, LimitDomain
       DEF OtherCommand, Reaches, Base, ControlTypes, store, cache, audit, rule
<1>2. CASE Press
  BY <1>2, SpendTypes, LimitDomain DEF Press, Toggles, Base, ControlTypes, store, cache, audit, rule
<1>3. CASE Rebuild
  <2>1. shown' \in Shown
    BY <1>3, RebuiltKeeping DEF Rebuild, Base, ControlTypes
  <2>2. UNCHANGED <<kind, relay, obs, clock, audits, recent, bus, th, cooling, alerted,
                    noticed, evidence, newest, heard, spent>>
    BY <1>3 DEF Rebuild, audit, rule
  <2>3. /\ saved' \in [obs : Observations, shown : Shown]
        /\ kept' \in Shown /\ unsaved' \in BOOLEAN
    BY <1>3, <2>1, <2>2, SavesTyped DEF Rebuild, Base, ControlTypes
  <2> QED
    BY <2>1, <2>2, <2>3 DEF Base, ControlTypes
<1>4. CASE TimePasses
  BY <1>4, SpendTypes, LimitDomain DEF TimePasses, Base, ControlTypes, store, cache
<1>5. CASE Crash
  <2>1. saved.obs \in Observations /\ saved.shown \in Shown
    BY DEF Base, ControlTypes
  <2>2. shown' \in Shown
    BY <1>5, <2>1, RebuiltKeeping, LoadedAsRebuilt DEF Crash
  <2>3. saved' = saved /\ kept' = kept /\ unsaved' = FALSE /\ newest' = kept
    BY <1>5 DEF Crash
  <2>4. th' \in [Threads -> Thread] /\ \A t \in Threads : Placed(th'[t])
    BY <1>5 DEF Crash, Idle, Thread, Pcs, Placed
  <2>5. spent' \in [DOMAIN Limit -> Nat]
    BY <1>5, SpendTypes, LimitDomain DEF Crash
  <2>6. audits' \in Seq(Entry) /\ bus' \in Seq(Toggles)
    BY <1>5 DEF Crash
  <2> QED
    BY <1>5, <2>1, <2>2, <2>3, <2>4, <2>5, <2>6 DEF Crash, Base, ControlTypes
<1> QED
  BY <1>1, <1>2, <1>3, <1>4, <1>5

LEMMA BaseStep == Base /\ [Next]_vars => Base'
<1> SUFFICES ASSUME Base, [Next]_vars PROVE Base'
  OBVIOUS
<1>1. CASE Next
  BY <1>1, BaseRequests, BaseSetTopic, BaseSteps, BaseReading, BaseWorld DEF Next
<1>2. CASE UNCHANGED vars
  BY <1>2 DEF vars, store, cache, audit, rule, Base, ControlTypes
<1> QED
  BY <1>1, <1>2

LEMMA BaseAlways == Spec => []Base
BY BaseInit, BaseStep, PTL DEF Spec

(* Every value keeps its type: what is published, heard and recorded is an   *)
(* action, what is shown is on, off or nothing (Execute, handleSetTopic,     *)
(* rebuildDerivedValuesForMetricChange).                                     *)
THEOREM ControlTyped == Spec => []ControlTypes
BY BaseAlways, PTL DEF Base

-----------------------------------------------------------------------------
(* What is shown has evidence                                               *)

LEMMA RebuiltBacked ==
  ASSUME NEW o \in Observations, NEW E,
         \A s \in Sources : Says(s, o[s].value) \in E \cup {"none"}
  PROVE  Rebuilt(o) \in E \cup {"none"}
BY RebuiltLatest

(* A step that leaves the store alone, and whose goroutines and messages     *)
(* carry only what is evidence, keeps the invariant.                         *)
LEMMA EvidenceFrame ==
  ASSUME EvidenceInv, UNCHANGED <<obs, shown, saved>>, evidence \subseteq evidence',
         \A i \in DOMAIN bus' : bus'[i] \in evidence',
         \A t \in Threads : th'[t].ok \/ th'[t].pc = "wait" => th'[t].act \in evidence'
  PROVE  EvidenceInv'
BY DEF EvidenceInv, Backed

LEMMA EvidenceRequests ==
  ASSUME Base, EvidenceInv, NEW t \in Callers, Request(t) \/ Publish(t)
  PROVE  EvidenceInv'
<1> t \in Threads /\ th[t] \in Thread /\ Placed(th[t]) /\ th \in [Threads -> Thread]
  BY DEF Threads, Base, ControlTypes
<1>1. ASSUME NEW act \in Acts, Execute(t, act)
      PROVE  EvidenceInv'
  BY <1>1, EvidenceFrame DEF Execute, EvidenceInv, store, cache
<1>2. CASE CommandReaches(t)
  <2>1. bus \in Seq(Toggles) /\ th[t].act \in Toggles
    BY <1>2 DEF CommandReaches, Placed, Base, ControlTypes
  <2>2. \A i \in DOMAIN bus' : bus'[i] \in evidence'
    BY <1>2, <2>1, AppendElements DEF CommandReaches, Reaches, EvidenceInv
  <2> QED
    BY <1>2, <2>2, EvidenceFrame DEF CommandReaches, Reaches, Goto, EvidenceInv, store, cache
<1>3. CASE Acknowledged(t)
  BY <1>3, EvidenceFrame DEF Acknowledged, EvidenceInv, store, cache
<1>4. CASE PublishFails(t)
  BY <1>4, EvidenceFrame DEF PublishFails, Goto, EvidenceInv, store, cache
<1> QED
  BY <1>1, <1>2, <1>3, <1>4 DEF Request, Publish

LEMMA EvidenceSetTopic ==
  ASSUME Base, EvidenceInv, NEW t \in Handlers, Hear(t) \/ Check(t)
  PROVE  EvidenceInv'
<1> t \in Threads /\ th[t] \in Thread /\ th \in [Threads -> Thread]
  BY DEF Threads, Base, ControlTypes
<1>1. CASE Hear(t)
  <2>1. bus \in Seq(Toggles) /\ bus # <<>>
    BY <1>1 DEF Hear, Base, ControlTypes
  <2>2. Head(bus) \in evidence /\ \A i \in DOMAIN Tail(bus) : Tail(bus)[i] \in evidence
    BY <2>1, TailElements DEF EvidenceInv
  <2> QED
    BY <1>1, <2>2, EvidenceFrame DEF Hear, EvidenceInv, store, cache
<1>2. CASE Check(t)
  BY <1>2, EvidenceFrame DEF Check, Idle, EvidenceInv, store, cache
<1> QED
  BY <1>1, <1>2

LEMMA EvidenceSteps ==
  ASSUME Base, EvidenceInv, NEW t \in Threads, Steps(t)
  PROVE  EvidenceInv'
<1> th[t] \in Thread /\ Placed(th[t]) /\ th \in [Threads -> Thread]
  BY DEF Base, ControlTypes
<1>1. CASE Record(t)
  BY <1>1, EvidenceFrame DEF Record, AfterRecord, Goto, EvidenceInv, store, cache
<1>2. CASE Optimistic(t)
  <2>1. th[t].act \in evidence
    BY <1>2 DEF Optimistic, Placed, EvidenceInv
  <2>2. \A u \in Threads : th'[u].ok \/ th'[u].pc = "wait" => th'[u].act \in evidence
    <3>1. PICK pc \in {"save", "notify", "record"} : Goto(t, pc)
      BY <1>2 DEF Optimistic, AfterSave
    <3> QED
      BY <3>1 DEF Goto, EvidenceInv
  <2> QED
    BY <1>2, <2>1, <2>2 DEF Optimistic, EvidenceInv, Backed, cache
<1>3. CASE SaveControl(t)
  <2>1. \A u \in Threads : th'[u].ok \/ th'[u].pc = "wait" => th'[u].act \in evidence
    BY <1>3 DEF SaveControl, AfterSave, Goto, EvidenceInv
  <2>2. \/ saved' = [obs |-> obs, shown |-> shown]
        \/ saved' = saved
    BY <1>3, SavesEither DEF SaveControl
  <2>3. UNCHANGED <<obs, shown, bus, evidence>>
    BY <1>3 DEF SaveControl
  <2> QED
    BY <2>1, <2>2, <2>3 DEF EvidenceInv, Backed
<1>4. CASE Evaluate(t)
  BY <1>4, EvidenceFrame DEF Evaluate, Idle, EvidenceInv, store, cache
<1>5. CASE Deliver(t)
  BY <1>5, EvidenceFrame DEF Deliver, Goto, EvidenceInv, store, cache
<1>6. CASE MarkSent(t)
  BY <1>6, EvidenceFrame DEF MarkSent, Idle, EvidenceInv, store, cache
<1> QED
  BY <1>1, <1>2, <1>3, <1>4, <1>5, <1>6 DEF Steps

LEMMA EvidenceReading ==
  ASSUME Base, EvidenceInv, NEW r \in Readings, Reading(r[1], r[2])
  PROVE  EvidenceInv'
<1> DEFINE o == [obs EXCEPT ![r[1]] = [value |-> r[2], at |-> clock + 1]]
<1>1. o \in Observations
  BY ReadingTypes
<1>2. \A s \in Sources : Says(s, o[s].value) \in evidence' \cup {"none"}
  BY ReadingTypes DEF Reading, EvidenceInv, Backed, Base, ControlTypes, Observations
<1>3. Rebuilt(o) \in evidence' \cup {"none"}
  BY <1>1, <1>2, RebuiltBacked
<1>4. /\ obs' = o /\ shown' = Rebuilt(o)
      /\ saved' = [obs |-> o, shown |-> Rebuilt(o)] \/ saved' = saved
      /\ evidence \subseteq evidence' /\ UNCHANGED <<bus, th>>
  BY SavesEither DEF Reading
<1> HIDE DEF o
<1> QED
  BY <1>2, <1>3, <1>4 DEF EvidenceInv, Backed

LEMMA EvidenceWorld ==
  ASSUME Base, EvidenceInv,
         \/ \E act \in Toggles : OtherCommand(act)
         \/ Press \/ Rebuild \/ TimePasses \/ Crash
  PROVE  EvidenceInv'
<1>1. ASSUME NEW act \in Toggles, OtherCommand(act)
      PROVE  EvidenceInv'
  <2>1. bus \in Seq(Toggles)
    BY DEF Base, ControlTypes
  <2>2. \A i \in DOMAIN bus' : bus'[i] \in evidence'
    BY <1>1, <2>1, AppendElements DEF OtherCommand, Reaches, EvidenceInv
  <2> QED
    BY <1>1, <2>2, EvidenceFrame DEF OtherCommand, Reaches, EvidenceInv, store, cache
<1>2. CASE Press
  BY <1>2, EvidenceFrame DEF Press, EvidenceInv, store, cache
<1>3. CASE Rebuild
  <2>1. obs \in Observations /\ shown \in Shown
    BY DEF Base, ControlTypes
  <2>2. shown' \in evidence \cup {"none"}
    BY <1>3, <2>1, RebuiltKeeping, RebuiltBacked DEF Rebuild, EvidenceInv, Backed
  <2>3. /\ saved' = [obs |-> obs, shown |-> shown'] \/ saved' = saved
        /\ UNCHANGED <<obs, bus, th, evidence>>
    BY <1>3, SavesEither DEF Rebuild
  <2> QED
    BY <2>2, <2>3 DEF EvidenceInv, Backed
<1>4. CASE TimePasses
  BY <1>4, EvidenceFrame DEF TimePasses, EvidenceInv, store, cache
<1>5. CASE Crash
  <2>1. saved.obs \in Observations /\ saved.shown \in Shown
    BY DEF Base, ControlTypes
  <2>2. shown' \in evidence \cup {"none"}
    BY <1>5, <2>1, RebuiltKeeping, LoadedAsRebuilt, RebuiltBacked DEF Crash, EvidenceInv, Backed
  <2>3. saved' = saved
    BY <1>5 DEF Crash
  <2>4. \A t \in Threads : th'[t].ok = FALSE /\ th'[t].pc = "idle"
    BY <1>5 DEF Crash, Idle
  <2>5. bus' = <<>> /\ obs' = saved.obs /\ evidence' = evidence
    BY <1>5 DEF Crash
  <2> QED
    BY <2>2, <2>3, <2>4, <2>5 DEF EvidenceInv, Backed
<1> QED
  BY <1>1, <1>2, <1>3, <1>4, <1>5

LEMMA EvidenceStep == Base /\ EvidenceInv /\ [Next]_vars => EvidenceInv'
<1> SUFFICES ASSUME Base, EvidenceInv, [Next]_vars PROVE EvidenceInv'
  OBVIOUS
<1>1. CASE Next
  BY <1>1, EvidenceRequests, EvidenceSetTopic, EvidenceSteps, EvidenceReading, EvidenceWorld
     DEF Next
<1>2. CASE UNCHANGED vars
  BY <1>2, EvidenceFrame DEF vars, store, cache, audit, rule, EvidenceInv
<1> QED
  BY <1>1, <1>2

LEMMA EvidenceInit == Init => EvidenceInv
BY DEF Init, EvidenceInv, Backed, Says, Idle, Toggles, Sources

(* A switch is shown on or off only if a command for that reached the broker *)
(* or a reading said so, whatever overlaps, fails or restarts: each value on *)
(* its way into the store, in a goroutine, on the bus or in the cache, is    *)
(* already evidence (Execute, handleSetTopic, RecordOptimisticControlState). *)
THEOREM ShownIsBacked == Spec => []ShownHasEvidence
<1>1. EvidenceInv => ShownHasEvidence
  BY DEF EvidenceInv, Backed, ShownHasEvidence
<1> QED
  BY <1>1, EvidenceInit, EvidenceStep, BaseAlways, PTL DEF Spec

-----------------------------------------------------------------------------
(* Feedback wins over control                                               *)

LEMMA FeedbackInit == Init => FeedbackInv
BY DEF Init, FeedbackInv, Observed, Sources

(* The steps that change neither the store nor its cache.                   *)
LEMMA StoreEffects ==
  ASSUME Base, [Next]_vars
  PROVE  \/ UNCHANGED <<obs, shown, clock, cache, newest>>
         \/ \E r \in Readings : Reading(r[1], r[2])
         \/ Rebuild \/ Crash
         \/ \E t \in Threads : Optimistic(t) /\ TakesControl
         \/ \E t \in Threads : SaveControl(t)
<1>1. ASSUME NEW t \in Callers, Request(t) \/ Publish(t)
      PROVE  UNCHANGED <<obs, shown, clock, cache, newest>>
  BY <1>1 DEF Request, Publish, Execute, CommandReaches, Acknowledged, PublishFails, store
<1>2. ASSUME NEW t \in Handlers, Hear(t) \/ Check(t)
      PROVE  UNCHANGED <<obs, shown, clock, cache, newest>>
  BY <1>2 DEF Hear, Check, store
<1>3. ASSUME NEW t \in Threads, Steps(t)
      PROVE  \/ UNCHANGED <<obs, shown, clock, cache, newest>>
             \/ Optimistic(t) /\ TakesControl
             \/ SaveControl(t)
  BY <1>3 DEF Steps, Record, Optimistic, Evaluate, Deliver, MarkSent, store
<1>4. ASSUME NEW act \in Toggles, OtherCommand(act)
      PROVE  UNCHANGED <<obs, shown, clock, cache, newest>>
  BY <1>4 DEF OtherCommand, store
<1>5. CASE Press \/ TimePasses \/ UNCHANGED vars
  BY <1>5 DEF Press, TimePasses, vars, store
<1> QED
  BY <1>1, <1>2, <1>3, <1>4, <1>5 DEF Next

LEMMA FeedbackStep == Base /\ FeedbackInv /\ [Next]_vars => FeedbackInv'
<1> SUFFICES ASSUME Base, FeedbackInv, [Next]_vars PROVE FeedbackInv'
  OBVIOUS
<1> /\ obs \in Observations /\ saved.obs \in Observations /\ clock \in Nat
    /\ shown \in Shown /\ saved.shown \in Shown
  BY DEF Base, ControlTypes
<1>1. CASE UNCHANGED <<obs, shown, clock, cache, newest>>
  BY <1>1 DEF FeedbackInv, Observed, Rebuilt, cache
<1>2. ASSUME NEW r \in Readings, Reading(r[1], r[2])
      PROVE  FeedbackInv'
  <2> DEFINE o == [obs EXCEPT ![r[1]] = [value |-> r[2], at |-> clock + 1]]
  <2>1. \A s \in Sources : o[s].at <= clock + 1
    BY ReadingTypes DEF Observations, FeedbackInv
  <2>2. /\ obs' = o /\ shown' = Rebuilt(o) /\ clock' = clock + 1
        /\ saved' = [obs |-> o, shown |-> Rebuilt(o)] \/ saved' = saved
    BY <1>2, SavesEither DEF Reading
  <2>3. \A s \in Sources : saved.obs[s].at <= clock + 1
    BY DEF FeedbackInv, Observations
  <2> HIDE DEF o
  <2> QED
    BY <2>1, <2>2, <2>3 DEF FeedbackInv, Observed, Rebuilt
<1>3. CASE Rebuild
  <2>1. UNCHANGED <<obs, clock>> /\ (saved'.obs = obs \/ saved'.obs = saved.obs)
    <3>1. UNCHANGED <<obs, clock>> /\ Saves
      BY <1>3 DEF Rebuild
    <3> QED
      BY <3>1, SavedObs
  <2>2. Observed(obs) => shown' = Rebuilt(obs)
    BY <1>3, RebuiltKeeping DEF Rebuild
  <2> QED
    BY <2>1, <2>2 DEF FeedbackInv, Observed, Rebuilt
<1>4. CASE Crash
  <2>1. obs' = saved.obs /\ saved'.obs = saved.obs /\ clock' = clock
    BY <1>4 DEF Crash, Base, ControlTypes
  <2>2. Observed(saved.obs) => shown' = Rebuilt(saved.obs)
    BY <1>4, RebuiltKeeping, LoadedAsRebuilt DEF Crash
  <2> QED
    BY <2>1, <2>2 DEF FeedbackInv, Observed, Rebuilt
<1>5. ASSUME NEW t \in Threads, Optimistic(t), TakesControl
      PROVE  FeedbackInv'
  BY <1>5 DEF Optimistic, TakesControl, FeedbackInv, Observed, Observations, cache
<1>6. ASSUME NEW t \in Threads, SaveControl(t)
      PROVE  FeedbackInv'
  <2>1. UNCHANGED <<obs, shown, clock>> /\ (saved'.obs = obs \/ saved'.obs = saved.obs)
    <3>1. UNCHANGED <<obs, shown, clock>> /\ Saves
      BY <1>6 DEF SaveControl
    <3> QED
      BY <3>1, SavedObs
  <2> QED
    BY <2>1 DEF FeedbackInv, Observed, Rebuilt
<1> QED
  BY <1>1, <1>2, <1>3, <1>4, <1>5, <1>6, StoreEffects

(* A switch that has reported its state is never shown otherwise because of  *)
(* a control: the only steps that change what it shows bring a new report,   *)
(* or a restart that goes back to older observations.                        *)
THEOREM FeedbackAlwaysWins == Spec => FeedbackWins
<1>1. Base /\ FeedbackInv /\ [Next]_vars
        => (Observed(obs) /\ shown' # shown => obs' # obs)
  <2> SUFFICES ASSUME Base, FeedbackInv, [Next]_vars, Observed(obs), obs' = obs
               PROVE  shown' = shown
    OBVIOUS
  <2> /\ obs \in Observations /\ saved.obs \in Observations /\ clock \in Nat
      /\ shown \in Shown /\ saved.shown \in Shown
    BY DEF Base, ControlTypes
  <2>1. ASSUME NEW r \in Readings, Reading(r[1], r[2])
        PROVE  FALSE
    <3>1. obs'[r[1]].at = clock + 1 /\ r[1] \in Sources
      BY <2>1, ReadingTypes DEF Reading, Observations
    <3> QED
      BY <3>1 DEF FeedbackInv, Observations
  <2>2. CASE Rebuild
    BY <2>2, RebuiltKeeping DEF Rebuild, FeedbackInv
  <2>3. CASE Crash
    BY <2>3, RebuiltKeeping, LoadedAsRebuilt DEF Crash, FeedbackInv
  <2>4. ASSUME NEW t \in Threads, Optimistic(t), TakesControl
        PROVE  FALSE
    BY <2>4 DEF TakesControl
  <2>5. ASSUME NEW t \in Threads, SaveControl(t)
        PROVE  shown' = shown
    BY <2>5 DEF SaveControl
  <2> QED
    BY <2>1, <2>2, <2>3, <2>4, <2>5, StoreEffects
<1> QED
  BY <1>1, FeedbackInit, FeedbackStep, BaseAlways, PTL DEF Spec, FeedbackWins

-----------------------------------------------------------------------------
(* An action-only switch shows the newest evidence                          *)

LEMMA KindStays == [Next]_vars => kind' = kind
BY DEF Next, vars, Request, Publish, Steps, Execute, CommandReaches, Acknowledged,
       PublishFails, Record, Optimistic, SaveControl, Evaluate, Deliver, MarkSent,
       Hear, Check, Reading, OtherCommand, Press, Rebuild, TimePasses, Crash

LEMMA InitSays ==
  Init => obs \in Observations /\ Rebuilt(obs) = "none"
<1> SUFFICES ASSUME Init PROVE obs \in Observations /\ Rebuilt(obs) = "none"
  OBVIOUS
<1>1. obs \in Observations /\ \A s \in Sources : Says(s, obs[s].value) = "none"
  BY BaseInit DEF Base, ControlTypes, Init, Says, Toggles
<1> QED
  BY <1>1, RebuiltLatest

(* A rebuild of what a rebuild made changes nothing.                        *)
LEMMA RebuiltSettled ==
  ASSUME NEW o, NEW current
  PROVE  Settled(o, Rebuilt(o)) /\ Settled(o, RebuiltKeepingControl(o, current))
BY DEF Settled, RebuiltKeepingControl, KeepsControl

LEMMA SettledInit == Init => SettledInv
<1> SUFFICES ASSUME Init PROVE SettledInv
  OBVIOUS
<1>1. Rebuilt(obs) = "none"
  BY InitSays
<1>2. Settled(obs, "none")
  BY <1>1 DEF Settled, RebuiltKeepingControl, KeepsControl
<1>3. shown = "none" /\ saved.obs = obs /\ saved.shown = "none"
  BY DEF Init
<1> QED
  BY <1>2, <1>3 DEF SettledInv

LEMMA SettledStep == Base /\ SettledInv /\ [Next]_vars => SettledInv'
<1> SUFFICES ASSUME Base, SettledInv, [Next]_vars PROVE SettledInv'
  OBVIOUS
<1> DEFINE S(o, current) == IF kind # "linked" /\ ~Observed(o) /\ current # "none"
                            THEN TRUE ELSE Rebuilt(o) = current
<1>1. \A o, current : Settled(o, current) <=> S(o, current)
  BY DEF Settled, RebuiltKeepingControl, KeepsControl
<1>2. ASSUME S(obs', shown'),
             \/ saved' = [obs |-> obs', shown |-> shown']
             \/ saved' = saved
      PROVE  SettledInv'
  <2>1. kind' = kind
    BY KindStays
  <2>2. S(saved'.obs, saved'.shown)
    BY <1>1, <1>2 DEF SettledInv
  <2> QED
    BY <1>2, <2>1, <2>2
       DEF SettledInv, Settled, RebuiltKeepingControl, KeepsControl, Observed, Rebuilt
<1> HIDE DEF S
<1>3. CASE UNCHANGED <<obs, shown, clock, cache, newest>>
  BY <1>1, <1>2, <1>3 DEF SettledInv, cache
<1>4. ASSUME NEW r \in Readings, Reading(r[1], r[2])
      PROVE  SettledInv'
  <2>1. shown' = Rebuilt(obs')
    BY <1>4 DEF Reading
  <2> QED
    BY <1>1, <1>2, <1>4, <2>1, RebuiltSettled, SavesEither DEF Reading
<1>5. CASE Rebuild
  <2>1. shown' = RebuiltKeepingControl(obs, shown) /\ obs' = obs
    BY <1>5 DEF Rebuild
  <2> QED
    BY <1>1, <1>2, <1>5, <2>1, RebuiltSettled, SavesEither DEF Rebuild
<1>6. CASE Crash
  <2>1. obs' = saved.obs /\ shown' = saved.shown /\ saved' = saved
    BY <1>6, LoadedAsRebuilt DEF Crash, SettledInv, Settled
  <2> QED
    BY <1>1, <1>2, <2>1 DEF SettledInv
<1>7. ASSUME NEW t \in Threads, Optimistic(t), TakesControl
      PROVE  SettledInv'
  <2>1. th[t].act # "none"
    BY <1>7 DEF Optimistic, Base, Placed, Toggles
  <2>2. obs' = obs /\ shown' = th[t].act /\ saved' = saved
    BY <1>7 DEF Optimistic, cache
  <2>3. S(obs, th[t].act)
    BY <1>7, <2>1 DEF S, TakesControl
  <2> QED
    BY <1>2, <2>2, <2>3
<1>8. ASSUME NEW t \in Threads, SaveControl(t)
      PROVE  SettledInv'
  <2>1. obs' = obs /\ shown' = shown
    BY <1>8 DEF SaveControl
  <2> QED
    BY <1>1, <1>2, <1>8, <2>1, SavesEither DEF SaveControl, SettledInv
<1> QED
  BY <1>3, <1>4, <1>5, <1>6, <1>7, <1>8, StoreEffects

LEMMA NewestInit == Init => NewestInv
BY DEF Init, NewestInv, Observed, Sources

(* Readings of other sources than the state itself that each say something.  *)
TellingReadings == \A r \in Readings : r[1] # "state" => Says(r[1], r[2]) # "none"

LEMMA NewestStep ==
  ASSUME TellingReadings
  PROVE  Base /\ FeedbackInv /\ SettledInv /\ NewestInv /\ [Next]_vars => NewestInv'
<1> SUFFICES ASSUME Base, FeedbackInv, SettledInv, NewestInv, [Next]_vars PROVE NewestInv'
  OBVIOUS
<1> /\ obs \in Observations /\ saved.obs \in Observations /\ clock \in Nat
    /\ shown \in Shown /\ saved.shown \in Shown
  BY DEF Base, ControlTypes
<1> kind' = kind
  BY KindStays
<1>1. CASE UNCHANGED <<obs, shown, clock, cache, newest>>
  BY <1>1 DEF NewestInv, Observed, cache
<1>2. ASSUME NEW r \in Readings, Reading(r[1], r[2])
      PROVE  NewestInv'
  <2> DEFINE o == [obs EXCEPT ![r[1]] = [value |-> r[2], at |-> clock + 1]]
  <2>1. o \in Observations /\ r[1] \in Sources
    BY ReadingTypes
  <2>2. /\ obs' = o /\ shown' = Rebuilt(o)
        /\ \/ saved' = [obs |-> o, shown |-> Rebuilt(o)] /\ kept' = newest'
           \/ saved' = saved /\ kept' = kept
        /\ newest' = IF Says(r[1], r[2]) # "none" THEN Says(r[1], r[2]) ELSE newest
        /\ r[1] = "state" => kind # "action_only"
    BY <1>2, SavesEither DEF Reading
  <2>3. ASSUME kind = "action_only"
        PROVE  ~Observed(o) /\ Rebuilt(o) = newest'
    <3>1. Says(r[1], r[2]) # "none" /\ newest' = Says(r[1], r[2])
      BY <2>2, <2>3 DEF TellingReadings
    <3>2. \A s \in Sources : s # r[1] => o[s].at < o[r[1]].at
      BY <2>1 DEF FeedbackInv, Observations
    <3>3. o[r[1]].value = r[2] /\ \A s \in Sources : o[s].at \in Nat
      BY <2>1 DEF Observations
    <3>4. Rebuilt(o) = Says(r[1], r[2])
      <4> HIDE DEF o
      <4> QED
        BY <2>1, <3>1, <3>2, <3>3, RebuiltLatest
    <3>5. ~Observed(o)
      BY <2>1, <2>2, <2>3 DEF NewestInv, Observed, Observations, Sources
    <3> QED
      BY <3>1, <3>4, <3>5
  <2> HIDE DEF o
  <2> QED
    BY <2>2, <2>3 DEF NewestInv, Observed
<1>3. CASE Rebuild
  <2>1. UNCHANGED <<obs, newest>> /\ shown' = shown
    BY <1>3 DEF Rebuild, SettledInv, Settled
  <2>2. \/ saved' = [obs |-> obs, shown |-> shown] /\ kept' = newest
        \/ saved' = saved /\ kept' = kept
    BY <1>3, <2>1, SavesEither DEF Rebuild
  <2> QED
    BY <2>1, <2>2 DEF NewestInv, Observed
<1>4. CASE Crash
  <2>1. obs' = saved.obs /\ saved' = saved /\ kept' = kept /\ newest' = kept
    BY <1>4 DEF Crash
  <2>2. shown' = saved.shown
    BY <1>4, LoadedAsRebuilt DEF Crash, SettledInv, Settled
  <2> QED
    BY <2>1, <2>2 DEF NewestInv, Observed
<1>5. ASSUME NEW t \in Threads, Optimistic(t), TakesControl
      PROVE  NewestInv'
  BY <1>5 DEF Optimistic, NewestInv, Observed, cache
<1>6. ASSUME NEW t \in Threads, SaveControl(t)
      PROVE  NewestInv'
  <2>1. UNCHANGED <<obs, shown, newest>>
    BY <1>6 DEF SaveControl
  <2>2. \/ saved' = [obs |-> obs, shown |-> shown] /\ kept' = newest
        \/ saved' = saved /\ kept' = kept
    BY <1>6, <2>1, SavesEither DEF SaveControl
  <2> QED
    BY <2>1, <2>2 DEF NewestInv, Observed
<1> QED
  BY <1>1, <1>2, <1>3, <1>4, <1>5, <1>6, StoreEffects

(* An action-only switch shows the last successful command or reading, also  *)
(* after discoveries and catalog changes, and after a restart the last one   *)
(* that was saved: reconcilePersistedMappings makes of the file what was     *)
(* shown when it was written. Every reading has to say something: a zero     *)
(* load or another event code, which replaces the reading that did, is what  *)
(* the run switch_zero_load shows it to need.                                *)
THEOREM ActionOnlyShowsNewest ==
  ASSUME TellingReadings
  PROVE  Spec => []NewestEvidence
<1>1. NewestInv => NewestEvidence
  BY DEF NewestInv, NewestEvidence
<1> QED
  BY <1>1, NewestInit, NewestStep, SettledInit, SettledStep, FeedbackInit, FeedbackStep,
     BaseAlways, PTL DEF Spec

-----------------------------------------------------------------------------
(* What is shown is saved                                                   *)

LEMMA SaveStep == Base /\ SettledInv /\ SaveInv /\ [Next]_vars => SaveInv'
<1> SUFFICES ASSUME Base, SettledInv, SaveInv, [Next]_vars PROVE SaveInv'
  OBVIOUS
<1> th \in [Threads -> Thread]
  BY DEF Base, ControlTypes
<1>1. ASSUME UNCHANGED <<obs, shown, saved, unsaved>>,
             \A t \in Threads : th[t].pc = "save" => th'[t].pc = "save"
      PROVE  SaveInv'
  BY <1>1 DEF SaveInv
<1>2. ASSUME Saves
      PROVE  SaveInv'
  BY <1>2, SavesEither DEF SaveInv
<1>3. ASSUME NEW t \in Callers, Request(t) \/ Publish(t)
      PROVE  SaveInv'
  BY <1>1, <1>3 DEF Request, Publish, Execute, CommandReaches, Acknowledged, PublishFails,
                    Goto, Threads, store, cache
<1>4. ASSUME NEW t \in Handlers, Hear(t) \/ Check(t)
      PROVE  SaveInv'
  BY <1>1, <1>4 DEF Hear, Check, Threads, store, cache
<1>5. ASSUME NEW t \in Threads, Steps(t)
      PROVE  SaveInv'
  <2>1. CASE Optimistic(t) /\ TakesControl
    <3>1. th'[t].pc = "save"
      BY <2>1 DEF Optimistic, Goto, Thread
    <3> QED
      BY <3>1 DEF SaveInv
  <2>2. CASE Optimistic(t) /\ ~TakesControl
    BY <1>1, <2>2 DEF Optimistic, Goto, cache
  <2>3. CASE SaveControl(t)
    BY <1>2, <2>3 DEF SaveControl
  <2>4. CASE Record(t) \/ Evaluate(t) \/ Deliver(t) \/ MarkSent(t)
    BY <1>1, <2>4 DEF Record, Evaluate, Deliver, MarkSent, Goto, store, cache
  <2> QED
    BY <1>5, <2>1, <2>2, <2>3, <2>4 DEF Steps
<1>6. ASSUME NEW r \in Readings, Reading(r[1], r[2])
      PROVE  SaveInv'
  BY <1>2, <1>6 DEF Reading
<1>7. ASSUME NEW act \in Toggles, OtherCommand(act)
      PROVE  SaveInv'
  BY <1>1, <1>7 DEF OtherCommand, store, cache
<1>8. CASE Press \/ TimePasses \/ UNCHANGED vars
  BY <1>1, <1>8 DEF Press, TimePasses, vars, store, cache
<1>9. CASE Rebuild
  BY <1>2, <1>9 DEF Rebuild
<1>10. CASE Crash
  <2>1. saved \in [obs : Observations, shown : Shown]
    BY DEF Base, ControlTypes
  <2>2. obs' = saved.obs /\ shown' = saved.shown /\ saved' = saved
    BY <1>10, LoadedAsRebuilt DEF Crash, SettledInv, Settled
  <2> QED
    BY <2>1, <2>2 DEF SaveInv
<1> QED
  BY <1>3, <1>4, <1>5, <1>6, <1>7, <1>8, <1>9, <1>10 DEF Next

(* When nothing is under way the cache holds what is shown, unless the last  *)
(* save failed: whoever changes it without saving stands right before its    *)
(* save (Execute, handleSetTopic), and a start shows what it has read.       *)
THEOREM QuietIsSaved == Spec => []SavedWhenQuiet
<1>1. Init => SaveInv
  BY DEF Init, SaveInv
<1>2. SaveInv => SavedWhenQuiet
  BY DEF SaveInv, SavedWhenQuiet, Quiet
<1> QED
  BY <1>1, <1>2, SettledInit, SettledStep, SaveStep, BaseAlways, PTL DEF Spec

-----------------------------------------------------------------------------
(* No command passes unnoticed                                              *)

LEMMA EnteredKept ==
  ASSUME Base, NEW act,
         Entered(act),
         audits' = audits \/ \E e \in Entry : audits' = Append(audits, e)
  PROVE  Entered(act)'
<1> audits \in Seq(Entry)
  BY DEF Base, ControlTypes
<1>1. PICK i \in DOMAIN audits : audits[i].act = act
  BY DEF Entered
<1>2. i \in DOMAIN audits' /\ audits'[i] = audits[i]
  BY AppendElements
<1> QED
  BY <1>1, <1>2 DEF Entered

LEMMA EnteredNow ==
  ASSUME Base, NEW e \in Entry, audits' = Append(audits, e)
  PROVE  Entered(e.act)'
<1>1. audits \in Seq(Entry)
  BY DEF Base, ControlTypes
<1>2. Len(audits) + 1 \in DOMAIN audits' /\ audits'[Len(audits) + 1] = e
  BY <1>1, AppendElements
<1> QED
  BY <1>2 DEF Entered

LEMMA OnBusKept ==
  ASSUME Base, NEW act, OnBus(act),
         bus' = bus \/ \E a \in Toggles : bus' = Append(bus, a)
  PROVE  OnBus(act)'
<1> bus \in Seq(Toggles)
  BY DEF Base, ControlTypes
<1>1. PICK i \in DOMAIN bus : bus[i] = act
  BY DEF OnBus
<1>2. i \in DOMAIN bus' /\ bus'[i] = bus[i]
  BY AppendElements
<1> QED
  BY <1>1, <1>2 DEF OnBus

LEMMA OnBusNow ==
  ASSUME Base, NEW act \in Toggles, bus' = Append(bus, act)
  PROVE  OnBus(act)'
<1>1. bus \in Seq(Toggles)
  BY DEF Base, ControlTypes
<1>2. Len(bus) + 1 \in DOMAIN bus' /\ bus'[Len(bus) + 1] = act
  BY <1>1, AppendElements
<1> QED
  BY <1>2 DEF OnBus

(* The message at the head leaves the bus for the handler, others stay.     *)
LEMMA OnBusHeard ==
  ASSUME Base, bus # <<>>, NEW act, OnBus(act), bus' = Tail(bus)
  PROVE  act = Head(bus) \/ OnBus(act)'
<1>1. bus \in Seq(Toggles)
  BY DEF Base, ControlTypes
<1>2. PICK i \in DOMAIN bus : bus[i] = act
  BY DEF OnBus
<1>3. CASE i = 1
  BY <1>1, <1>2, <1>3, TailElements
<1>4. CASE i # 1
  <2>1. i - 1 \in DOMAIN bus' /\ bus'[i - 1] = act
    BY <1>1, <1>2, <1>4, TailElements
  <2> QED
    BY <2>1 DEF OnBus
<1> QED
  BY <1>3, <1>4

(* What a step other than a crash does to the messages, the audit and the    *)
(* goroutines that handle a message.                                         *)
LEMMA RecordEffects ==
  ASSUME Base, NEW t \in Threads, Record(t)
  PROVE  \E e \in Entry : /\ audits' = Append(audits, e)
                          /\ e = [act |-> th[t].act, bridge |-> t \in Callers, ok |-> th[t].ok]
<1> DEFINE e == [act |-> th[t].act, bridge |-> t \in Callers, ok |-> th[t].ok]
<1>1. th[t] \in Thread /\ th[t].act \in Acts
  BY DEF Record, Base, ControlTypes, Placed
<1>2. e \in Entry
  BY <1>1 DEF Thread, Entry
<1> QED
  BY <1>2 DEF Record

LEMMA HandledGoesOn ==
  ASSUME Base, NEW t \in Threads, Steps(t), NEW act, Handled(act, Underway)
  PROVE  Handled(act, Underway)' \/ Entered(act)'
<1> th \in [Threads -> Thread] /\ Handlers \subseteq Threads
  BY DEF Base, ControlTypes, Threads
<1>1. PICK u \in Handlers : th[u].act = act /\ th[u].pc \in Underway
  BY DEF Handled
<1>2. CASE u # t
  <2>1. th'[u] = th[u]
    <3>1. CASE Optimistic(t)
      <4>1. PICK pc : Goto(t, pc)
        BY <3>1 DEF Optimistic
      <4> QED
        BY <4>1, <1>2 DEF Goto
    <3> QED
      BY <3>1, <1>2 DEF Steps, Record, SaveControl, Evaluate, Deliver, MarkSent, Goto
  <2> QED
    BY <1>1, <2>1 DEF Handled
<1>3. CASE u = t
  <2>1. u \notin Callers
    BY GoroutinesDiffer
  <2>2. CASE Record(t)
    <3>1. PICK e \in Entry : audits' = Append(audits, e) /\ e.act = th[t].act
      BY <2>2, RecordEffects
    <3>2. Entered(e.act)'
      BY <3>1, EnteredNow
    <3> QED
      BY <3>1, <3>2, <1>1, <1>3
  <2>3. CASE Optimistic(t)
    <3>1. PICK pc \in {"save", "record"} : Goto(t, pc)
      BY <2>1, <2>3, <1>3 DEF Optimistic, AfterSave
    <3>2. th'[u].act = act /\ th'[u].pc \in Underway
      BY <3>1, <1>1, <1>3 DEF Goto, Underway, Thread
    <3> QED
      BY <3>2 DEF Handled
  <2>4. CASE SaveControl(t)
    <3>1. th'[u].act = act /\ th'[u].pc \in Underway
      BY <2>1, <2>4, <1>1, <1>3 DEF SaveControl, AfterSave, Goto, Underway, Thread
    <3> QED
      BY <3>1 DEF Handled
  <2> QED
    BY <1>1, <1>3, <2>2, <2>3, <2>4 DEF Steps, Evaluate, Deliver, MarkSent, Underway
<1> QED
  BY <1>2, <1>3

LEMMA HandledChecks ==
  ASSUME Base, NEW t \in Handlers, Hear(t) \/ Check(t), NEW act, Handled(act, Underway)
  PROVE  Handled(act, Underway)' \/ Entered(act)'
<1> th \in [Threads -> Thread] /\ Handlers \subseteq Threads
  BY DEF Base, ControlTypes, Threads
<1>1. PICK u \in Handlers : th[u].act = act /\ th[u].pc \in Underway
  BY DEF Handled
<1>2. CASE u # t
  BY <1>1, <1>2 DEF Handled, Hear, Check
<1>3. CASE u = t
  <2>1. CASE Hear(t)
    BY <1>1, <1>3, <2>1 DEF Hear, Underway
  <2>2. CASE Check(t) /\ HasRecentBridgeControl(act)
    BY <2>2 DEF Check, HasRecentBridgeControl, Entered, audit
  <2>3. CASE Check(t) /\ ~HasRecentBridgeControl(act)
    <3>1. th'[u].act = act /\ th'[u].pc \in Underway
      BY <1>1, <1>3, <2>3 DEF Check, Underway, Thread
    <3> QED
      BY <3>1 DEF Handled
  <2> QED
    BY <2>1, <2>2, <2>3
<1> QED
  BY <1>2, <1>3

LEMMA HandledElsewhere ==
  ASSUME Base, NEW t \in Callers, Request(t) \/ Publish(t), NEW act, NEW pcs,
         Handled(act, pcs)
  PROVE  Handled(act, pcs)'
<1>1. \A u \in Handlers : th'[u] = th[u]
  <2>1. t \notin Handlers /\ Handlers \subseteq Threads
    BY GoroutinesDiffer DEF Threads
  <2> QED
    BY <2>1 DEF Request, Publish, Execute, CommandReaches, Acknowledged, PublishFails,
                Goto, Base, ControlTypes
<1> QED
  BY <1>1 DEF Handled

LEMMA AuditFrame ==
  ASSUME Base, AuditInv,
         audits' = audits \/ \E e \in Entry : audits' = Append(audits, e),
         bus' = bus \/ \E a \in Toggles : bus' = Append(bus, a),
         \A act : Handled(act, Underway) => Handled(act, Underway)' \/ Entered(act)',
         \A act \in heard' : act \in heard \/ OnBus(act)'
  PROVE  AuditInv'
<1> SUFFICES ASSUME NEW act \in heard'
             PROVE  Entered(act)' \/ OnBus(act)' \/ Handled(act, Underway)'
  BY DEF AuditInv
<1>1. CASE OnBus(act)'
  BY <1>1
<1>2. CASE act \in heard /\ Entered(act)
  BY <1>2, EnteredKept
<1>3. CASE act \in heard /\ OnBus(act)
  BY <1>3, OnBusKept
<1>4. CASE act \in heard /\ Handled(act, Underway)
  BY <1>4
<1> QED
  BY <1>1, <1>2, <1>3, <1>4 DEF AuditInv

LEMMA AuditStep == Base /\ AuditInv /\ [Next]_vars => AuditInv'
<1> SUFFICES ASSUME Base, AuditInv, [Next]_vars PROVE AuditInv'
  OBVIOUS
<1>1. ASSUME NEW t \in Callers, Request(t) \/ Publish(t)
      PROVE  AuditInv'
  <2>1. audits' = audits
    BY <1>1 DEF Request, Publish, Execute, CommandReaches, Acknowledged, PublishFails, audit
  <2>2. \A act : Handled(act, Underway) => Handled(act, Underway)'
    BY <1>1, HandledElsewhere
  <2>3. CASE CommandReaches(t)
    <3>1. th[t].act \in Toggles /\ t \in Threads
      BY <2>3 DEF CommandReaches, Base, Placed, Threads
    <3>2. PICK a \in Toggles : a = th[t].act
      BY <3>1
    <3>3. bus' = Append(bus, a) /\ heard' = heard \cup {a}
      BY <2>3, <3>2 DEF CommandReaches, Reaches
    <3>4. OnBus(a)'
      BY <3>3, OnBusNow
    <3> QED
      BY <2>1, <2>2, <3>3, <3>4, AuditFrame
  <2>4. CASE Request(t) \/ Acknowledged(t) \/ PublishFails(t)
    <3>1. bus' = bus /\ heard' = heard
      BY <2>4 DEF Request, Execute, Acknowledged, PublishFails
    <3> QED
      BY <2>1, <2>2, <3>1, AuditFrame
  <2> QED
    BY <1>1, <2>3, <2>4 DEF Publish
<1>2. ASSUME NEW t \in Handlers, Hear(t)
      PROVE  AuditInv'
  <2> SUFFICES ASSUME NEW act \in heard
               PROVE  Entered(act)' \/ OnBus(act)' \/ Handled(act, Underway)'
    BY <1>2 DEF Hear, AuditInv
  <2>1. audits' = audits /\ bus # <<>> /\ bus' = Tail(bus)
    BY <1>2 DEF Hear, audit
  <2>2. CASE OnBus(act) /\ act = Head(bus)
    <3>1. th'[t].act = act /\ th'[t].pc \in Underway
      BY <1>2, <2>2 DEF Hear, Underway, Base, ControlTypes, Threads
    <3> QED
      BY <3>1 DEF Handled
  <2>3. CASE OnBus(act) /\ act # Head(bus)
    BY <2>1, <2>3, OnBusHeard
  <2>4. CASE Entered(act)
    BY <2>1, <2>4, EnteredKept
  <2>5. CASE Handled(act, Underway)
    BY <1>2, <2>5, HandledChecks
  <2> QED
    BY <2>2, <2>3, <2>4, <2>5 DEF AuditInv
<1>3. ASSUME NEW t \in Handlers, Check(t)
      PROVE  AuditInv'
  <2>1. audits' = audits /\ bus' = bus /\ heard' = heard
    BY <1>3 DEF Check, audit
  <2> QED
    BY <1>3, <2>1, HandledChecks, AuditFrame
<1>4. ASSUME NEW t \in Threads, Steps(t)
      PROVE  AuditInv'
  <2>1. bus' = bus /\ heard' = heard
    BY <1>4 DEF Steps, Record, Optimistic, SaveControl, Evaluate, Deliver, MarkSent
  <2>2. audits' = audits \/ \E e \in Entry : audits' = Append(audits, e)
    BY <1>4, RecordEffects DEF Steps, Optimistic, SaveControl, Evaluate, Deliver, MarkSent, audit
  <2> QED
    BY <1>4, <2>1, <2>2, HandledGoesOn, AuditFrame
<1>5. ASSUME NEW a \in Toggles, OtherCommand(a)
      PROVE  AuditInv'
  <2>1. /\ UNCHANGED <<audits, th>>
        /\ bus' = Append(bus, a) /\ heard' = heard \cup {a}
    BY <1>5 DEF OtherCommand, Reaches, audit
  <2>2. OnBus(a)'
    BY <2>1, OnBusNow
  <2>3. \A act : Handled(act, Underway) => Handled(act, Underway)'
    BY <2>1 DEF Handled
  <2> QED
    BY <2>1, <2>2, <2>3, AuditFrame
<1>6. ASSUME UNCHANGED <<audits, th, bus, heard>>
      PROVE  AuditInv'
  BY <1>6 DEF AuditInv, Entered, OnBus, Handled
<1>7. CASE Crash
  BY <1>7 DEF Crash, AuditInv
<1>8. CASE Press \/ Rebuild \/ TimePasses \/ UNCHANGED vars
  BY <1>6, <1>8 DEF Press, Rebuild, TimePasses, vars, audit
<1>9. ASSUME NEW r \in Readings, Reading(r[1], r[2])
      PROVE  AuditInv'
  BY <1>6, <1>9 DEF Reading, audit
<1> QED
  BY <1>1, <1>2, <1>3, <1>4, <1>5, <1>7, <1>8, <1>9 DEF Next

LEMMA OthersStay ==
  ASSUME Base, NEW t \in Threads,
         Request(t) \/ Publish(t) \/ Hear(t) \/ Check(t) \/ Steps(t),
         NEW u \in Threads, u # t
  PROVE  th'[u] = th[u]
<1> th \in [Threads -> Thread]
  BY DEF Base, ControlTypes
<1>1. CASE Optimistic(t)
  <2>1. PICK pc : Goto(t, pc)
    BY <1>1 DEF Optimistic
  <2> QED
    BY <2>1 DEF Goto
<1>2. CASE Request(t) \/ Publish(t)
  BY <1>2 DEF Request, Publish, Execute, CommandReaches, Acknowledged, PublishFails, Goto
<1>3. CASE Hear(t) \/ Check(t) \/ Record(t) \/ SaveControl(t)
  BY <1>3 DEF Hear, Check, Record, SaveControl, Goto
<1>4. CASE Evaluate(t) \/ Deliver(t) \/ MarkSent(t)
  BY <1>4 DEF Evaluate, Deliver, MarkSent, Goto
<1> QED
  BY <1>1, <1>2, <1>3, <1>4 DEF Steps

(* Until failures have happened none has, and a failed publication is one.  *)
LEMMA NoFailureBefore ==
  ASSUME Base, [Next]_vars, spent'["failures"] = 0
  PROVE  spent["failures"] = 0 /\ \A t \in Callers : ~PublishFails(t)
<1> "failures" \in DOMAIN Limit
  BY LimitDomain
<1>1. ASSUME NEW what \in DOMAIN Limit, Spend(what)
      PROVE  spent["failures"] = 0 /\ what # "failures"
  BY <1>1, SpendTypes
<1>2. ASSUME NEW t \in Callers, Request(t) \/ Publish(t)
      PROVE  spent["failures"] = 0
  BY <1>1, <1>2, LimitDomain
     DEF Request, Publish, Execute, CommandReaches, Acknowledged, PublishFails
<1>3. ASSUME NEW t \in Threads, Steps(t) \/ Hear(t) \/ Check(t)
      PROVE  spent["failures"] = 0
  BY <1>3 DEF Steps, Record, Optimistic, SaveControl, Evaluate, Deliver, MarkSent, Hear, Check
<1>4. ASSUME NEW r \in Readings, Reading(r[1], r[2])
      PROVE  spent["failures"] = 0
  BY <1>1, <1>4, LimitDomain DEF Reading
<1>5. ASSUME NEW a \in Toggles, OtherCommand(a)
      PROVE  spent["failures"] = 0
  BY <1>1, <1>5, LimitDomain DEF OtherCommand
<1>6. ASSUME Press PROVE spent["failures"] = 0
  BY <1>1, <1>6, LimitDomain DEF Press
<1>7. ASSUME TimePasses PROVE spent["failures"] = 0
  BY <1>1, <1>7, LimitDomain DEF TimePasses
<1>8. ASSUME Crash PROVE spent["failures"] = 0
  BY <1>1, <1>8, LimitDomain DEF Crash
<1>9. ASSUME Rebuild \/ UNCHANGED vars PROVE spent["failures"] = 0
  BY <1>9 DEF Rebuild, vars
<1>10. \A t \in Callers : ~PublishFails(t)
  BY <1>1, LimitDomain DEF PublishFails
<1> QED
  BY <1>2, <1>3, <1>4, <1>5, <1>6, <1>7, <1>8, <1>9, <1>10 DEF Next, Threads

(* A control on its way to the rules stays on its way until they see it.    *)
LEMMA SeenKept ==
  ASSUME Base, NEW t \in Threads,
         Request(t) \/ Publish(t) \/ Hear(t) \/ Check(t) \/ Steps(t),
         NEW act, Seen(act)
  PROVE  Seen(act)'
<1> th \in [Threads -> Thread]
  BY DEF Base, ControlTypes
<1>1. noticed \subseteq noticed'
  BY DEF Request, Publish, Steps, Execute, CommandReaches, Acknowledged, PublishFails,
         Record, Optimistic, SaveControl, Evaluate, Deliver, MarkSent, Hear, Check, rule
<1>2. CASE act \in noticed
  BY <1>1, <1>2 DEF Seen
<1>3. ASSUME NEW u \in Threads, th[u].act = act, th[u].ok, th[u].pc \in Rule
      PROVE  Seen(act)'
  <2>1. CASE u # t
    BY <1>3, <2>1, OthersStay DEF Seen, Rule
  <2>2. CASE u = t /\ Record(t)
    BY <1>3, <2>2 DEF Record, AfterRecord, Goto, Seen, Rule, Thread
  <2>3. CASE u = t /\ Optimistic(t)
    <3>1. PICK pc \in {"save", "notify", "record"} : Goto(t, pc)
      BY <2>3 DEF Optimistic, AfterSave
    <3> QED
      BY <3>1, <1>3, <2>3 DEF Goto, Seen, Rule, Thread
  <2>4. CASE u = t /\ SaveControl(t)
    BY <1>3, <2>4 DEF SaveControl, AfterSave, Goto, Seen, Rule, Thread
  <2>5. CASE u = t /\ Evaluate(t)
    BY <1>3, <2>5 DEF Evaluate, Seen
  <2>6. CASE u = t /\ (Request(t) \/ Publish(t) \/ Hear(t) \/ Check(t) \/ Deliver(t) \/ MarkSent(t))
    BY <1>3, <2>6 DEF Request, Publish, Execute, CommandReaches, Acknowledged, PublishFails,
                      Hear, Check, Deliver, MarkSent, Rule
  <2> QED
    BY <2>1, <2>2, <2>3, <2>4, <2>5, <2>6 DEF Steps
<1> QED
  BY <1>2, <1>3 DEF Seen, Rule

LEMMA RecordsOkStep ==
  ASSUME Base, RecordsOk, [Next]_vars, \A t \in Callers : ~PublishFails(t)
  PROVE  RecordsOk'
<1> th \in [Threads -> Thread] /\ \A t \in Threads : Placed(th[t])
  BY DEF Base, ControlTypes
<1>1. ASSUME NEW t \in Threads,
             \/ Request(t) \/ CommandReaches(t) \/ Acknowledged(t)
             \/ Hear(t) \/ Check(t) \/ Steps(t)
      PROVE  RecordsOk'
  <2> SUFFICES ASSUME th'[t].pc = "record", th'[t].act \in Toggles
               PROVE  th'[t].ok
    BY <1>1, OthersStay DEF RecordsOk, Publish
  <2>1. CASE Request(t)
    BY <2>1 DEF Request, Execute
  <2>2. CASE Optimistic(t)
    <3>1. PICK pc : Goto(t, pc)
      BY <2>2 DEF Optimistic
    <3> QED
      BY <3>1, <2>2 DEF Goto, Optimistic, Placed, Thread
  <2>3. CASE SaveControl(t)
    BY <2>3 DEF SaveControl, Goto, Placed, Thread
  <2>4. CASE Record(t) \/ Evaluate(t) \/ Deliver(t) \/ MarkSent(t)
    BY <2>4 DEF Record, AfterRecord, Evaluate, Deliver, MarkSent, Goto, Idle, Thread
  <2>5. CASE CommandReaches(t) \/ Acknowledged(t) \/ Hear(t) \/ Check(t)
    BY <2>5 DEF CommandReaches, Acknowledged, Hear, Check, Goto, Idle, Thread
  <2> QED
    BY <1>1, <2>1, <2>2, <2>3, <2>4, <2>5 DEF Steps
<1>2. ASSUME UNCHANGED th
      PROVE  RecordsOk'
  BY <1>2 DEF RecordsOk
<1>3. CASE Crash
  BY <1>3 DEF Crash, RecordsOk, Idle
<1>4. ASSUME NEW r \in Readings, Reading(r[1], r[2])
      PROVE  RecordsOk'
  BY <1>2, <1>4 DEF Reading
<1>5. ASSUME NEW a \in Toggles, OtherCommand(a)
      PROVE  RecordsOk'
  BY <1>2, <1>5 DEF OtherCommand
<1>6. CASE Press \/ Rebuild \/ TimePasses \/ UNCHANGED vars
  BY <1>2, <1>6 DEF Press, Rebuild, TimePasses, vars
<1> QED
  BY <1>1, <1>3, <1>4, <1>5, <1>6 DEF Next, Publish, Threads

LEMMA SeenUnchanged ==
  ASSUME UNCHANGED <<th, noticed>>, NEW act, Seen(act)
  PROVE  Seen(act)'
BY DEF Seen

(* Every record of the bridge is an old one, or one a request makes of a     *)
(* publication that worked and whose rule is still to come.                  *)
LEMMA RecordedStep ==
  ASSUME Base, RecordedSeen, RecordsOk, NEW t \in Threads,
         Request(t) \/ Publish(t) \/ Hear(t) \/ Check(t) \/ Steps(t)
  PROVE  RecordedSeen'
<1> audits \in Seq(Entry) /\ th \in [Threads -> Thread]
  BY DEF Base, ControlTypes
<1> SUFFICES ASSUME NEW act \in Toggles, Recorded(act)'
             PROVE  Seen(act)'
  BY DEF RecordedSeen
<1>1. CASE audits' = audits
  BY <1>1, SeenKept DEF RecordedSeen, Recorded
<1>2. CASE Record(t)
  <2>1. PICK e \in Entry : /\ audits' = Append(audits, e)
                           /\ e = [act |-> th[t].act, bridge |-> t \in Callers, ok |-> th[t].ok]
    BY <1>2, RecordEffects
  <2>2. PICK i \in DOMAIN audits' : audits'[i].bridge /\ audits'[i].act = act
    BY DEF Recorded
  <2>3. CASE i = Len(audits) + 1
    <3>1. audits'[i] = e
      BY <2>1, <2>3, AppendElements
    <3>2. th[t].act = act
      BY <2>1, <2>2, <3>1
    <3>3. t \in Callers
      <4>1. e.bridge = (t \in Callers)
        BY <2>1
      <4>2. e.bridge
        BY <2>2, <3>1
      <4> QED
        BY <4>1, <4>2
    <3>4. th[t].ok /\ t \notin Handlers
      BY <1>2, <3>2, <3>3, GoroutinesDiffer DEF Record, RecordsOk
    <3>5. Seen(act)
      BY <1>2, <3>2, <3>4 DEF Record, Seen, Rule
    <3> QED
      BY <3>5, SeenKept
  <2>4. CASE i # Len(audits) + 1
    <3>1. i \in DOMAIN audits /\ audits'[i] = audits[i]
      BY <2>1, <2>4, AppendElements
    <3>2. Seen(act)
      BY <2>2, <3>1 DEF RecordedSeen, Recorded
    <3> QED
      BY <3>2, SeenKept
  <2> QED
    BY <2>3, <2>4
<1> QED
  BY <1>1, <1>2 DEF Request, Publish, Steps, Execute, CommandReaches, Acknowledged, PublishFails,
                    Hear, Check, Optimistic, SaveControl, Evaluate, Deliver, MarkSent, audit

(* A command is on the bus, in a handler that checks it, or on its way to    *)
(* the rules; one dropped as an echo is on that way as the bridge's own.     *)
LEMMA HeardStep ==
  ASSUME Base, HeardSeen, RecordedSeen, NEW t \in Threads,
         \/ t \in Callers /\ (Request(t) \/ Publish(t))
         \/ t \in Handlers /\ (Hear(t) \/ Check(t))
         \/ Steps(t)
  PROVE  HeardSeen'
<1> th \in [Threads -> Thread] /\ Handlers \subseteq Threads
  BY DEF Base, ControlTypes, Threads
<1>1. ASSUME NEW act, Seen(act)
      PROVE  Seen(act)'
  BY <1>1, SeenKept
<1>2. CASE t \in Callers /\ (Request(t) \/ Publish(t))
  <2>1. \A act : Handled(act, {"check"}) => Handled(act, {"check"})'
    BY <1>2, HandledElsewhere
  <2>2. CASE CommandReaches(t)
    <3>1. th[t].act \in Toggles
      BY <2>2 DEF CommandReaches, Base, Placed
    <3>2. PICK a \in Toggles : a = th[t].act
      BY <3>1
    <3>3. bus' = Append(bus, a) /\ heard' = heard \cup {a}
      BY <2>2, <3>2 DEF CommandReaches, Reaches
    <3>4. OnBus(a)'
      BY <3>3, OnBusNow
    <3>5. \A act : OnBus(act) => OnBus(act)'
      BY <3>3, OnBusKept
    <3> QED
      BY <1>1, <2>1, <3>3, <3>4, <3>5 DEF HeardSeen
  <2>3. CASE Request(t) \/ Acknowledged(t) \/ PublishFails(t)
    <3>1. bus' = bus /\ heard' = heard
      BY <2>3 DEF Request, Execute, Acknowledged, PublishFails
    <3>2. \A act : OnBus(act) => OnBus(act)'
      BY <3>1 DEF OnBus
    <3> QED
      BY <1>1, <2>1, <3>1, <3>2 DEF HeardSeen
  <2> QED
    BY <1>2, <2>2, <2>3 DEF Publish
<1>3. CASE t \in Handlers /\ Hear(t)
  <2> SUFFICES ASSUME NEW act \in heard
               PROVE  OnBus(act)' \/ Handled(act, {"check"})' \/ Seen(act)'
    BY <1>3 DEF Hear, HeardSeen
  <2>1. bus # <<>> /\ bus' = Tail(bus) /\ th[t].pc = "idle"
    BY <1>3 DEF Hear
  <2>2. CASE OnBus(act) /\ act = Head(bus)
    BY <1>3, <2>2 DEF Hear, Handled
  <2>3. CASE OnBus(act) /\ act # Head(bus)
    BY <2>1, <2>3, OnBusHeard
  <2>4. CASE Handled(act, {"check"})
    BY <1>3, <2>1, <2>4 DEF Hear, Handled
  <2>5. CASE Seen(act)
    BY <1>1, <2>5
  <2> QED
    BY <2>2, <2>3, <2>4, <2>5 DEF HeardSeen
<1>4. CASE t \in Handlers /\ Check(t)
  <2> SUFFICES ASSUME NEW act \in heard
               PROVE  OnBus(act)' \/ Handled(act, {"check"})' \/ Seen(act)'
    BY <1>4 DEF Check, HeardSeen
  <2>1. CASE OnBus(act)
    BY <1>4, <2>1 DEF Check, OnBus
  <2>2. CASE Seen(act)
    BY <1>1, <2>2
  <2>3. ASSUME NEW u \in Handlers, th[u].act = act, th[u].pc = "check", u # t
        PROVE  Handled(act, {"check"})'
    BY <1>4, <2>3 DEF Check, Handled
  <2>4. ASSUME th[t].act = act, th[t].pc = "check"
        PROVE  Seen(act)'
    <3>1. act \in Toggles /\ th[t].ok
      BY <2>4 DEF Base, Placed
    <3>2. CASE HasRecentBridgeControl(act)
      <4>1. Seen(act)
        BY <3>1, <3>2 DEF HasRecentBridgeControl, RecordedSeen, Recorded
      <4> QED
        BY <1>1, <4>1
    <3>3. CASE ~HasRecentBridgeControl(act)
      <4>1. th'[t] = [th[t] EXCEPT !.pc = "optimistic"]
        BY <1>4, <2>4, <3>3 DEF Check
      <4> QED
        BY <2>4, <3>1, <4>1 DEF Seen, Rule, Thread
    <3> QED
      BY <3>2, <3>3
  <2> QED
    BY <2>1, <2>2, <2>3, <2>4 DEF HeardSeen, Handled
<1>5. CASE Steps(t)
  <2>1. bus' = bus /\ heard' = heard
    BY <1>5 DEF Steps, Record, Optimistic, SaveControl, Evaluate, Deliver, MarkSent
  <2>2. th[t].pc # "check"
    BY <1>5 DEF Steps, Record, Optimistic, SaveControl, Evaluate, Deliver, MarkSent
  <2>3. \A act : Handled(act, {"check"}) => Handled(act, {"check"})'
    BY <1>5, <2>2, OthersStay DEF Handled
  <2>4. \A act : OnBus(act) => OnBus(act)'
    BY <2>1 DEF OnBus
  <2> QED
    BY <1>1, <2>1, <2>3, <2>4 DEF HeardSeen
<1> QED
  BY <1>2, <1>3, <1>4, <1>5

LEMMA NoticeStep == Base /\ NoticeInv /\ [Next]_vars => NoticeInv'
<1> SUFFICES ASSUME Base, NoticeInv, [Next]_vars, spent'["failures"] = 0
             PROVE  HeardSeen' /\ RecordedSeen' /\ RecordsOk'
  BY DEF NoticeInv
<1>1. HeardSeen /\ RecordedSeen /\ RecordsOk /\ \A t \in Callers : ~PublishFails(t)
  BY NoFailureBefore DEF NoticeInv
<1>2. RecordsOk'
  BY <1>1, RecordsOkStep
<1>3. ASSUME NEW t \in Threads,
             \/ t \in Callers /\ (Request(t) \/ Publish(t))
             \/ t \in Handlers /\ (Hear(t) \/ Check(t))
             \/ Steps(t)
      PROVE  HeardSeen' /\ RecordedSeen'
  BY <1>1, <1>3, HeardStep, RecordedStep
<1>4. ASSUME UNCHANGED <<audits, th, noticed>>,
             \A act : OnBus(act) => OnBus(act)',
             \A act \in heard' : act \in heard \/ OnBus(act)'
      PROVE  HeardSeen' /\ RecordedSeen'
  <2>1. \A act : Handled(act, {"check"}) => Handled(act, {"check"})'
    BY <1>4 DEF Handled
  <2>2. HeardSeen'
    BY <1>1, <1>4, <2>1, SeenUnchanged DEF HeardSeen
  <2>3. RecordedSeen'
    BY <1>1, <1>4 DEF RecordedSeen, Recorded, Seen
  <2> QED
    BY <2>2, <2>3
<1>5. ASSUME NEW a \in Toggles, OtherCommand(a)
      PROVE  HeardSeen' /\ RecordedSeen'
  <2>1. /\ UNCHANGED <<audits, th, noticed>>
        /\ bus' = Append(bus, a) /\ heard' = heard \cup {a}
    BY <1>5 DEF OtherCommand, Reaches, audit, rule
  <2>2. OnBus(a)'
    BY <2>1, OnBusNow
  <2>3. \A act : OnBus(act) => OnBus(act)'
    BY <2>1, OnBusKept
  <2> QED
    BY <1>4, <2>1, <2>2, <2>3
<1>6. ASSUME UNCHANGED <<audits, th, noticed, bus, heard>>
      PROVE  HeardSeen' /\ RecordedSeen'
  BY <1>4, <1>6 DEF OnBus
<1>7. ASSUME Crash
      PROVE  HeardSeen' /\ RecordedSeen'
  BY <1>7 DEF Crash, HeardSeen, RecordedSeen, Recorded
<1>8. ASSUME Press \/ Rebuild \/ TimePasses \/ UNCHANGED vars
      PROVE  HeardSeen' /\ RecordedSeen'
  BY <1>6, <1>8 DEF Press, Rebuild, TimePasses, vars, audit, rule
<1>9. ASSUME NEW r \in Readings, Reading(r[1], r[2])
      PROVE  HeardSeen' /\ RecordedSeen'
  BY <1>6, <1>9 DEF Reading, audit, rule
<1> QED
  BY <1>2, <1>3, <1>5, <1>7, <1>8, <1>9 DEF Next, Threads

LEMMA AlertStep == Base /\ AlertInv /\ [Next]_vars => AlertInv'
<1> SUFFICES ASSUME Base, AlertInv, [Next]_vars PROVE AlertInv'
  OBVIOUS
<1> th \in [Threads -> Thread] /\ alerted \in BOOLEAN
  BY DEF Base, ControlTypes
<1>1. ASSUME UNCHANGED <<cooling, alerted, noticed>>,
             \A t \in Threads : th[t].pc = "deliver" => th'[t].pc = "deliver",
             \A t \in Threads : th'[t].pc = "mark" => th[t].pc = "mark"
      PROVE  AlertInv'
  BY <1>1 DEF AlertInv
<1>2. ASSUME NEW t \in Threads, Request(t) \/ Publish(t) \/ Hear(t) \/ Check(t)
      PROVE  AlertInv'
  BY <1>1, <1>2 DEF Request, Publish, Execute, CommandReaches, Acknowledged, PublishFails,
                    Hear, Check, Goto, Idle, Thread, rule
<1>3. ASSUME NEW t \in Threads, Record(t)
      PROVE  AlertInv'
  BY <1>1, <1>3 DEF Record, AfterRecord, Goto, Thread, rule
<1>4. ASSUME NEW t \in Threads, Optimistic(t)
      PROVE  AlertInv'
  <2>1. PICK pc \in {"save", "notify", "record"} : Goto(t, pc)
    BY <1>4 DEF Optimistic, AfterSave
  <2> QED
    BY <1>1, <1>4, <2>1 DEF Optimistic, Goto, Thread, rule
<1>5. ASSUME NEW t \in Threads, SaveControl(t)
      PROVE  AlertInv'
  BY <1>1, <1>5 DEF SaveControl, AfterSave, Goto, Thread, rule
<1>6. ASSUME NEW t \in Threads, Evaluate(t)
      PROVE  AlertInv'
  <2>1. CASE th[t].ok /\ ~cooling
    <3>1. th'[t].pc = "deliver"
      BY <1>6, <2>1 DEF Evaluate, Thread
    <3>2. \A u \in Threads : u # t => th'[u] = th[u]
      BY <1>6, OthersStay DEF Steps
    <3> QED
      BY <1>6, <3>1, <3>2 DEF Evaluate, AlertInv
  <2>2. CASE th[t].ok /\ cooling
    BY <1>6, <2>2 DEF Evaluate, AlertInv, Idle
  <2>3. CASE ~th[t].ok
    BY <1>1, <1>6, <2>3 DEF Evaluate, Idle
  <2> QED
    BY <2>1, <2>2, <2>3
<1>7. ASSUME NEW t \in Threads, Deliver(t)
      PROVE  AlertInv'
  BY <1>7 DEF Deliver, Goto, AlertInv, Thread
<1>8. ASSUME NEW t \in Threads, MarkSent(t)
      PROVE  AlertInv'
  BY <1>8 DEF MarkSent, AlertInv, Idle
<1>9. ASSUME NEW a \in Toggles, OtherCommand(a)
      PROVE  AlertInv'
  BY <1>1, <1>9 DEF OtherCommand, rule
<1>10. ASSUME NEW r \in Readings, Reading(r[1], r[2])
      PROVE  AlertInv'
  BY <1>1, <1>10 DEF Reading, rule
<1>11. CASE Press \/ Rebuild \/ UNCHANGED vars
  BY <1>1, <1>11 DEF Press, Rebuild, vars, rule
<1>12. CASE TimePasses
  <2>1. cooling' => cooling
    BY <1>12 DEF TimePasses, Base, ControlTypes
  <2> QED
    BY <1>12, <2>1 DEF TimePasses, AlertInv
<1>13. CASE Crash
  BY <1>13 DEF Crash, AlertInv, Idle
<1> QED
  BY <1>2, <1>3, <1>4, <1>5, <1>6, <1>7, <1>8, <1>9, <1>10, <1>11, <1>12, <1>13
     DEF Next, Steps, Threads

(* No command passes the bridge unnoticed: each one is on the bus, in a      *)
(* handler, or has its entry; and without failures it is moreover on its way *)
(* to the rules even when it is dropped as an echo, because the bridge       *)
(* recorded it itself, and the first the rules see alerts (handleSetTopic,   *)
(* HasRecentBridgeControl, evaluate, cooldownReady, markSent).               *)
THEOREM NothingUnnoticed == Spec => []CommandsNoticed
<1>1. Init => AuditInv /\ NoticeInv /\ AlertInv
  BY DEF Init, AuditInv, NoticeInv, AlertInv, HeardSeen, RecordedSeen, Recorded,
         RecordsOk, Idle
<1>2. AuditInv /\ NoticeInv /\ AlertInv => CommandsNoticed
  <2> SUFFICES ASSUME AuditInv, NoticeInv, AlertInv, Quiet
               PROVE  /\ \A act \in heard : \E i \in DOMAIN audits : audits[i].act = act
                      /\ spent.failures = 0 =>
                           heard \subseteq noticed /\ (heard # {} => alerted)
    BY DEF CommandsNoticed
  <2>1. \A act : ~OnBus(act) /\ ~Handled(act, Underway) /\ ~Handled(act, {"check"})
    BY DEF Quiet, OnBus, Handled, Underway, Threads
  <2>2. \A act : Seen(act) => act \in noticed
    BY DEF Quiet, Seen, Rule
  <2>3. \A act \in heard : \E i \in DOMAIN audits : audits[i].act = act
    BY <2>1 DEF AuditInv, Entered
  <2>4. ASSUME spent.failures = 0
        PROVE  heard \subseteq noticed /\ (heard # {} => alerted)
    <3>1. heard \subseteq noticed
      BY <2>1, <2>2, <2>4 DEF NoticeInv, HeardSeen
    <3> QED
      BY <3>1 DEF AlertInv, Quiet
  <2> QED
    BY <2>3, <2>4
<1> QED
  BY <1>1, <1>2, AuditStep, NoticeStep, AlertStep, BaseAlways, PTL DEF Spec
=============================================================================
