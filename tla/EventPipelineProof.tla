-------------------------- MODULE EventPipelineProof --------------------------
(***************************************************************************)
(* Theorems about EventPipeline for any number of connections, zones,      *)
(* events and catalog changes.                                             *)
(***************************************************************************)
EXTENDS EventPipeline, WellFoundedInduction, TLAPS

(* The engine's snapshot, the first one, and every one a goroutine or the    *)
(* queue holds.                                                              *)
Held == {held[w].state : w \in Writers} \cup {u.state : u \in queue}
Around == Held \cup {state, Start}

(* Snapshots are taken from a state that only grows.                         *)
Below(s, t) == Revision(s) <= Revision(t) => \A e \in Entities : s[e] <= t[e]

Agree ==
  /\ \A s \in Around : Revision(s) <= Revision(state)
  /\ \A s, t \in Around : Below(s, t)

(* A snapshot a gate lets through shows nothing older than is shown.         *)
Newer(s) == \A e \in Entities : latest[e] <= Revision(s) => ha[e] <= s[e]

Gates ==
  /\ \A e \in Entities : latest[e] <= Revision(state) /\ ha[e] <= latest[e]
  /\ \A s \in Around : Newer(s)

Inv == TypeOK /\ Agree /\ Gates
-------------------------------------------------------------------------------
(* The revision of a snapshot                                                *)

LEMMA LargestOf ==
  ASSUME NEW N \in Nat, NEW T \in SUBSET (0..N), T # {}
  PROVE  \E m \in T : \A x \in T : x <= m
<1> DEFINE D == {N - x : x \in T}
           R == OpToRel(<, Nat)
<1>1. D \subseteq Nat /\ D # {}
  <2>1. \A x \in T : x \in Nat /\ x <= N
    OBVIOUS
  <2>2. \A x \in T : N - x \in Nat
    BY <2>1
  <2> QED
    BY <2>2
<1>2. IsWellFoundedOn(R, Nat)
  BY NatLessThanWellFounded
<1>3. PICK d \in D : \A y \in D : ~(<<y, d>> \in R)
  <2> HIDE DEF D, R
  <2> QED
    BY <1>1, <1>2, WFMin
<1>4. \A y \in D : d <= y
  <2> SUFFICES ASSUME NEW y \in D PROVE d <= y
    OBVIOUS
  <2>1. ~(<<y, d>> \in R)
    BY <1>3
  <2>2. y \in Nat /\ d \in Nat
    BY <1>1
  <2> HIDE DEF D
  <2>3. ~(y < d)
    BY <2>1, <2>2 DEF OpToRel
  <2> QED
    BY <2>2, <2>3
<1>5. PICK m \in T : d = N - m
  OBVIOUS
<1>6. ASSUME NEW x \in T PROVE x <= m
  <2>1. N - x \in D
    OBVIOUS
  <2>2. d <= N - x
    BY <1>4, <2>1
  <2> QED
    BY <1>5, <2>2
<1> QED
  BY <1>6

LEMMA RevisionFacts ==
  ASSUME NEW s \in Snapshots
  PROVE  /\ Revision(s) \in Numbers
         /\ \A e \in Entities : s[e] <= Revision(s)
         /\ \E e \in Entities : s[e] = Revision(s)
<1> DEFINE T == {s[e] : e \in Entities}
<1>1. T \in SUBSET (0..MaxEvents) /\ T # {}
  BY DEF Snapshots, Numbers, Entities
<1>2. PICK m \in T : \A x \in T : x <= m
  <2> HIDE DEF T
  <2> QED
    BY <1>1, PipelineAssumption, LargestOf
<1>3. /\ m \in Numbers /\ \E e \in Entities : s[e] = m
      /\ \A e \in Entities : s[e] <= m
  BY <1>1, <1>2 DEF Numbers
<1> QED
  BY <1>3 DEF Revision

LEMMA RevisionIs ==
  ASSUME NEW s \in Snapshots, NEW n \in Numbers,
         \E e \in Entities : s[e] = n, \A e \in Entities : s[e] <= n
  PROVE  Revision(s) = n
<1>1. /\ Revision(s) \in Numbers
      /\ \A e \in Entities : s[e] <= Revision(s)
      /\ \E e \in Entities : s[e] = Revision(s)
  BY RevisionFacts
<1>2. Revision(s) <= n /\ n <= Revision(s)
  BY <1>1
<1> QED
  BY <1>1, <1>2 DEF Numbers

LEMMA StartIsFirst ==
  /\ Start \in Snapshots /\ Revision(Start) = 0
  /\ \A s \in Snapshots : Below(Start, s) /\ Below(s, Start)
<1>1. Start \in Snapshots /\ 0 \in Numbers
  BY PipelineAssumption DEF Start, Snapshots, Numbers
<1>2. Revision(Start) = 0
  BY <1>1, RevisionIs DEF Start, Entities
<1>3. ASSUME NEW s \in Snapshots PROVE Below(Start, s) /\ Below(s, Start)
  <2>1. Revision(s) \in Numbers /\ \A e \in Entities : s[e] <= Revision(s) /\ s[e] \in Numbers
    BY RevisionFacts DEF Snapshots
  <2> QED
    BY <1>2, <2>1, PipelineAssumption DEF Below, Start, Numbers
<1> QED
  BY <1>1, <1>2, <1>3

LEMMA AroundTypes ==
  ASSUME TypeOK
  PROVE  Around \subseteq Snapshots
<1>1. \A w \in Writers : held[w].state \in Snapshots
  BY DEF TypeOK, Updates
<1>2. \A u \in queue : u.state \in Snapshots
  BY DEF TypeOK, Updates
<1> QED
  BY <1>1, <1>2, StartIsFirst DEF Around, Held, TypeOK
-------------------------------------------------------------------------------
(* Types                                                                     *)

LEMMA TypesInit == Init => TypeOK
<1> SUFFICES ASSUME Init PROVE TypeOK
  OBVIOUS
<1>1. Nothing \in Updates /\ [of |-> Entities, state |-> Start] \in Updates
  BY StartIsFirst DEF Nothing, Updates
<1> QED
  BY <1>1, StartIsFirst, PipelineAssumption DEF Init, TypeOK, Snapshots, Numbers, Start

LEMMA StepTypes ==
  ASSUME TypeOK, NEW w \in Writers, NEW from, NEW to, Step(w, from, to),
         to \in {"idle", "account", "zones", "offer", "drain", "again", "forward"},
         held' \in [Writers -> Updates],
         metrics' \in [Entities -> Numbers \cup {Absent}],
         queue' \in SUBSET Updates, \A u, v \in queue' : u = v
  PROVE  TypeOK'
BY DEF Step, TypeOK

LEMMA TakeTypes ==
  ASSUME TypeOK, NEW w \in Writers, NEW of \in SUBSET Entities, state' \in Snapshots,
         changes' \in 0..MaxCatalog, Take(w, of, state')
  PROVE  TypeOK'
<1>1. [of |-> of, state |-> state'] \in Updates
  BY DEF Updates
<1>2. held' \in [Writers -> Updates]
  BY <1>1 DEF Take, TypeOK
<1> QED
  BY <1>2 DEF Take, TypeOK

LEMMA PublishTypes ==
  ASSUME TypeOK, NEW s \in Snapshots, NEW of \in SUBSET Entities, Publish(s, of)
  PROVE  latest' \in [Entities -> Numbers] /\ ha' \in Snapshots
BY RevisionFacts DEF Publish, TypeOK, Snapshots

(* An event has a revision of its own, newer than all before.                *)
LEMMA FrameFacts ==
  ASSUME TypeOK, NEW c \in Connections, NEW of \in SUBSET Entities, of # {}, HandleFrame(c, of)
  PROVE  /\ state' \in Snapshots /\ Revision(state') = Revision(state) + 1
         /\ \A e \in Entities : state[e] <= state'[e]
<1>1. Revision(state) \in Numbers /\ \A e \in Entities : state[e] <= Revision(state) /\ state[e] \in Numbers
  BY RevisionFacts DEF TypeOK, Snapshots
<1> DEFINE n == Revision(state) + 1
<1>2. n \in Numbers /\ Revision(state) \in Nat
  BY <1>1, PipelineAssumption DEF HandleFrame, Numbers
<1>3. state' = [e \in Entities |-> IF e \in of THEN n ELSE state[e]]
  BY DEF HandleFrame
<1> HIDE DEF n
<1>4. state' \in Snapshots
  BY <1>1, <1>2, <1>3 DEF Snapshots
<1>5. (\E e \in Entities : state'[e] = n) /\ \A e \in Entities : state'[e] <= n /\ state[e] <= state'[e]
  BY <1>1, <1>2, <1>3 DEF n, Numbers
<1>6. Revision(state') = n
  BY <1>2, <1>4, <1>5, RevisionIs
<1> QED
  BY <1>4, <1>5, <1>6 DEF n

LEMMA TypesStep == TypeOK /\ [Next]_vars => TypeOK'
<1> SUFFICES ASSUME TypeOK, [Next]_vars PROVE TypeOK'
  OBVIOUS
<1>1. ASSUME NEW c \in Connections, Handle(c) PROVE TypeOK'
  <2>1. PICK of \in SUBSET Entities : of # {} /\ HandleFrame(c, of)
    BY <1>1 DEF Handle, Entities
  <2>2. Take(c, of, state') /\ changes' = changes
    BY <2>1 DEF HandleFrame
  <2>3. c \in Writers /\ changes' \in 0..MaxCatalog
    BY <2>2 DEF Writers, TypeOK
  <2> QED
    BY <2>1, <2>2, <2>3, FrameFacts, TakeTypes
<1>2. CASE CatalogChanged
  <2>1. Take("catalog", Entities, state') /\ state' = state /\ changes' \in 0..MaxCatalog
    BY <1>2, PipelineAssumption DEF CatalogChanged, TypeOK
  <2>2. "catalog" \in Writers /\ state' \in Snapshots
    BY <2>1 DEF Writers, TypeOK
  <2> QED
    BY <2>1, <2>2, TakeTypes
<1>3. CASE RefreshOnline
  <2>1. Take("ticker", {Account}, state') /\ state' = state /\ changes' = changes
    BY <1>3 DEF RefreshOnline
  <2>2. "ticker" \in Writers /\ {Account} \in SUBSET Entities /\ state' \in Snapshots /\ changes' \in 0..MaxCatalog
    BY <2>1 DEF Writers, Entities, TypeOK
  <2> QED
    BY <2>1, <2>2, TakeTypes
<1>4. ASSUME NEW w \in Writers, SetSnapshot(w) PROVE TypeOK'
  <2>1. held[w].state \in Snapshots
    BY DEF TypeOK, Updates
  <2>2. metrics' \in [Entities -> Numbers \cup {Absent}]
    BY <1>4, <2>1 DEF SetSnapshot, ResetGauges, SetAccountGauges, SetZoneGauges, TypeOK, Snapshots, Entities
  <2>3. UNCHANGED <<held, queue>>
    BY <1>4 DEF SetSnapshot, ResetGauges, SetAccountGauges, SetZoneGauges
  <2>4. \E from, to : /\ Step(w, from, to)
                      /\ to \in {"idle", "account", "zones", "offer", "drain", "again", "forward"}
    BY <1>4 DEF SetSnapshot, ResetGauges, SetAccountGauges, SetZoneGauges
  <2> QED
    BY <2>2, <2>3, <2>4, StepTypes DEF TypeOK
<1>5. ASSUME NEW w \in Writers, EnqueueMQTTUpdate(w) PROVE TypeOK'
  <2>1. held[w] \in Updates /\ Nothing \in Updates
    BY StartIsFirst DEF TypeOK, Nothing, Updates
  <2>2. /\ queue' \in SUBSET Updates /\ (\A u, v \in queue' : u = v) /\ metrics' = metrics
        /\ held' \in [Writers -> Updates]
    BY <1>5, <2>1 DEF EnqueueMQTTUpdate, Offer, Drain, OfferAgain, Enqueued, TypeOK
  <2>3. \E from, to : /\ Step(w, from, to)
                      /\ to \in {"idle", "account", "zones", "offer", "drain", "again", "forward"}
    BY <1>5 DEF EnqueueMQTTUpdate, Offer, Drain, OfferAgain, Enqueued
  <2> QED
    BY <2>2, <2>3, StepTypes DEF TypeOK
<1>6. ASSUME NEW c \in Connections, Answer(c) PROVE TypeOK'
  BY <1>6, StepTypes DEF Answer, TypeOK, Writers
<1>7. CASE Consume
  <2>1. PICK u \in queue : queue' = {} /\ Publish(u.state, u.of)
    BY <1>7 DEF Consume
  <2>2. u.state \in Snapshots /\ u.of \in SUBSET Entities
    BY DEF TypeOK, Updates
  <2>3. latest' \in [Entities -> Numbers] /\ ha' \in Snapshots
    BY <2>1, <2>2, PublishTypes
  <2> QED
    BY <1>7, <2>1, <2>3 DEF Consume, TypeOK
<1>8. CASE Replay
  <2>1. latest' \in [Entities -> Numbers] /\ ha' \in Snapshots
    BY <1>8, PublishTypes DEF Replay, TypeOK
  <2> QED
    BY <1>8, <2>1 DEF Replay, TypeOK
<1>9. CASE UNCHANGED vars
  BY <1>9 DEF vars, TypeOK
<1> QED
  BY <1>1, <1>2, <1>3, <1>4, <1>5, <1>6, <1>7, <1>8, <1>9 DEF Next, Work
-------------------------------------------------------------------------------
(* Snapshots agree                                                           *)

LEMMA InvInit == Init => Inv
<1> SUFFICES ASSUME Init PROVE Inv
  OBVIOUS
<1>1. TypeOK
  BY TypesInit
<1>2. \A s \in Around : s = Start
  BY DEF Init, Around, Held, Nothing
<1>3. state = Start /\ latest = Start /\ ha = Start /\ \A e \in Entities : Start[e] = 0
  BY DEF Init, Start
<1>4. Agree
  BY <1>2, <1>3, StartIsFirst DEF Agree
<1>5. Gates
  BY <1>2, <1>3, StartIsFirst DEF Gates, Newer
<1> QED
  BY <1>1, <1>4, <1>5 DEF Inv

(* Handing snapshots on, or dropping them, changes nothing.                  *)
LEMMA HandingOn ==
  ASSUME Inv, TypeOK', state' = state, latest' = latest, ha' = ha, Around' \subseteq Around
  PROVE  Inv'
BY DEF Inv, Agree, Gates, Newer, Below

(* An event makes one new snapshot, above all others.                        *)
LEMMA NewEvent ==
  ASSUME Inv, TypeOK', state' \in Snapshots, Revision(state') = Revision(state) + 1,
         \A e \in Entities : state[e] <= state'[e],
         latest' = latest, ha' = ha, Around' \subseteq Around \cup {state'}
  PROVE  Inv'
<1> USE DEF Inv
<1>1. \A s \in Around \cup {state'} : Revision(s) \in Nat /\ \A e \in Entities : s[e] \in Nat
  BY AroundTypes, RevisionFacts DEF Snapshots, Numbers
<1>2. state \in Around
  BY DEF Around
<1>3. \A s \in Around : Revision(s) < Revision(state')
  BY <1>1, <1>2 DEF Agree
<1>4. ASSUME NEW s \in Around PROVE Below(s, state') /\ Below(state', s)
  <2>1. \A e \in Entities : s[e] <= state[e]
    BY <1>2 DEF Agree, Below
  <2> QED
    BY <1>1, <1>2, <1>3, <2>1 DEF Below
<1>5. Agree'
  <2>1. \A s \in Around' : Revision(s) <= Revision(state')
    BY <1>1, <1>3
  <2>2. ASSUME NEW s \in Around', NEW t \in Around' PROVE Below(s, t)
    <3>1. CASE s = state' /\ t = state'
      BY <1>1, <3>1 DEF Below
    <3>2. CASE s \in Around /\ t \in Around
      BY <3>2 DEF Agree
    <3> QED
      BY <1>4, <3>1, <3>2
  <2> QED
    BY <2>1, <2>2 DEF Agree, Below
<1>6. Gates'
  <2>1. \A e \in Entities : latest[e] \in Nat /\ ha[e] \in Nat
    BY DEF TypeOK, Snapshots, Numbers
  <2>2. \A e \in Entities : latest[e] <= Revision(state') /\ ha[e] <= latest[e]
    BY <1>1, <1>2, <1>3, <2>1 DEF Gates
  <2>3. \A e \in Entities : ha[e] <= state'[e]
    BY <1>1, <1>2, <2>1 DEF Gates, Newer
  <2> QED
    BY <2>2, <2>3 DEF Gates, Newer
<1> QED
  BY <1>5, <1>6

(* A publication: of each entity what is newer than what was there.          *)
LEMMA Publishing ==
  ASSUME Inv, TypeOK', NEW s \in Around, NEW of \in SUBSET Entities, Publish(s, of),
         state' = state, Around' \subseteq Around
  PROVE  Inv' /\ \A e \in Entities : ha'[e] >= ha[e]
<1> USE DEF Inv
<1>1. /\ \A t \in Around : Revision(t) \in Nat /\ \A e \in Entities : t[e] \in Nat /\ t[e] <= Revision(t)
      /\ \A e \in Entities : latest[e] \in Nat /\ ha[e] \in Nat
  BY AroundTypes, RevisionFacts DEF TypeOK, Snapshots, Numbers
<1>2. \A e \in Entities :
        \/ latest'[e] = latest[e] /\ ha'[e] = ha[e]
        \/ latest[e] <= Revision(s) /\ latest'[e] = Revision(s) /\ ha'[e] = s[e]
  BY <1>1 DEF Publish, TypeOK, Snapshots
<1>3. \A e \in Entities : ha'[e] >= ha[e]
  BY <1>1, <1>2 DEF Gates, Newer
<1>4. \A e \in Entities : latest'[e] <= Revision(state) /\ ha'[e] <= latest'[e]
  BY <1>1, <1>2 DEF Gates, Agree
<1>5. ASSUME NEW t \in Around, NEW e \in Entities, latest'[e] <= Revision(t) PROVE ha'[e] <= t[e]
  BY <1>1, <1>2, <1>5 DEF Gates, Newer, Agree, Below
<1>6. Agree'
  BY DEF Agree, Below
<1>7. Gates'
  BY <1>4, <1>5 DEF Gates, Newer
<1> QED
  BY <1>3, <1>6, <1>7

LEMMA InvStep == Inv /\ [Next]_vars => Inv' /\ \A e \in Entities : ha'[e] >= ha[e]
<1> SUFFICES ASSUME Inv, [Next]_vars PROVE Inv' /\ \A e \in Entities : ha'[e] >= ha[e]
  OBVIOUS
<1>0. TypeOK /\ TypeOK' /\ \A e \in Entities : ha[e] \in Nat
  BY TypesStep DEF Inv, TypeOK, Snapshots, Numbers
<1>s. state \in Around /\ Start \in Around /\ \A w \in Writers : held[w].state \in Around
  BY DEF Around, Held
<1>q. \A u \in queue : u.state \in Around
  BY DEF Around, Held
<1>h. ASSUME NEW w \in Writers, NEW u, held' = [held EXCEPT ![w] = u], u.state \in Around,
             queue' \subseteq queue, state' = state
      PROVE  Around' \subseteq Around
  <2>1. \A v \in Writers : held'[v].state \in Around
    BY <1>0, <1>s, <1>h DEF TypeOK
  <2> QED
    BY <2>1, <1>s, <1>q, <1>h DEF Around, Held
<1>1. ASSUME NEW c \in Connections, Handle(c) PROVE Inv' /\ ha' = ha
  <2>1. PICK of \in SUBSET Entities : of # {} /\ HandleFrame(c, of)
    BY <1>1 DEF Handle, Entities
  <2>2. /\ state' \in Snapshots /\ Revision(state') = Revision(state) + 1
        /\ \A e \in Entities : state[e] <= state'[e]
    BY <1>0, <2>1, FrameFacts
  <2>3. /\ held' = [held EXCEPT ![c] = [of |-> of, state |-> state']]
        /\ queue' = queue /\ latest' = latest /\ ha' = ha
    BY <2>1 DEF HandleFrame, Take
  <2>4. \A v \in Writers : held'[v].state \in Around \cup {state'}
    BY <1>0, <1>s, <2>3 DEF TypeOK
  <2>5. Around' \subseteq Around \cup {state'}
    BY <2>3, <2>4, <1>s, <1>q DEF Around, Held
  <2> QED
    BY <1>0, <2>2, <2>3, <2>5, NewEvent
<1>2. ASSUME NEW w \in Writers, NEW of, Take(w, of, state), state' = state PROVE Inv' /\ ha' = ha
  <2>1. /\ held' = [held EXCEPT ![w] = [of |-> of, state |-> state]]
        /\ queue' = queue /\ latest' = latest /\ ha' = ha
    BY <1>2 DEF Take
  <2>2. Around' \subseteq Around
    BY <1>2, <1>h, <1>s, <2>1
  <2> QED
    BY <1>0, <1>2, <2>1, <2>2, HandingOn
<1>3. ASSUME CatalogChanged \/ RefreshOnline PROVE Inv' /\ ha' = ha
  <2>1. CASE CatalogChanged
    <3>1. "catalog" \in Writers /\ Take("catalog", Entities, state) /\ state' = state
      BY <2>1 DEF CatalogChanged, Writers
    <3> QED
      BY <3>1, <1>2
  <2>2. CASE RefreshOnline
    <3>1. "ticker" \in Writers /\ Take("ticker", {Account}, state) /\ state' = state
      BY <2>2 DEF RefreshOnline, Writers
    <3> QED
      BY <3>1, <1>2
  <2> QED
    BY <1>3, <2>1, <2>2
<1>4. ASSUME NEW w \in Writers, SetSnapshot(w) \/ (w \in Connections /\ Answer(w)) PROVE Inv' /\ ha' = ha
  <2>1. UNCHANGED <<held, queue, state, latest, ha>>
    BY <1>4 DEF SetSnapshot, ResetGauges, SetAccountGauges, SetZoneGauges, Answer, Step
  <2>2. Around' = Around
    BY <2>1 DEF Around, Held
  <2> QED
    BY <1>0, <2>1, <2>2, HandingOn
<1>5. ASSUME NEW w \in Writers, EnqueueMQTTUpdate(w) PROVE Inv' /\ ha' = ha
  <2>1. UNCHANGED <<state, latest, ha>>
    BY <1>5 DEF EnqueueMQTTUpdate, Offer, Drain, OfferAgain, Enqueued, Step
  <2>2. queue' \subseteq queue \cup {held[w]}
    BY <1>5 DEF EnqueueMQTTUpdate, Offer, Drain, OfferAgain
  <2>3. held' = held \/ held' = [held EXCEPT ![w] = Nothing]
    BY <1>5 DEF EnqueueMQTTUpdate, Offer, Drain, OfferAgain, Enqueued
  <2>4. \A v \in Writers : held'[v].state \in Around
    BY <1>0, <1>s, <2>3 DEF TypeOK, Nothing
  <2>5. \A u \in queue' : u.state \in Around
    BY <1>s, <1>q, <2>2
  <2>6. Around' \subseteq Around
    BY <1>s, <2>1, <2>4, <2>5 DEF Around, Held
  <2> QED
    BY <1>0, <2>1, <2>6, HandingOn
<1>6. CASE Consume
  <2>1. PICK u \in queue : queue' = {} /\ Publish(u.state, u.of)
    BY <1>6 DEF Consume
  <2>2. held' = held /\ state' = state /\ u.of \in SUBSET Entities /\ u.state \in Around
    BY <1>0, <1>6, <1>q DEF Consume, TypeOK, Updates
  <2>3. Around' \subseteq Around
    BY <2>1, <2>2 DEF Around, Held
  <2> QED
    BY <1>0, <2>1, <2>2, <2>3, Publishing
<1>7. CASE Replay
  <2>1. held' = held /\ state' = state /\ queue' = queue /\ Publish(state, Entities)
    BY <1>7 DEF Replay
  <2>2. Around' \subseteq Around
    BY <2>1 DEF Around, Held
  <2> QED
    BY <1>0, <1>s, <2>1, <2>2, Publishing
<1>8. CASE UNCHANGED vars
  <2>1. UNCHANGED <<held, queue, state, latest, ha>>
    BY <1>8 DEF vars
  <2>2. Around' = Around
    BY <2>1 DEF Around, Held
  <2> QED
    BY <1>0, <2>1, <2>2, HandingOn
<1>9. ha' = ha => \A e \in Entities : ha'[e] >= ha[e]
  BY <1>0
<1> QED
  BY <1>1, <1>3, <1>4, <1>5, <1>6, <1>7, <1>8, <1>9 DEF Next, Work
-------------------------------------------------------------------------------
(* Theorems                                                                  *)

LEMMA Invariance == Spec => []Inv
BY InvInit, InvStep, PTL DEF Spec

(* However many connections, tickers and catalog changes hold snapshots at   *)
(* once, the queue never holds more than one update (mqttQueue), and what is *)
(* shown and published are events of the engine.                             *)
THEOREM PipelineTypes == Spec => []TypeOK
<1>1. Inv => TypeOK
  BY DEF Inv
<1> QED
  BY <1>1, Invariance, PTL

(* What Home Assistant shows never goes back to an older event, for any      *)
(* number of zones and goroutines: the snapshots around agree, so that one   *)
(* with a higher revision is nowhere older.                                  *)
THEOREM ShownNeverBack == Spec => NeverBack
<1>1. Inv /\ [Next]_vars => [\A e \in Entities : ha'[e] >= ha[e]]_vars
  BY InvStep
<1> QED
  BY <1>1, Invariance, PTL DEF Spec, NeverBack
===============================================================================
