------------------------- MODULE HamqttPublisherProof -------------------------
(***************************************************************************)
(* Theorems about HamqttPublisher for every number of entities, parts,     *)
(* callers and payloads, every length of the client's queue and every      *)
(* number of revisions.                                                    *)
(***************************************************************************)
EXTENDS HamqttPublisher, TLAPS

(* The conjuncts of the type invariant that the other proofs cite most.      *)
USE DEF Callers, Topics, Parts, Revisions

(* A caller that publishes an entity holds its gate, at its own revision.    *)
GateInv ==
  /\ \A c \in Callers :
       pc[c] \in Publishing =>
         /\ cur[c] \in Entities
         /\ gate[cur[c]] = c
         /\ latest[cur[c]] = rev[c]
  /\ \A c \in Callers : rev[c] <= revision
  /\ \A e \in Entities : latest[e] <= revision

Base == TypeOK /\ GateInv

(* What is on its way to a topic, and what the topic retains, are payloads   *)
(* of the engine's history in the order of their revisions, none newer than  *)
(* the gate's latest.                                                        *)
PipeInv ==
  /\ \A i \in DOMAIN pipe :
       /\ pipe[i].rev <= latest[pipe[i].topic[1]]
       /\ pipe[i].val = history[pipe[i].rev][pipe[i].topic]
  /\ \A i, j \in DOMAIN pipe :
       i < j /\ pipe[i].topic = pipe[j].topic => pipe[i].rev <= pipe[j].rev
  /\ \A t \in Topics :
       retained[t] # None =>
         /\ retained[t].rev <= latest[t[1]]
         /\ retained[t].val = history[retained[t].rev][t]
         /\ \A i \in DOMAIN pipe :
              pipe[i].topic = t => retained[t].rev <= pipe[i].rev

-----------------------------------------------------------------------------
(* Sequences: what the two ways the pipe changes do to its elements.         *)

LEMMA AppendElements ==
  ASSUME NEW S, NEW s \in Seq(S), NEW x \in S
  PROVE  /\ Append(s, x) \in Seq(S)
         /\ Len(Append(s, x)) = Len(s) + 1
         /\ DOMAIN Append(s, x) = 1..(Len(s) + 1)
         /\ \A i \in 1..Len(s) : Append(s, x)[i] = s[i]
         /\ Append(s, x)[Len(s) + 1] = x
OBVIOUS

LEMMA TailElements ==
  ASSUME NEW S, NEW s \in Seq(S), s # <<>>
  PROVE  /\ Tail(s) \in Seq(S)
         /\ Len(s) \in Nat \ {0}
         /\ Head(s) = s[1] /\ Head(s) \in S
         /\ Len(Tail(s)) = Len(s) - 1
         /\ DOMAIN Tail(s) = 1..(Len(s) - 1)
         /\ \A i \in 1..(Len(s) - 1) : Tail(s)[i] = s[i + 1]
OBVIOUS

(* Abandoning a caller's messages changes nothing but whom they answer.      *)
LEMMA AbandonElements ==
  ASSUME TypeOK, NEW c \in Callers
  PROVE  /\ Abandon(c) \in Seq(Message)
         /\ DOMAIN Abandon(c) = DOMAIN pipe
         /\ \A i \in DOMAIN pipe :
              /\ Abandon(c)[i].topic = pipe[i].topic
              /\ Abandon(c)[i].rev = pipe[i].rev
              /\ Abandon(c)[i].val = pipe[i].val
              /\ Abandon(c)[i].by = IF pipe[i].by = c THEN None ELSE pipe[i].by
<1>1. pipe \in Seq(Message)
  BY DEF TypeOK
<1>2. \A i \in DOMAIN pipe : pipe[i] \in Message
  BY <1>1
<1>3. \A i \in DOMAIN pipe :
        /\ Abandon(c)[i] \in Message
        /\ Abandon(c)[i].topic = pipe[i].topic
        /\ Abandon(c)[i].rev = pipe[i].rev
        /\ Abandon(c)[i].val = pipe[i].val
        /\ Abandon(c)[i].by = IF pipe[i].by = c THEN None ELSE pipe[i].by
  BY <1>2 DEF Abandon, Message
<1>4. DOMAIN Abandon(c) = 1..Len(pipe) /\ Len(pipe) \in Nat /\ DOMAIN pipe = 1..Len(pipe)
  BY <1>1 DEF Abandon
<1>5. Abandon(c) \in Seq(Message)
  <2>1. Abandon(c) = [i \in 1..Len(pipe) |-> Abandon(c)[i]]
    BY <1>4 DEF Abandon
  <2> QED
    BY <1>3, <1>4, <2>1
<1> QED
  BY <1>3, <1>4, <1>5
-----------------------------------------------------------------------------
(* The type invariant and the gates                                         *)

LEMMA BaseInit == Init => Base
<1> SUFFICES ASSUME Init PROVE Base
  OBVIOUS
<1>0. 1 \in Revisions /\ 1 \in Parts /\ 0 \in 0..MaxRevision
  BY ConstantsAssumption
<1>1. revision \in Revisions /\ history \in [Revisions -> [Topics -> Values]]
  <2>1. PICK v \in Values : history = [r \in Revisions |-> [t \in Topics |-> v]]
    BY DEF Init
  <2>2. [t \in Topics |-> v] \in [Topics -> Values]
    OBVIOUS
  <2> QED
    BY <1>0, <2>1, <2>2 DEF Init
<1>2. pipe \in Seq(Message)
  BY DEF Init
<1>3. TypeOK
  BY <1>0, <1>1, <1>2 DEF Init, TypeOK, EmptyCache, PCs
<1>4. GateInv
  BY ConstantsAssumption DEF Init, GateInv, Publishing
<1> QED
  BY <1>3, <1>4 DEF Base

(* The message a publishing caller would send has the right type.            *)
LEMMA PublishedTypes ==
  ASSUME Base, NEW c \in Callers, pc[c] \in Publishing
  PROVE  /\ Topic(c) \in Topics /\ Topic(c)[1] = cur[c]
         /\ Value(c) \in Values
         /\ gate[Topic(c)[1]] = c
BY DEF Base, TypeOK, GateInv, Topic, Value

(* Two callers never publish the same entity.                                *)
LEMMA PublishersDiffer ==
  ASSUME Base, NEW c \in Callers, NEW d \in Callers,
         pc[c] \in Publishing, pc[d] \in Publishing, c # d
  PROVE  cur[c] # cur[d] /\ Topic(c) # Topic(d)
BY DEF Base, GateInv, Topic

LEMMA BaseEngineStep ==
  ASSUME Base, NEW new \in [Topics -> Values], EngineStep(new)
  PROVE  Base'
<1> USE ConstantsAssumption DEF Base
<1>0. /\ revision < MaxRevision /\ revision' = revision + 1
      /\ history' = [r \in Revisions |-> IF r <= revision THEN history[r] ELSE new]
      /\ UNCHANGED <<gateVars, cache, replayLock, callerVars, brokerVars>>
  BY DEF EngineStep
<1>1. revision' \in Revisions /\ history' \in [Revisions -> [Topics -> Values]]
  BY <1>0 DEF TypeOK
<1>2. TypeOK'
  <2> HIDE ConstantsAssumption
  <2> QED
    BY <1>0, <1>1 DEF TypeOK, gateVars, callerVars, brokerVars
<1>3. GateInv'
  BY <1>0 DEF TypeOK, GateInv, gateVars, callerVars
<1> QED
  BY <1>2, <1>3

LEMMA BaseJobs ==
  ASSUME Base, NEW c \in Callers,
         \/ \E r \in Revisions, ents \in SUBSET Entities : StartUpdate(c, r, ents)
         \/ c \in Replayers /\ StartReplay(c)
         \/ AnnounceOnline(c) \/ TakeSnapshot(c) \/ EndJob(c)
  PROVE  Base'
<1> USE ConstantsAssumption DEF Base, engineVars, gateVars, brokerVars
<1>1. CASE \E r \in Revisions, ents \in SUBSET Entities : StartUpdate(c, r, ents)
  <2> PICK r \in Revisions, ents \in SUBSET Entities : StartUpdate(c, r, ents)
    BY <1>1
  <2>1. TypeOK'
    BY DEF TypeOK, PCs, StartUpdate
  <2>2. GateInv'
    BY DEF TypeOK, GateInv, StartUpdate, Publishing
  <2> QED
    BY <2>1, <2>2
<1>2. CASE c \in Replayers /\ StartReplay(c)
  <2>1. TypeOK'
    BY <1>2 DEF TypeOK, PCs, StartReplay, EmptyCache
  <2>2. GateInv'
    BY <1>2 DEF TypeOK, GateInv, StartReplay, Publishing
  <2> QED
    BY <2>1, <2>2
<1>3. CASE AnnounceOnline(c)
  <2>0. /\ pc' \in [Callers -> PCs]
        /\ replayLock' \in Replayers \cup {None}
        /\ verdict' \in [Callers -> {"clean", "others", "broken"}]
    <3>1. CASE ReplayFails(c)
      BY <3>1 DEF TypeOK, PCs, ReplayFails
    <3>2. CASE pc' = [pc EXCEPT ![c] = "snapshot"] /\ UNCHANGED <<replayLock, verdict>>
      BY <3>2 DEF TypeOK, PCs
    <3> QED
      BY <1>3, <3>1, <3>2 DEF AnnounceOnline
  <2>1. TypeOK'
    BY <1>3, <2>0 DEF TypeOK, AnnounceOnline
  <2>2. \A d \in Callers : pc'[d] \in Publishing => pc[d] \in Publishing
    BY <1>3 DEF TypeOK, AnnounceOnline, ReplayFails, Publishing
  <2>3. GateInv'
    BY <1>3, <2>2 DEF GateInv, AnnounceOnline
  <2> QED
    BY <2>1, <2>3
<1>4. CASE TakeSnapshot(c)
  <2>0. /\ pc' \in [Callers -> PCs]
        /\ replayLock' \in Replayers \cup {None}
        /\ verdict' \in [Callers -> {"clean", "others", "broken"}]
        /\ rev' \in [Callers -> Revisions]
        /\ todo' \in [Callers -> SUBSET Entities]
    <3>1. CASE ReplayFails(c) /\ UNCHANGED <<rev, todo>>
      BY <3>1 DEF TypeOK, PCs, ReplayFails
    <3>2. CASE /\ rev' = [rev EXCEPT ![c] = revision]
               /\ todo' = [todo EXCEPT ![c] = Entities]
               /\ pc' = [pc EXCEPT ![c] = "next"]
               /\ UNCHANGED <<replayLock, verdict>>
      BY <3>2 DEF TypeOK, PCs
    <3> QED
      BY <1>4, <3>1, <3>2 DEF TakeSnapshot
  <2>1. TypeOK'
    BY <1>4, <2>0 DEF TypeOK, TakeSnapshot
  <2>2. /\ \A d \in Callers : pc'[d] \in Publishing => pc[d] \in Publishing /\ rev'[d] = rev[d]
        /\ \A d \in Callers : rev'[d] <= revision
    <3>1. CASE ReplayFails(c) /\ UNCHANGED <<rev, todo>>
      BY <3>1 DEF TypeOK, GateInv, ReplayFails, Publishing
    <3>2. CASE /\ pc[c] = "snapshot"
               /\ rev' = [rev EXCEPT ![c] = revision]
               /\ pc' = [pc EXCEPT ![c] = "next"]
      BY <3>2 DEF TypeOK, GateInv, Publishing
    <3> QED
      BY <1>4, <3>1, <3>2 DEF TakeSnapshot
  <2>3. GateInv'
    BY <1>4, <2>2 DEF TypeOK, GateInv, TakeSnapshot
  <2> QED
    BY <2>1, <2>3
<1>5. CASE EndJob(c)
  <2>00. 1 \in Revisions
    OBVIOUS
  <2>0. /\ pc' \in [Callers -> PCs]
        /\ replayLock' \in Replayers \cup {None}
        /\ verdict' \in [Callers -> {"clean", "others", "broken"}]
        /\ rev' \in [Callers -> Revisions]
    BY <1>5, <2>00 DEF TypeOK, PCs, EndJob
  <2>1. TypeOK'
    BY <1>5, <2>0 DEF TypeOK, EndJob
  <2>2. \A d \in Callers : pc'[d] \in Publishing => pc[d] \in Publishing /\ rev'[d] = rev[d]
    BY <1>5 DEF TypeOK, EndJob, Publishing
  <2>3. \A d \in Callers : rev'[d] <= revision
    BY <1>5 DEF TypeOK, GateInv, EndJob
  <2>4. GateInv'
    BY <1>5, <2>2, <2>3 DEF GateInv, EndJob
  <2> QED
    BY <2>1, <2>4
<1> QED
  BY <1>1, <1>2, <1>3, <1>4, <1>5

LEMMA BaseBeginEntity ==
  ASSUME Base, NEW c \in Callers, NEW e \in Entities, BeginEntity(c, e)
  PROVE  Base'
<1> USE ConstantsAssumption DEF Base, engineVars, gateVars, brokerVars
<1>1. CASE rev[c] < latest[e] /\ UNCHANGED <<gateVars, pc, cur, part>>
  <2>1. TypeOK'
    BY <1>1 DEF TypeOK, BeginEntity
  <2>2. GateInv'
    BY <1>1 DEF TypeOK, GateInv, BeginEntity, Publishing
  <2> QED
    BY <2>1, <2>2
<1>2. CASE /\ rev[c] >= latest[e]
           /\ latest' = [latest EXCEPT ![e] = rev[c]]
           /\ gate' = [gate EXCEPT ![e] = c]
           /\ cur' = [cur EXCEPT ![c] = e]
           /\ part' = [part EXCEPT ![c] = 1]
           /\ pc' = [pc EXCEPT ![c] = "mark"]
  <2>0. /\ latest' \in [Entities -> 0..MaxRevision] /\ gate' \in [Entities -> Callers \cup {None}]
        /\ cur' \in [Callers -> Entities \cup {None}] /\ part' \in [Callers -> Parts]
        /\ pc' \in [Callers -> PCs]
    BY <1>2 DEF TypeOK, PCs, Publishing
  <2>1. TypeOK'
    BY <2>0 DEF TypeOK, BeginEntity
  <2>2. GateInv'
    BY <1>2 DEF TypeOK, GateInv, BeginEntity, Publishing
  <2> QED
    BY <2>1, <2>2
<1> QED
  BY <1>1, <1>2 DEF BeginEntity

(* Whatever a publishing caller does to its entity preserves the gates.      *)
LEMMA BasePartDone ==
  ASSUME Base, NEW c \in Callers, pc[c] \in Publishing, PartDone(c),
         UNCHANGED <<revision, latest, rev>>
  PROVE  /\ gate' \in [Entities -> Callers \cup {None}]
         /\ pc' \in [Callers -> PCs] /\ part' \in [Callers -> Parts]
         /\ cur' \in [Callers -> Entities \cup {None}]
         /\ GateInv'
<1> USE ConstantsAssumption DEF Base
<1>1. CASE /\ part[c] < NumParts
           /\ part' = [part EXCEPT ![c] = @ + 1]
           /\ pc' = [pc EXCEPT ![c] = "mark"]
           /\ UNCHANGED <<gate, cur>>
  BY <1>1 DEF TypeOK, GateInv, PCs, Publishing
<1>2. CASE LeaveEntity(c)
  BY <1>2 DEF TypeOK, GateInv, PCs, Publishing, LeaveEntity
<1> QED
  BY <1>1, <1>2 DEF PartDone

LEMMA BasePartFailed ==
  ASSUME Base, NEW c \in Callers, pc[c] \in Publishing, PartFailed(c),
         UNCHANGED <<revision, latest, rev>>
  PROVE  /\ gate' \in [Entities -> Callers \cup {None}]
         /\ pc' \in [Callers -> PCs] /\ part' \in [Callers -> Parts]
         /\ cur' \in [Callers -> Entities \cup {None}]
         /\ cache' \in [Topics -> Values \cup {None}]
         /\ GateInv'
<1> USE ConstantsAssumption DEF Base, PartFailed, LeaveEntity
<1>0. gate' \in [Entities -> Callers \cup {None}]
  BY DEF TypeOK
<1>1. /\ pc' \in [Callers -> PCs] /\ part' \in [Callers -> Parts]
      /\ cur' \in [Callers -> Entities \cup {None}]
  <2>1. 1 \in Parts
    OBVIOUS
  <2> QED
    BY <2>1 DEF TypeOK, PCs
<1>2. cache' \in [Topics -> Values \cup {None}]
  BY DEF TypeOK
<1>3. GateInv'
  BY DEF TypeOK, GateInv, Publishing
<1> QED
  BY <1>0, <1>1, <1>2, <1>3

LEMMA BasePublishing ==
  ASSUME Base, NEW c \in Callers,
         \/ MarkTopic(c) \/ SendPart(c) \/ SendFails(c)
         \/ WaitSucceeds(c) \/ WaitFails(c)
  PROVE  Base'
<1> USE ConstantsAssumption DEF Base, engineVars, gateVars, brokerVars
<1>0. pc[c] \in Publishing
  BY DEF MarkTopic, SendPart, SendFails, WaitSucceeds, WaitFails, Publishing
<1>00. Topic(c) \in Topics /\ Value(c) \in Values
  BY <1>0, PublishedTypes
<1>1. CASE MarkTopic(c)
  <2>1. CASE cache[Topic(c)] = Value(c) /\ PartDone(c) /\ UNCHANGED cache
    <3>1. GateInv'
      BY <1>0, <1>1, <2>1, BasePartDone DEF MarkTopic
    <3>2. TypeOK'
      BY <1>0, <1>1, <2>1, BasePartDone DEF MarkTopic, TypeOK
    <3> QED
      BY <3>1, <3>2
  <2>2. CASE /\ cache' = [cache EXCEPT ![Topic(c)] = Value(c)]
             /\ pc' = [pc EXCEPT ![c] = "publish"]
             /\ UNCHANGED <<gate, cur, part>>
    <3>1. TypeOK'
      BY <1>00, <1>1, <2>2 DEF MarkTopic, TypeOK, PCs, Publishing
    <3>2. GateInv'
      BY <1>1, <2>2 DEF MarkTopic, TypeOK, GateInv, Publishing
    <3> QED
      BY <3>1, <3>2
  <2> QED
    BY <1>1, <2>1, <2>2 DEF MarkTopic
<1>2. CASE SendPart(c)
  <2> DEFINE m == [topic |-> Topic(c), rev |-> rev[c], val |-> Value(c), by |-> c]
  <2>1. m \in Message
    BY <1>00 DEF Message, TypeOK
  <2>2. pipe' \in Seq(Message)
    BY <1>2, <2>1, AppendElements DEF SendPart, TypeOK
  <2>3. TypeOK'
    BY <1>2, <2>2 DEF SendPart, TypeOK, PCs, Publishing
  <2>4. GateInv'
    BY <1>2 DEF SendPart, TypeOK, GateInv, Publishing
  <2> QED
    BY <2>3, <2>4
<1>3. CASE SendFails(c)
  <2>1. GateInv'
    BY <1>0, <1>3, BasePartFailed DEF SendFails
  <2>2. verdict' \in [Callers -> {"clean", "others", "broken"}]
    BY <1>3 DEF SendFails, TypeOK, Blame
  <2>3. TypeOK'
    BY <1>0, <1>3, <2>2, BasePartFailed DEF SendFails, TypeOK
  <2> QED
    BY <2>1, <2>3
<1>4. CASE WaitSucceeds(c)
  <2>1. GateInv'
    BY <1>0, <1>4, BasePartDone DEF WaitSucceeds
  <2>2. acked' \in [Callers -> BOOLEAN]
    BY <1>4 DEF WaitSucceeds, TypeOK
  <2>3. TypeOK'
    BY <1>0, <1>4, <2>2, BasePartDone DEF WaitSucceeds, TypeOK
  <2> QED
    BY <2>1, <2>3
<1>5. CASE WaitFails(c)
  <2>1. GateInv'
    BY <1>0, <1>5, BasePartFailed DEF WaitFails
  <2>2. /\ verdict' \in [Callers -> {"clean", "others", "broken"}]
        /\ acked' \in [Callers -> BOOLEAN]
    BY <1>5 DEF WaitFails, TypeOK, Blame
  <2>3. pipe' \in Seq(Message)
    BY <1>5, AbandonElements DEF WaitFails
  <2>4. TypeOK'
    BY <1>0, <1>5, <2>2, <2>3, BasePartFailed DEF WaitFails, TypeOK
  <2> QED
    BY <2>1, <2>4
<1> QED
  BY <1>1, <1>2, <1>3, <1>4, <1>5

LEMMA BaseBroker ==
  ASSUME Base, Deliver \/ ConnectionLost \/ Reconnect \/ OnConnect
  PROVE  Base'
<1> USE DEF Base, engineVars, gateVars, callerVars
<1>1. CASE Deliver
  <2> DEFINE m == Head(pipe)
  <2>1. m \in Message /\ Tail(pipe) \in Seq(Message)
    BY <1>1, TailElements DEF Deliver, TypeOK
  <2>2. m.topic \in Topics /\ [rev |-> m.rev, val |-> m.val] \in Payload
    BY <2>1 DEF Message, Payload
  <2>3. retained' \in [Topics -> Payload \cup {None}]
    BY <1>1, <2>2 DEF Deliver, TypeOK
  <2>4. acked' \in [Callers -> BOOLEAN]
    BY <1>1 DEF Deliver
  <2>5. TypeOK'
    BY <1>1, <2>1, <2>3, <2>4 DEF Deliver, TypeOK
  <2>6. GateInv'
    BY <1>1 DEF Deliver, GateInv
  <2> QED
    BY <2>5, <2>6
<1>2. CASE ConnectionLost
  <2>0. <<>> \in Seq(Message) /\ pipe \in Seq(Message) /\ pipe' \in {pipe, <<>>}
    BY <1>2 DEF ConnectionLost, TypeOK
  <2>1. pipe' \in Seq(Message)
    BY <2>0
  <2>2. verdict' \in [Callers -> {"clean", "others", "broken"}]
    BY <1>2 DEF ConnectionLost
  <2>3. retained' \in [Topics -> Payload \cup {None}] /\ stale' \in BOOLEAN
    <3>1. CASE UNCHANGED <<retained, stale>>
      BY <3>1 DEF TypeOK
    <3>2. CASE retained' = [t \in Topics |-> None] /\ stale' = TRUE
      BY <3>2
    <3> QED
      BY <1>2, <3>1, <3>2 DEF ConnectionLost
  <2>4. TypeOK'
    BY <1>2, <2>1, <2>2, <2>3 DEF ConnectionLost, TypeOK
  <2>5. GateInv'
    BY <1>2 DEF ConnectionLost, GateInv
  <2> QED
    BY <2>4, <2>5
<1>3. CASE Reconnect
  BY <1>3 DEF Reconnect, TypeOK, GateInv
<1>4. CASE OnConnect
  <2>1. cache' \in [Topics -> Values \cup {None}]
    BY <1>4 DEF OnConnect, EmptyCache
  <2> QED
    BY <1>4, <2>1 DEF OnConnect, TypeOK, GateInv
<1> QED
  BY <1>1, <1>2, <1>3, <1>4

LEMMA BaseStep == Base /\ [Next]_vars => Base'
<1> SUFFICES ASSUME Base, [Next]_vars PROVE Base'
  OBVIOUS
<1>1. CASE UNCHANGED vars
  BY <1>1 DEF Base, vars, engineVars, gateVars, callerVars, brokerVars, TypeOK, GateInv
<1>2. CASE Environment
  BY <1>2, BaseEngineStep, BaseBroker DEF Environment
<1>3. CASE \E c \in LiveCallers, r \in Revisions, ents \in SUBSET Entities :
             StartUpdate(c, r, ents)
  BY <1>3, BaseJobs
<1>4. CASE \E c \in Replayers : StartReplay(c)
  BY <1>4, BaseJobs
<1>5. CASE \E c \in Callers : Progress(c) \/ EnterGate(c)
  BY <1>5, BaseJobs, BasePublishing, BaseBeginEntity DEF Progress, EnterGate
<1> QED
  BY <1>1, <1>2, <1>3, <1>4, <1>5 DEF Next

LEMMA BaseAlways == Spec => []Base
BY BaseInit, BaseStep, PTL DEF Spec

(* Every reachable state has the declared types.                             *)
THEOREM TypeCorrect == Spec => []TypeOK
<1>1. Base => TypeOK
  BY DEF Base
<1> QED
  BY <1>1, BaseAlways, PTL

-----------------------------------------------------------------------------
(* Payloads on their way and retained payloads follow the engine's history  *)

LEMMA PipeInit == Init => PipeInv
BY DEF Init, PipeInv

(* The elements of the pipe are messages.                                    *)
LEMMA PipeTypes ==
  ASSUME Base
  PROVE  /\ DOMAIN pipe = 1..Len(pipe) /\ Len(pipe) \in Nat
         /\ \A i \in DOMAIN pipe :
              /\ pipe[i] \in Message
              /\ pipe[i].topic \in Topics /\ pipe[i].topic[1] \in Entities
              /\ pipe[i].rev \in Revisions /\ pipe[i].val \in Values
         /\ \A t \in Topics : retained[t] # None =>
              retained[t].rev \in Revisions /\ retained[t].val \in Values
<1>1. pipe \in Seq(Message) /\ retained \in [Topics -> Payload \cup {None}]
  BY DEF Base, TypeOK
<1>2. \A i \in DOMAIN pipe : pipe[i] \in Message
  BY <1>1
<1> QED
  BY <1>1, <1>2 DEF Message, Payload

(* The engine only adds to its history.                                      *)
LEMMA HistoryKept ==
  ASSUME Base, NEW new \in [Topics -> Values], EngineStep(new)
  PROVE  \A r \in Revisions, e \in Entities : r <= latest[e] => history'[r] = history[r]
BY DEF Base, TypeOK, GateInv, EngineStep

LEMMA PipeEngineStep ==
  ASSUME Base, PipeInv, NEW new \in [Topics -> Values], EngineStep(new)
  PROVE  PipeInv'
<1>1. UNCHANGED <<pipe, retained, latest>>
  BY DEF EngineStep, gateVars, brokerVars
<1>2. \A i \in DOMAIN pipe : history'[pipe[i].rev] = history[pipe[i].rev]
  BY HistoryKept, PipeTypes DEF PipeInv
<1>3. \A t \in Topics : retained[t] # None => history'[retained[t].rev] = history[retained[t].rev]
  BY HistoryKept, PipeTypes DEF PipeInv
<1> QED
  BY <1>1, <1>2, <1>3 DEF PipeInv

(* A gate that admits a newer revision leaves room for what it admitted.     *)
LEMMA PipeBeginEntity ==
  ASSUME Base, PipeInv, NEW c \in Callers, NEW e \in Entities, BeginEntity(c, e)
  PROVE  PipeInv'
<1>1. UNCHANGED <<pipe, retained, history>>
  BY DEF BeginEntity, engineVars, brokerVars
<1>2. \A d \in Entities : latest'[d] \in Nat /\ latest[d] \in Nat /\ latest[d] <= latest'[d]
  <2>1. CASE UNCHANGED <<gateVars, pc, cur, part>>
    BY <2>1 DEF gateVars, Base, TypeOK
  <2>2. CASE rev[c] >= latest[e] /\ latest' = [latest EXCEPT ![e] = rev[c]]
    BY <2>2 DEF Base, TypeOK
  <2> QED
    BY <2>1, <2>2 DEF BeginEntity
<1>3. \A i \in DOMAIN pipe : pipe[i].rev <= latest'[pipe[i].topic[1]]
  BY <1>2, PipeTypes DEF PipeInv
<1>4. \A t \in Topics : retained[t] # None => retained[t].rev <= latest'[t[1]]
  BY <1>2, PipeTypes DEF PipeInv
<1> QED
  BY <1>1, <1>3, <1>4 DEF PipeInv

LEMMA PipeSendPart ==
  ASSUME Base, PipeInv, NEW c \in Callers, SendPart(c)
  PROVE  PipeInv'
<1> DEFINE m == [topic |-> Topic(c), rev |-> rev[c], val |-> Value(c), by |-> c]
<1>1. /\ pipe' = Append(pipe, m)
      /\ UNCHANGED <<history, latest, retained>>
  BY DEF SendPart, engineVars, gateVars
<1>2. /\ m \in Message /\ Topic(c) \in Topics /\ Topic(c)[1] = cur[c]
      /\ rev[c] = latest[cur[c]] /\ rev[c] \in Revisions
  <2>1. pc[c] \in Publishing
    BY DEF SendPart, Publishing
  <2> QED
    BY <2>1, PublishedTypes DEF Base, TypeOK, GateInv, Message
<1>3. /\ DOMAIN pipe' = 1..(Len(pipe) + 1)
      /\ \A i \in DOMAIN pipe : pipe'[i] = pipe[i]
      /\ pipe'[Len(pipe) + 1] = m
  BY <1>1, <1>2, PipeTypes, AppendElements DEF Base, TypeOK
<1>4. DOMAIN pipe = 1..Len(pipe) /\ Len(pipe) \in Nat
  BY PipeTypes
<1>5. ASSUME NEW i \in DOMAIN pipe'
      PROVE  /\ pipe'[i].rev <= latest[pipe'[i].topic[1]]
             /\ pipe'[i].val = history[pipe'[i].rev][pipe'[i].topic]
  <2>1. CASE i = Len(pipe) + 1
    BY <1>2, <1>3, <2>1 DEF Value
  <2>2. CASE i \in DOMAIN pipe
    BY <1>3, <2>2 DEF PipeInv
  <2> QED
    BY <1>3, <1>4, <2>1, <2>2
<1>6. ASSUME NEW i \in DOMAIN pipe', NEW j \in DOMAIN pipe', i < j,
             pipe'[i].topic = pipe'[j].topic
      PROVE  pipe'[i].rev <= pipe'[j].rev
  <2>1. i \in DOMAIN pipe /\ pipe'[i] = pipe[i]
    BY <1>3, <1>4, <1>6
  <2>2. CASE j = Len(pipe) + 1
    BY <1>2, <1>3, <1>6, <2>1, <2>2, PipeTypes DEF PipeInv
  <2>3. CASE j \in DOMAIN pipe
    BY <1>3, <1>6, <2>1, <2>3 DEF PipeInv
  <2> QED
    BY <1>3, <1>4, <2>2, <2>3
<1>7. ASSUME NEW t \in Topics, retained[t] # None, NEW i \in DOMAIN pipe', pipe'[i].topic = t
      PROVE  retained[t].rev <= pipe'[i].rev
  <2>1. CASE i = Len(pipe) + 1
    BY <1>2, <1>3, <1>7, <2>1 DEF PipeInv
  <2>2. CASE i \in DOMAIN pipe
    BY <1>3, <1>7, <2>2 DEF PipeInv
  <2> QED
    BY <1>3, <1>4, <2>1, <2>2
<1> QED
  BY <1>1, <1>5, <1>6, <1>7 DEF PipeInv

LEMMA PipeWaitFails ==
  ASSUME Base, PipeInv, NEW c \in Callers, WaitFails(c)
  PROVE  PipeInv'
<1>1. pipe' = Abandon(c) /\ UNCHANGED <<history, latest, retained>>
  BY DEF WaitFails, engineVars
<1>2. /\ DOMAIN pipe' = DOMAIN pipe
      /\ \A i \in DOMAIN pipe : /\ pipe'[i].topic = pipe[i].topic
                                /\ pipe'[i].rev = pipe[i].rev
                                /\ pipe'[i].val = pipe[i].val
  BY <1>1, AbandonElements DEF Base
<1> QED
  BY <1>1, <1>2 DEF PipeInv

LEMMA PipeDeliver ==
  ASSUME Base, PipeInv, Deliver
  PROVE  PipeInv'
<1> DEFINE m == Head(pipe)
<1>1. /\ pipe' = Tail(pipe)
      /\ retained' = [retained EXCEPT ![m.topic] = [rev |-> m.rev, val |-> m.val]]
      /\ UNCHANGED <<history, latest>>
  BY DEF Deliver, engineVars, gateVars
<1>2. /\ 1 \in DOMAIN pipe /\ m = pipe[1] /\ m.topic \in Topics
      /\ DOMAIN pipe' = 1..(Len(pipe) - 1)
      /\ \A i \in DOMAIN pipe' : i + 1 \in DOMAIN pipe /\ pipe'[i] = pipe[i + 1]
  <2>1. pipe \in Seq(Message) /\ pipe # <<>>
    BY DEF Base, TypeOK, Deliver
  <2> QED
    BY <1>1, <2>1, TailElements, PipeTypes
<1>3. /\ \A t \in Topics : t # m.topic => retained'[t] = retained[t]
      /\ retained'[m.topic] = [rev |-> m.rev, val |-> m.val]
  BY <1>1, <1>2 DEF Base, TypeOK
<1>4. ASSUME NEW t \in Topics, retained'[t] # None
      PROVE  /\ retained'[t].rev <= latest[t[1]]
             /\ retained'[t].val = history[retained'[t].rev][t]
             /\ \A i \in DOMAIN pipe' : pipe'[i].topic = t => retained'[t].rev <= pipe'[i].rev
  <2>1. CASE t = m.topic
    <3>1. \A i \in DOMAIN pipe' : pipe[i + 1].topic = t => m.rev <= pipe[i + 1].rev
      BY <1>2, <2>1 DEF PipeInv
    <3> QED
      BY <1>2, <1>3, <2>1, <3>1 DEF PipeInv
  <2>2. CASE t # m.topic
    BY <1>2, <1>3, <1>4, <2>2 DEF PipeInv
  <2> QED
    BY <2>1, <2>2
<1>5. /\ \A i \in DOMAIN pipe' :
           /\ pipe'[i].rev <= latest[pipe'[i].topic[1]]
           /\ pipe'[i].val = history[pipe'[i].rev][pipe'[i].topic]
      /\ \A i, j \in DOMAIN pipe' :
           i < j /\ pipe'[i].topic = pipe'[j].topic => pipe'[i].rev <= pipe'[j].rev
  BY <1>2 DEF PipeInv
<1> QED
  BY <1>1, <1>4, <1>5 DEF PipeInv

LEMMA PipeConnectionLost ==
  ASSUME Base, PipeInv, ConnectionLost
  PROVE  PipeInv'
<1>1. /\ pipe' = pipe \/ pipe' = <<>>
      /\ retained' = retained \/ retained' = [t \in Topics |-> None]
      /\ UNCHANGED <<history, latest>>
  BY DEF ConnectionLost, engineVars, gateVars
<1>2. \A i \in DOMAIN pipe' : i \in DOMAIN pipe /\ pipe'[i] = pipe[i]
  BY <1>1
<1>3. \A t \in Topics : retained'[t] # None => retained'[t] = retained[t]
  BY <1>1
<1> QED
  BY <1>1, <1>2, <1>3 DEF PipeInv

(* Every other step leaves the pipe, the broker, the gates' revisions and    *)
(* the history alone.                                                        *)
LEMMA QuietCallers ==
  ASSUME NEW c \in Callers,
         \/ \E r \in Revisions, ents \in SUBSET Entities : StartUpdate(c, r, ents)
         \/ StartReplay(c)
         \/ AnnounceOnline(c) \/ TakeSnapshot(c) \/ EndJob(c)
         \/ MarkTopic(c) \/ SendFails(c) \/ WaitSucceeds(c)
  PROVE  UNCHANGED <<revision, history, latest, pipe, retained>>
BY DEF StartUpdate, StartReplay, AnnounceOnline, TakeSnapshot, EndJob, MarkTopic,
       SendFails, WaitSucceeds, engineVars, gateVars, brokerVars

LEMMA PipeStep == Base /\ PipeInv /\ [Next]_vars => PipeInv'
<1> SUFFICES ASSUME Base, PipeInv, [Next]_vars PROVE PipeInv'
  OBVIOUS
<1>0. CASE UNCHANGED <<revision, history, latest, pipe, retained>>
  BY <1>0 DEF PipeInv
<1>1. CASE UNCHANGED vars
  BY <1>0, <1>1 DEF vars, engineVars, gateVars, brokerVars
<1>2. CASE Environment
  <2>1. CASE Reconnect \/ OnConnect
    BY <1>0, <2>1 DEF Reconnect, OnConnect, engineVars, gateVars
  <2> QED
    BY <1>2, <2>1, PipeEngineStep, PipeDeliver, PipeConnectionLost DEF Environment
<1>3. CASE \E c \in LiveCallers, r \in Revisions, ents \in SUBSET Entities :
             StartUpdate(c, r, ents)
  BY <1>0, <1>3, QuietCallers
<1>4. CASE \E c \in Replayers : StartReplay(c)
  BY <1>0, <1>4, QuietCallers
<1>5. CASE \E c \in Callers : Progress(c) \/ EnterGate(c)
  BY <1>0, <1>5, QuietCallers, PipeBeginEntity, PipeSendPart, PipeWaitFails
     DEF Progress, EnterGate
<1> QED
  BY <1>1, <1>2, <1>3, <1>4, <1>5 DEF Next

LEMMA PipeAlways == Spec => []PipeInv
BY PipeInit, PipeStep, BaseAlways, PTL DEF Spec

(* What one step does to the engine's history and to the broker's retained   *)
(* messages: one of the abstract steps, or nothing.                          *)
LEMMA StepEffects ==
  ASSUME Base, PipeInv, [Next]_vars
  PROVE  \/ /\ revision' = revision + 1
            /\ \A r \in 1..revision : history'[r] = history[r]
            /\ UNCHANGED retained
         \/ \E t \in Topics, r \in 1..revision :
              /\ retained[t] # None => retained[t].rev <= r
              /\ retained' = [retained EXCEPT ![t] = [rev |-> r, val |-> history[r][t]]]
              /\ UNCHANGED <<revision, history>>
         \/ /\ retained' = [t \in Topics |-> None]
            /\ UNCHANGED <<revision, history>>
         \/ UNCHANGED <<revision, history, retained>>
<1>1. CASE \E new \in [Topics -> Values] : EngineStep(new)
  <2> PICK new \in [Topics -> Values] : EngineStep(new)
    BY <1>1
  <2>1. revision' = revision + 1 /\ UNCHANGED retained
    BY DEF EngineStep, brokerVars
  <2>2. revision \in Nat /\ revision <= MaxRevision /\ MaxRevision \in Nat
    BY ConstantsAssumption DEF Base, TypeOK
  <2>3. \A r \in 1..revision : r \in Revisions /\ r <= revision
    BY <2>2
  <2>4. \A r \in 1..revision : history'[r] = history[r]
    BY <2>3 DEF EngineStep
  <2> QED
    BY <2>1, <2>4
<1>2. CASE Deliver
  <2> DEFINE m == Head(pipe)
  <2>1. pipe \in Seq(Message) /\ pipe # <<>>
    BY <1>2 DEF Base, TypeOK, Deliver
  <2>2. 1 \in DOMAIN pipe /\ m = pipe[1]
    BY <2>1, TailElements, PipeTypes
  <2>3. /\ m.topic \in Topics /\ m.rev \in 1..revision
        /\ m.val = history[m.rev][m.topic]
        /\ retained[m.topic] # None => retained[m.topic].rev <= m.rev
    <3>1. /\ m.topic \in Topics /\ m.topic[1] \in Entities /\ m.rev \in Revisions
          /\ m.rev <= latest[m.topic[1]]
      BY <2>2, PipeTypes DEF PipeInv
    <3>2. latest[m.topic[1]] <= revision /\ latest[m.topic[1]] \in Nat /\ revision \in Nat
      BY <3>1 DEF Base, TypeOK, GateInv
    <3> QED
      BY <2>2, <3>1, <3>2 DEF PipeInv
  <2>4. /\ retained' = [retained EXCEPT ![m.topic] = [rev |-> m.rev, val |-> m.val]]
        /\ UNCHANGED <<revision, history>>
    BY <1>2 DEF Deliver, engineVars
  <2> QED
    BY <2>3, <2>4
<1>3. CASE ConnectionLost
  BY <1>3 DEF ConnectionLost, engineVars
<1>4. CASE Reconnect \/ OnConnect \/ UNCHANGED vars
  BY <1>4 DEF Reconnect, OnConnect, vars, engineVars, brokerVars
<1>5. CASE \E c \in LiveCallers, r \in Revisions, ents \in SUBSET Entities :
             StartUpdate(c, r, ents)
  BY <1>5, QuietCallers
<1>6. CASE \E c \in Replayers : StartReplay(c)
  BY <1>6, QuietCallers
<1>7. CASE \E c \in Callers : Progress(c) \/ EnterGate(c)
  <2>1. ASSUME NEW c \in Callers, SendPart(c) \/ WaitFails(c) \/ EnterGate(c)
        PROVE  UNCHANGED <<revision, history, retained>>
    BY <2>1 DEF SendPart, WaitFails, EnterGate, BeginEntity, engineVars, brokerVars
  <2> QED
    BY <1>7, <2>1, QuietCallers DEF Progress
<1> QED
  BY <1>1, <1>2, <1>3, <1>4, <1>5, <1>6, <1>7 DEF Next, Environment

(* What a retained topic shows never goes back to an older revision.         *)
THEOREM NeverBackwards == Spec => RetainedForward
<1>1. Base /\ PipeInv /\ [Next]_vars
        => [\A t \in Topics :
              retained[t] # None /\ retained'[t] # None
                => retained[t].rev <= retained'[t].rev]_vars
  <2> SUFFICES ASSUME Base, PipeInv, [Next]_vars, NEW t \in Topics,
                      retained[t] # None, retained'[t] # None
               PROVE  retained[t].rev <= retained'[t].rev
    OBVIOUS
  <2>1. retained \in [Topics -> Payload \cup {None}]
    BY DEF Base, TypeOK
  <2>2. \A u \in Topics : retained[u] # None => retained[u].rev \in Nat
    BY PipeTypes
  <2> QED
    BY <2>1, <2>2, StepEffects
<1> QED
  BY <1>1, BaseAlways, PipeAlways, PTL DEF Spec, RetainedForward

(* The publisher implements the abstract retained replica: every step of the *)
(* code is a step of the replica or leaves it alone.                         *)
THEOREM ImplementsReplica == Spec => ReplicaSpec
<1> USE DEF Replica!replicaVars
<1>1. Init => Replica!ReplicaInit
  BY DEF Init, Replica!ReplicaInit
<1>2. Base /\ PipeInv /\ [Next]_vars => [Replica!ReplicaNext]_(Replica!replicaVars)
  <2> SUFFICES ASSUME Base, PipeInv, [Next]_vars
               PROVE  [Replica!ReplicaNext]_(Replica!replicaVars)
    OBVIOUS
  <2>0. retained \in [Topics -> Payload \cup {None}]
    BY DEF Base, TypeOK
  <2>1. CASE /\ revision' = revision + 1
             /\ \A r \in 1..revision : history'[r] = history[r]
             /\ UNCHANGED retained
    BY <2>1 DEF Replica!ReplicaNext, Replica!Advance
  <2>2. ASSUME NEW t \in Topics, NEW r \in 1..revision,
               retained[t] # None => retained[t].rev <= r,
               retained' = [retained EXCEPT ![t] = [rev |-> r, val |-> history[r][t]]],
               UNCHANGED <<revision, history>>
        PROVE  Replica!ReplicaNext
    <3>1. Replica!Show(t, r)
      <4> DEFINE p == [rev |-> r, val |-> history[r][t]]
                 was(u) == IF retained[u] = None THEN 0 ELSE retained[u].rev
                 is(u)  == IF retained'[u] = None THEN 0 ELSE retained'[u].rev
                 saw(u) == IF retained[u] = None THEN None ELSE retained[u].val
                 sees(u) == IF retained'[u] = None THEN None ELSE retained'[u].val
      <4>1. r \in Revisions
        BY ConstantsAssumption DEF Base, TypeOK
      <4>2. p \in Payload /\ p # None
        BY <4>1, ConstantsAssumption DEF Base, TypeOK, Payload
      <4>3. \A u \in Topics : retained'[u] = IF u = t THEN p ELSE retained[u]
        BY <2>0, <2>2
      <4>4. is(t) = r /\ sees(t) = history[r][t] /\ was(t) <= r
        BY <2>2, <4>2, <4>3
      <4>5. \A u \in Topics : u # t => is(u) = was(u) /\ sees(u) = saw(u)
        BY <4>3
      <4>6. [u \in Topics |-> is(u)] = [[u \in Topics |-> was(u)] EXCEPT ![t] = r]
        <5> HIDE DEF is, was
        <5> QED
          BY <4>4, <4>5
      <4>7. [u \in Topics |-> sees(u)] = [[u \in Topics |-> saw(u)] EXCEPT ![t] = history[r][t]]
        <5> HIDE DEF sees, saw
        <5> QED
          BY <4>4, <4>5
      <4> QED
        BY <2>2, <4>4, <4>6, <4>7 DEF Replica!Show
    <3> QED
      BY <3>1 DEF Replica!ReplicaNext
  <2>3. CASE retained' = [t \in Topics |-> None] /\ UNCHANGED <<revision, history>>
    BY <2>3 DEF Replica!ReplicaNext, Replica!Wipe
  <2>4. CASE UNCHANGED <<revision, history, retained>>
    BY <2>4
  <2> QED
    BY <2>1, <2>2, <2>3, <2>4, StepEffects
<1> QED
  BY <1>1, <1>2, BaseAlways, PipeAlways, PTL DEF Spec, ReplicaSpec, Replica!ReplicaSpec
-----------------------------------------------------------------------------
(* The deduplication cache tells the truth.  CacheHonest is not inductive:   *)
(* it says nothing of an entity while it is being published.  MarkInv says   *)
(* what holds of a mark then, and AwaitInv why an acknowledgement settles it.*)

(* The topic a caller has marked and is publishing.                          *)
Busy(c, t) == pc[c] \in {"publish", "wait"} /\ Topic(c) = t

(* The broker retains what the cache says, and nothing can replace it.       *)
Settled(t) ==
  /\ retained[t] # None
  /\ retained[t].val = cache[t]
  /\ \A i \in DOMAIN pipe : pipe[i].topic # t

(* A message someone still waits for is the last one of its topic, so its    *)
(* acknowledgement settles the topic.                                        *)
AwaitInv ==
  /\ \A c \in Callers : acked[c] => pc[c] = "wait"
  /\ \A i \in DOMAIN pipe : \A c \in Callers :
       pipe[i].by = c =>
         /\ pc[c] = "wait" /\ ~acked[c]
         /\ pipe[i].topic = Topic(c) /\ pipe[i].val = Value(c)
         /\ \A j \in DOMAIN pipe : j > i => pipe[j].topic # Topic(c)

(* A publishing caller's topic is marked with its payload, or (after a cache *)
(* reset) with nothing.                                                      *)
MarkOwn(c) == pc[c] \in {"publish", "wait"} => cache[Topic(c)] \in {None, Value(c)}

(* An acknowledged mark is settled although its publisher has not moved on.  *)
AckSettles(c) ==
  acked[c] /\ ~stale /\ cache[Topic(c)] # None => Settled(Topic(c))

(* So is a mark that nobody is still publishing.                             *)
MarkSettles(t) ==
  ~stale /\ cache[t] # None /\ (\A c \in Callers : ~Busy(c, t)) => Settled(t)

MarkInv ==
  /\ \A c \in Callers : MarkOwn(c) /\ AckSettles(c)
  /\ \A t \in Topics : MarkSettles(t)

-----------------------------------------------------------------------------
(* The publishing callers                                                   *)

LEMMA PublishTypes ==
  ASSUME Base
  PROVE  /\ \A c \in Callers : pc[c] \in {"publish", "wait"} =>
              /\ Topic(c) \in Topics /\ Value(c) \in Values
              /\ pc[c] \in Publishing
         /\ None \notin Callers /\ None \notin Values
<1>1. ASSUME NEW c \in Callers, pc[c] \in {"publish", "wait"}
      PROVE  Topic(c) \in Topics /\ Value(c) \in Values /\ pc[c] \in Publishing
  <2>1. pc[c] \in Publishing
    BY <1>1 DEF Publishing
  <2> QED
    BY <2>1, PublishedTypes
<1> QED
  BY <1>1, ConstantsAssumption

(* The engine does not change a message that is being published.             *)
LEMMA ValueKept ==
  ASSUME Base, NEW new \in [Topics -> Values], EngineStep(new)
  PROVE  \A c \in Callers : Topic(c)' = Topic(c) /\ Value(c)' = Value(c)
<1>1. UNCHANGED <<rev, cur, part>>
  BY DEF EngineStep, callerVars
<1>2. \A c \in Callers : rev[c] \in Revisions /\ rev[c] <= revision
  BY DEF Base, TypeOK, GateInv
<1>3. \A c \in Callers : history'[rev[c]] = history[rev[c]]
  BY <1>2 DEF EngineStep
<1> QED
  BY <1>1, <1>3 DEF Topic, Value

(* Every caller but c stays where it is.                                     *)
OthersStay(c) ==
  \A d \in Callers : d # c =>
    pc'[d] = pc[d] /\ rev'[d] = rev[d] /\ cur'[d] = cur[d] /\ part'[d] = part[d]

LEMMA OthersKeepMessage ==
  ASSUME NEW c \in Callers, OthersStay(c), UNCHANGED history
  PROVE  \A d \in Callers : d # c =>
           pc'[d] = pc[d] /\ Topic(d)' = Topic(d) /\ Value(d)' = Value(d)
BY DEF OthersStay, Topic, Value

LEMMA StepOthersStay ==
  ASSUME Base, NEW c \in Callers,
         \/ \E r \in Revisions, ents \in SUBSET Entities : StartUpdate(c, r, ents)
         \/ StartReplay(c) \/ Progress(c) \/ EnterGate(c)
  PROVE  OthersStay(c) /\ UNCHANGED history
<1>1. pc \in [Callers -> PCs] /\ rev \in [Callers -> Revisions]
      /\ cur \in [Callers -> Entities \cup {None}] /\ part \in [Callers -> Parts]
  BY DEF Base, TypeOK
<1>2. CASE \E r \in Revisions, ents \in SUBSET Entities : StartUpdate(c, r, ents)
  BY <1>1, <1>2 DEF StartUpdate, OthersStay, engineVars
<1>3. CASE StartReplay(c)
  BY <1>1, <1>3 DEF StartReplay, OthersStay, engineVars
<1>4. CASE AnnounceOnline(c) \/ TakeSnapshot(c) \/ EndJob(c)
  <2>1. CASE AnnounceOnline(c)
    BY <1>1, <2>1 DEF AnnounceOnline, ReplayFails, OthersStay, engineVars
  <2>2. CASE TakeSnapshot(c)
    BY <1>1, <2>2 DEF TakeSnapshot, ReplayFails, OthersStay, engineVars
  <2>3. CASE EndJob(c)
    BY <1>1, <2>3 DEF EndJob, OthersStay, engineVars
  <2> QED
    BY <1>4, <2>1, <2>2, <2>3
<1>5. CASE EnterGate(c)
  <2> PICK e \in Entities : BeginEntity(c, e)
    BY <1>5 DEF EnterGate
  <2> QED
    BY <1>1 DEF BeginEntity, OthersStay, engineVars
<1>6. CASE MarkTopic(c) \/ WaitSucceeds(c)
  <2>1. UNCHANGED <<history, rev>>
    BY <1>6 DEF MarkTopic, WaitSucceeds, engineVars
  <2>2. CASE PartDone(c)
    BY <1>1, <2>1, <2>2 DEF PartDone, LeaveEntity, OthersStay
  <2>3. CASE pc' = [pc EXCEPT ![c] = "publish"] /\ UNCHANGED <<gate, cur, part>>
    BY <1>1, <2>1, <2>3 DEF OthersStay
  <2> QED
    BY <1>6, <2>2, <2>3 DEF MarkTopic, WaitSucceeds
<1>7. CASE SendPart(c)
  BY <1>1, <1>7 DEF SendPart, OthersStay, engineVars
<1>8. CASE SendFails(c) \/ WaitFails(c)
  <2>1. UNCHANGED <<history, rev>> /\ LeaveEntity(c)
    BY <1>8 DEF SendFails, WaitFails, engineVars, PartFailed
  <2> QED
    BY <1>1, <2>1 DEF LeaveEntity, OthersStay
<1> QED
  BY <1>2, <1>3, <1>4, <1>5, <1>6, <1>7, <1>8 DEF Progress

-----------------------------------------------------------------------------
(* AwaitInv                                                                 *)

(* A step of a caller that does not wait, and sends nothing.                 *)
LEMMA AwaitFrame ==
  ASSUME Base, AwaitInv, NEW c \in Callers, pc[c] # "wait", OthersStay(c),
         UNCHANGED <<history, acked, pipe>>
  PROVE  AwaitInv'
<1>1. \A d \in Callers : d # c =>
        pc'[d] = pc[d] /\ Topic(d)' = Topic(d) /\ Value(d)' = Value(d)
  BY OthersKeepMessage
<1>2. ~acked[c] /\ \A i \in DOMAIN pipe : pipe[i].by # c
  BY DEF AwaitInv
<1>3. \A d \in Callers : acked'[d] => pc'[d] = "wait"
  BY <1>1, <1>2 DEF AwaitInv
<1>4. ASSUME NEW i \in DOMAIN pipe, NEW d \in Callers, pipe[i].by = d
      PROVE  /\ pc'[d] = "wait" /\ ~acked'[d]
             /\ pipe[i].topic = Topic(d)' /\ pipe[i].val = Value(d)'
             /\ \A j \in DOMAIN pipe : j > i => pipe[j].topic # Topic(d)'
  <2>1. d # c
    BY <1>2, <1>4
  <2>2. pc'[d] = pc[d] /\ Topic(d)' = Topic(d) /\ Value(d)' = Value(d)
    BY <1>1, <2>1
  <2> QED
    BY <1>4, <2>2 DEF AwaitInv
<1> QED
  BY <1>3, <1>4 DEF AwaitInv

LEMMA AwaitSendPart ==
  ASSUME Base, AwaitInv, NEW c \in Callers, SendPart(c)
  PROVE  AwaitInv'
<1> DEFINE m == [topic |-> Topic(c), rev |-> rev[c], val |-> Value(c), by |-> c]
<1>1. /\ pipe' = Append(pipe, m) /\ pc[c] = "publish" /\ pc' = [pc EXCEPT ![c] = "wait"]
      /\ UNCHANGED <<history, acked, rev, cur, part>>
  BY DEF SendPart, engineVars
<1>2. /\ m \in Message /\ pc[c] \in Publishing
      /\ pipe \in Seq(Message) /\ DOMAIN pipe = 1..Len(pipe) /\ Len(pipe) \in Nat
  BY <1>1, PublishTypes, PipeTypes DEF Message, Base, TypeOK
<1>3. /\ DOMAIN pipe' = 1..(Len(pipe) + 1)
      /\ \A i \in DOMAIN pipe : pipe'[i] = pipe[i]
      /\ pipe'[Len(pipe) + 1] = m
  BY <1>1, <1>2, AppendElements
<1>4. /\ pc'[c] = "wait" /\ \A d \in Callers : d # c => pc'[d] = pc[d]
      /\ \A d \in Callers : Topic(d)' = Topic(d) /\ Value(d)' = Value(d)
  BY <1>1 DEF Base, TypeOK, Topic, Value
<1>5. ~acked[c] /\ \A i \in DOMAIN pipe : pipe[i].by # c
  BY <1>1 DEF AwaitInv
<1>6. \A d \in Callers : acked'[d] => pc'[d] = "wait"
  BY <1>1, <1>4 DEF AwaitInv
<1>7. ASSUME NEW i \in DOMAIN pipe', NEW d \in Callers, pipe'[i].by = d
      PROVE  /\ pc'[d] = "wait" /\ ~acked'[d]
             /\ pipe'[i].topic = Topic(d)' /\ pipe'[i].val = Value(d)'
             /\ \A j \in DOMAIN pipe' : j > i => pipe'[j].topic # Topic(d)'
  <2>1. CASE i = Len(pipe) + 1
    <3>1. d = c /\ pipe'[i] = m
      BY <1>3, <1>7, <2>1
    <3>2. \A j \in DOMAIN pipe' : ~(j > i)
      BY <1>2, <1>3, <2>1
    <3> QED
      BY <1>1, <1>4, <1>5, <3>1, <3>2
  <2>2. CASE i \in DOMAIN pipe
    <3>1. d # c /\ pipe'[i] = pipe[i]
      BY <1>3, <1>5, <1>7, <2>2
    <3>2. pc[d] = "wait" /\ pc[d] \in Publishing
      BY <1>7, <2>2, <3>1 DEF AwaitInv, Publishing
    <3>3. Topic(d) # Topic(c)
      BY <1>2, <3>1, <3>2, PublishersDiffer
    <3>4. \A j \in DOMAIN pipe' : j > i => pipe'[j].topic # Topic(d)
      <4> SUFFICES ASSUME NEW j \in DOMAIN pipe', j > i PROVE pipe'[j].topic # Topic(d)
        OBVIOUS
      <4>1. CASE j = Len(pipe) + 1
        BY <1>3, <3>3, <4>1
      <4>2. CASE j \in DOMAIN pipe
        BY <1>3, <1>7, <2>2, <3>1, <4>2 DEF AwaitInv
      <4> QED
        BY <1>2, <1>3, <4>1, <4>2
    <3> QED
      BY <1>1, <1>4, <1>7, <2>2, <3>1, <3>4 DEF AwaitInv
  <2> QED
    BY <1>2, <1>3, <2>1, <2>2
<1> QED
  BY <1>6, <1>7 DEF AwaitInv

(* The end of a wait: no message answers the caller any longer.              *)
LEMMA AwaitWaitEnds ==
  ASSUME Base, AwaitInv, NEW c \in Callers, WaitSucceeds(c) \/ WaitFails(c)
  PROVE  AwaitInv'
<1>1. OthersStay(c) /\ UNCHANGED history
  BY StepOthersStay DEF Progress
<1>2. \A d \in Callers : d # c =>
        pc'[d] = pc[d] /\ Topic(d)' = Topic(d) /\ Value(d)' = Value(d)
  BY <1>1, OthersKeepMessage
<1>3. acked' = [acked EXCEPT ![c] = FALSE] /\ acked \in [Callers -> BOOLEAN]
  BY DEF WaitSucceeds, WaitFails, Base, TypeOK
<1>4. ~acked'[c] /\ \A d \in Callers : d # c => acked'[d] = acked[d]
  BY <1>3
<1>5. /\ DOMAIN pipe' = DOMAIN pipe
      /\ \A i \in DOMAIN pipe :
           /\ pipe'[i].topic = pipe[i].topic /\ pipe'[i].val = pipe[i].val
           /\ pipe'[i].by # c
           /\ \A d \in Callers : pipe'[i].by = d => pipe[i].by = d
  <2>1. CASE WaitSucceeds(c)
    <3>1. pipe' = pipe /\ acked[c]
      BY <2>1 DEF WaitSucceeds, brokerVars
    <3> QED
      BY <3>1 DEF AwaitInv
  <2>2. CASE WaitFails(c)
    BY <2>2, AbandonElements, PublishTypes DEF WaitFails, Base
  <2> QED
    BY <2>1, <2>2
<1>6. \A d \in Callers : acked'[d] => pc'[d] = "wait"
  BY <1>2, <1>4 DEF AwaitInv
<1>7. ASSUME NEW i \in DOMAIN pipe', NEW d \in Callers, pipe'[i].by = d
      PROVE  /\ pc'[d] = "wait" /\ ~acked'[d]
             /\ pipe'[i].topic = Topic(d)' /\ pipe'[i].val = Value(d)'
             /\ \A j \in DOMAIN pipe' : j > i => pipe'[j].topic # Topic(d)'
  <2>1. d # c /\ i \in DOMAIN pipe /\ pipe[i].by = d
    BY <1>5, <1>7
  <2> QED
    BY <1>2, <1>4, <1>5, <2>1 DEF AwaitInv
<1> QED
  BY <1>6, <1>7 DEF AwaitInv

LEMMA DeliverPipe ==
  ASSUME Base, Deliver
  PROVE  /\ Head(pipe) = pipe[1] /\ 1 \in DOMAIN pipe /\ DOMAIN pipe = 1..Len(pipe)
         /\ Len(pipe) \in Nat
         /\ \A i \in DOMAIN pipe' :
              i \in Nat /\ i >= 1 /\ i + 1 \in DOMAIN pipe /\ pipe'[i] = pipe[i + 1]
<1>1. pipe \in Seq(Message) /\ pipe # <<>> /\ pipe' = Tail(pipe)
  BY DEF Base, TypeOK, Deliver
<1> QED
  BY <1>1, TailElements, PipeTypes

LEMMA AwaitBroker ==
  ASSUME Base, AwaitInv, Deliver \/ ConnectionLost \/ Reconnect \/ OnConnect
  PROVE  AwaitInv'
<1>0. /\ UNCHANGED <<history, pc, rev, cur, part>>
      /\ \A c \in Callers : Topic(c)' = Topic(c) /\ Value(c)' = Value(c)
  BY DEF Deliver, ConnectionLost, Reconnect, OnConnect, callerVars, engineVars, Topic, Value
<1>1. CASE Deliver
  <2>1. \A c \in Callers : acked'[c] = (acked[c] \/ pipe[1].by = c)
    BY <1>1, DeliverPipe DEF Deliver
  <2>2. \A c \in Callers : acked'[c] => pc'[c] = "wait"
    BY <1>0, <1>1, <2>1, DeliverPipe DEF AwaitInv
  <2>3. ASSUME NEW i \in DOMAIN pipe', NEW c \in Callers, pipe'[i].by = c
        PROVE  /\ pc'[c] = "wait" /\ ~acked'[c]
               /\ pipe'[i].topic = Topic(c)' /\ pipe'[i].val = Value(c)'
               /\ \A j \in DOMAIN pipe' : j > i => pipe'[j].topic # Topic(c)'
    <3>1. i + 1 \in DOMAIN pipe /\ pipe[i + 1].by = c /\ i + 1 > 1 /\ 1 \in DOMAIN pipe
      BY <1>1, <2>3, DeliverPipe
    <3>2. /\ pc[c] = "wait" /\ ~acked[c]
          /\ pipe[i + 1].topic = Topic(c) /\ pipe[i + 1].val = Value(c)
          /\ \A j \in DOMAIN pipe : j > i + 1 => pipe[j].topic # Topic(c)
      BY <3>1 DEF AwaitInv
    <3>3. pipe[1].by # c
      BY <3>1, <3>2 DEF AwaitInv
    <3>4. \A j \in DOMAIN pipe' : j > i => pipe'[j].topic # Topic(c)
      BY <1>1, <3>2, DeliverPipe
    <3> QED
      BY <1>0, <1>1, <2>1, <2>3, <3>2, <3>3, <3>4, DeliverPipe
  <2> QED
    BY <2>2, <2>3 DEF AwaitInv
<1>2. CASE ConnectionLost
  <2>1. UNCHANGED acked /\ pipe' \in {pipe, <<>>}
    BY <1>2 DEF ConnectionLost
  <2>2. \A i \in DOMAIN pipe' : i \in DOMAIN pipe /\ pipe'[i] = pipe[i]
    BY <2>1
  <2>3. \A c \in Callers : acked'[c] => pc'[c] = "wait"
    BY <1>0, <2>1 DEF AwaitInv
  <2> QED
    BY <1>0, <2>1, <2>2, <2>3 DEF AwaitInv
<1>3. CASE Reconnect \/ OnConnect
  <2>1. UNCHANGED acked
    BY <1>3 DEF Reconnect, OnConnect, callerVars
  <2>2. UNCHANGED pipe
    BY <1>3 DEF Reconnect, OnConnect
  <2> QED
    BY <1>0, <2>1, <2>2 DEF AwaitInv
<1> QED
  BY <1>1, <1>2, <1>3

LEMMA AwaitStep == Base /\ AwaitInv /\ [Next]_vars => AwaitInv'
<1> SUFFICES ASSUME Base, AwaitInv, [Next]_vars PROVE AwaitInv'
  OBVIOUS
<1>1. CASE UNCHANGED vars
  BY <1>1 DEF vars, engineVars, callerVars, brokerVars, AwaitInv, Topic, Value
<1>2. CASE \E new \in [Topics -> Values] : EngineStep(new)
  <2>1. UNCHANGED <<pc, acked>> /\ UNCHANGED pipe
    BY <1>2 DEF EngineStep, callerVars, brokerVars
  <2>2. \A c \in Callers : Topic(c)' = Topic(c) /\ Value(c)' = Value(c)
    BY <1>2, ValueKept
  <2>3. \A c \in Callers : acked'[c] => pc'[c] = "wait"
    BY <2>1 DEF AwaitInv
  <2> QED
    BY <2>1, <2>2, <2>3 DEF AwaitInv
<1>3. CASE Deliver \/ ConnectionLost \/ Reconnect \/ OnConnect
  BY <1>3, AwaitBroker
<1>4. ASSUME NEW c \in Callers,
             \/ \E r \in Revisions, ents \in SUBSET Entities : StartUpdate(c, r, ents)
             \/ StartReplay(c) \/ Progress(c) \/ EnterGate(c)
      PROVE  AwaitInv'
  <2>1. OthersStay(c) /\ UNCHANGED history
    BY <1>4, StepOthersStay
  <2>2. CASE SendPart(c) \/ WaitSucceeds(c) \/ WaitFails(c)
    BY <2>2, AwaitSendPart, AwaitWaitEnds
  <2>3. CASE pc[c] # "wait" /\ UNCHANGED <<acked, pipe>>
    BY <2>1, <2>3, AwaitFrame
  <2>4. ASSUME \/ \E r \in Revisions, ents \in SUBSET Entities : StartUpdate(c, r, ents)
               \/ StartReplay(c) \/ EnterGate(c) \/ AnnounceOnline(c) \/ TakeSnapshot(c)
               \/ EndJob(c) \/ MarkTopic(c) \/ SendFails(c)
        PROVE  pc[c] # "wait" /\ UNCHANGED <<acked, pipe>>
    BY <2>4 DEF StartUpdate, StartReplay, EnterGate, BeginEntity, AnnounceOnline,
                TakeSnapshot, EndJob, MarkTopic, SendFails, brokerVars
  <2> QED
    BY <1>4, <2>2, <2>3, <2>4 DEF Progress
<1> QED
  BY <1>1, <1>2, <1>3, <1>4 DEF Next, Environment

-----------------------------------------------------------------------------
(* MarkInv                                                                  *)

(* A settled topic stays settled while nothing about it changes.             *)
LEMMA SettledFrame ==
  ASSUME NEW t \in Topics, Settled(t), retained'[t] = retained[t], cache'[t] = cache[t],
         \A i \in DOMAIN pipe' : \E j \in DOMAIN pipe : pipe'[i].topic = pipe[j].topic
  PROVE  Settled(t)'
BY DEF Settled

(* Steps that touch neither the cache nor the broker, and do not end the     *)
(* publication of a marked topic.                                            *)
LEMMA MarkFrame ==
  ASSUME Base, AwaitInv, MarkInv, NEW c \in Callers, OthersStay(c),
         UNCHANGED <<history, acked, cache>>, UNCHANGED <<stale, pipe, retained>>,
         pc[c] \notin {"publish", "wait"}, pc'[c] \notin {"publish", "wait"}
  PROVE  MarkInv'
<1>1. \A d \in Callers : d # c =>
        pc'[d] = pc[d] /\ Topic(d)' = Topic(d) /\ Value(d)' = Value(d)
  BY OthersKeepMessage
<1>2. \A t : Settled(t)' <=> Settled(t)
  BY DEF Settled
<1>3. \A d \in Callers : MarkOwn(d)'
  BY <1>1 DEF MarkInv, MarkOwn
<1>4. ASSUME NEW d \in Callers
      PROVE  AckSettles(d)'
  <2>1. CASE d = c
    BY <2>1 DEF AwaitInv, AckSettles
  <2>2. CASE d # c
    <3>1. Topic(d)' = Topic(d) /\ AckSettles(d)
      BY <1>1, <2>2 DEF MarkInv
    <3> QED
      BY <1>2, <3>1 DEF AckSettles, Settled
  <2> QED
    BY <2>1, <2>2
<1>5. ASSUME NEW t \in Topics
      PROVE  MarkSettles(t)'
  <2>1. (\A d \in Callers : ~Busy(d, t)') => \A d \in Callers : ~Busy(d, t)
    BY <1>1 DEF Busy
  <2> QED
    BY <1>2, <2>1 DEF MarkInv, MarkSettles
<1> QED
  BY <1>3, <1>4, <1>5 DEF MarkInv

(* A publishing caller touches its own topic only: every other caller's and  *)
(* every other topic's part of the invariant is kept.                        *)
LEMMA MarkElsewhere ==
  ASSUME Base, AwaitInv, MarkInv, NEW c \in Callers, pc[c] \in Publishing,
         OthersStay(c), UNCHANGED <<history, retained>>, UNCHANGED stale,
         pc'[c] \in {"publish", "wait"} => Topic(c)' = Topic(c),
         \A t \in Topics : t # Topic(c) => cache'[t] = cache[t],
         \A d \in Callers : d # c => (acked'[d] <=> acked[d]),
         \A i \in DOMAIN pipe' : \/ pipe'[i].topic = Topic(c)
                                 \/ \E j \in DOMAIN pipe : pipe'[i].topic = pipe[j].topic
  PROVE  /\ \A d \in Callers : d # c => MarkOwn(d)' /\ AckSettles(d)'
         /\ \A t \in Topics : t # Topic(c) => MarkSettles(t)'
<1>1. \A d \in Callers : d # c =>
        pc'[d] = pc[d] /\ Topic(d)' = Topic(d) /\ Value(d)' = Value(d)
  BY OthersKeepMessage
<1>2. ASSUME NEW t \in Topics, t # Topic(c)
      PROVE  Settled(t) => Settled(t)'
  BY <1>2 DEF Settled
<1>3. ASSUME NEW d \in Callers, d # c, pc[d] \in {"publish", "wait"}
      PROVE  Topic(d) \in Topics /\ Topic(d) # Topic(c)
  BY <1>3, PublishTypes, PublishersDiffer
<1>4. ASSUME NEW d \in Callers, d # c
      PROVE  MarkOwn(d)'
  <2>1. MarkOwn(d)
    BY DEF MarkInv
  <2> QED
    BY <1>1, <1>3, <1>4, <2>1 DEF MarkOwn
<1>5. ASSUME NEW d \in Callers, d # c
      PROVE  AckSettles(d)'
  <2> SUFFICES ASSUME acked'[d], ~stale', cache'[Topic(d)'] # None
               PROVE  Settled(Topic(d))'
    BY DEF AckSettles
  <2>1. acked[d] /\ ~stale
    BY <1>5
  <2>2. Topic(d) \in Topics /\ Topic(d) # Topic(c) /\ Topic(d)' = Topic(d)
    BY <1>1, <1>3, <1>5, <2>1 DEF AwaitInv
  <2>3. Settled(Topic(d))
    BY <2>1, <2>2 DEF MarkInv, AckSettles
  <2> QED
    BY <1>2, <2>2, <2>3 DEF Settled
<1>6. ASSUME NEW t \in Topics, t # Topic(c)
      PROVE  MarkSettles(t)'
  <2>1. (\A d \in Callers : ~Busy(d, t)') => \A d \in Callers : ~Busy(d, t)
    BY <1>1, <1>6 DEF Busy
  <2>2. MarkSettles(t)
    BY DEF MarkInv
  <2> QED
    BY <1>2, <1>6, <2>1, <2>2 DEF MarkSettles
<1> QED
  BY <1>4, <1>5, <1>6

(* Without an acknowledgement the caller itself has nothing to show.         *)
LEMMA NotAcked ==
  ASSUME AwaitInv, NEW c \in Callers, pc[c] # "wait"
  PROVE  ~acked[c]
BY DEF AwaitInv

LEMMA MarkMiss ==
  ASSUME Base, AwaitInv, MarkInv, NEW c \in Callers, MarkTopic(c),
         cache' = [cache EXCEPT ![Topic(c)] = Value(c)],
         pc' = [pc EXCEPT ![c] = "publish"], UNCHANGED <<gate, cur, part>>
  PROVE  MarkInv'
<1>1. /\ pc[c] = "mark" /\ pc[c] \in Publishing
      /\ UNCHANGED <<history, retained, rev, acked, pipe>> /\ UNCHANGED stale
  BY DEF MarkTopic, engineVars, brokerVars, Publishing
<1>2. Topic(c) \in Topics
  BY <1>1, PublishedTypes
<1>3. /\ OthersStay(c) /\ Topic(c)' = Topic(c) /\ Value(c)' = Value(c)
      /\ pc'[c] = "publish"
      /\ cache'[Topic(c)] = Value(c)
      /\ \A t \in Topics : t # Topic(c) => cache'[t] = cache[t]
  BY <1>1, <1>2 DEF Base, TypeOK, OthersStay, Topic, Value
<1>4. /\ \A d \in Callers : d # c => MarkOwn(d)' /\ AckSettles(d)'
      /\ \A t \in Topics : t # Topic(c) => MarkSettles(t)'
  BY <1>1, <1>3, MarkElsewhere
<1>5. MarkOwn(c)'
  BY <1>3 DEF MarkOwn
<1>6. AckSettles(c)'
  BY <1>1, NotAcked DEF AckSettles
<1>7. ASSUME NEW t \in Topics, t = Topic(c)
      PROVE  MarkSettles(t)'
  <2>1. Busy(c, t)'
    BY <1>3, <1>7 DEF Busy
  <2> QED
    BY <2>1 DEF MarkSettles
<1> QED
  BY <1>4, <1>5, <1>6, <1>7 DEF MarkInv

LEMMA MarkSendPart ==
  ASSUME Base, AwaitInv, MarkInv, NEW c \in Callers, SendPart(c)
  PROVE  MarkInv'
<1> DEFINE m == [topic |-> Topic(c), rev |-> rev[c], val |-> Value(c), by |-> c]
<1>1. /\ pc[c] = "publish" /\ pc[c] \in Publishing /\ pipe' = Append(pipe, m)
      /\ pc' = [pc EXCEPT ![c] = "wait"]
      /\ UNCHANGED <<history, retained, rev, cur, part, acked, cache>> /\ UNCHANGED stale
  BY DEF SendPart, engineVars, Publishing
<1>2. OthersStay(c) /\ Topic(c)' = Topic(c) /\ Value(c)' = Value(c) /\ pc'[c] = "wait"
  BY <1>1 DEF Base, TypeOK, OthersStay, Topic, Value
<1>3. \A i \in DOMAIN pipe' : \/ pipe'[i].topic = Topic(c)
                              \/ \E j \in DOMAIN pipe : pipe'[i].topic = pipe[j].topic
  <2>1. m \in Message /\ pipe \in Seq(Message)
    BY <1>1, PublishTypes DEF Message, Base, TypeOK
  <2>2. /\ DOMAIN pipe' = 1..(Len(pipe) + 1) /\ DOMAIN pipe = 1..Len(pipe) /\ Len(pipe) \in Nat
        /\ \A i \in 1..Len(pipe) : pipe'[i] = pipe[i]
        /\ pipe'[Len(pipe) + 1] = m
    BY <1>1, <2>1, AppendElements
  <2>3. \A i \in DOMAIN pipe' : i = Len(pipe) + 1 \/ i \in DOMAIN pipe
    BY <2>2
  <2> QED
    BY <2>2, <2>3
<1>4. /\ \A d \in Callers : d # c => MarkOwn(d)' /\ AckSettles(d)'
      /\ \A t \in Topics : t # Topic(c) => MarkSettles(t)'
  BY <1>1, <1>2, <1>3, MarkElsewhere
<1>5. MarkOwn(c)'
  BY <1>1, <1>2 DEF MarkInv, MarkOwn
<1>6. AckSettles(c)'
  BY <1>1, NotAcked DEF AckSettles
<1>7. ASSUME NEW t \in Topics, t = Topic(c)
      PROVE  MarkSettles(t)'
  <2>1. Busy(c, t)'
    BY <1>2, <1>7 DEF Busy
  <2> QED
    BY <2>1 DEF MarkSettles
<1> QED
  BY <1>4, <1>5, <1>6, <1>7 DEF MarkInv

LEMMA MarkFails ==
  ASSUME Base, AwaitInv, MarkInv, NEW c \in Callers, SendFails(c) \/ WaitFails(c)
  PROVE  MarkInv'
<1>1. /\ pc[c] \in {"publish", "wait"} /\ pc[c] \in Publishing /\ PartFailed(c)
      /\ UNCHANGED <<history, retained>> /\ UNCHANGED stale
  BY DEF SendFails, WaitFails, engineVars, brokerVars, Publishing
<1>2. Topic(c) \in Topics /\ OthersStay(c)
  BY <1>1, PublishTypes, StepOthersStay DEF Progress
<1>3. /\ pc'[c] = "next" /\ cache'[Topic(c)] = None
      /\ \A t \in Topics : t # Topic(c) => cache'[t] = cache[t]
  BY <1>1, <1>2 DEF PartFailed, LeaveEntity, Base, TypeOK
<1>4. /\ ~acked'[c] /\ \A d \in Callers : d # c => (acked'[d] <=> acked[d])
      /\ \A i \in DOMAIN pipe' : \E j \in DOMAIN pipe : pipe'[i].topic = pipe[j].topic
  <2>1. CASE SendFails(c)
    <3>1. pc[c] # "wait"
      BY <2>1 DEF SendFails
    <3>2. UNCHANGED acked
      BY <2>1 DEF SendFails
    <3>3. UNCHANGED pipe
      BY <2>1 DEF SendFails, brokerVars
    <3> QED
      BY <3>1, <3>2, <3>3, NotAcked
  <2>2. CASE WaitFails(c)
    <3>1. acked' = [acked EXCEPT ![c] = FALSE] /\ acked \in [Callers -> BOOLEAN]
      BY <2>2 DEF WaitFails, Base, TypeOK
    <3>2. \A i \in DOMAIN pipe' : \E j \in DOMAIN pipe : pipe'[i].topic = pipe[j].topic
      BY <2>2, AbandonElements DEF WaitFails, Base
    <3> QED
      BY <3>1, <3>2
  <2> QED
    BY <2>1, <2>2
<1>5. /\ \A d \in Callers : d # c => MarkOwn(d)' /\ AckSettles(d)'
      /\ \A t \in Topics : t # Topic(c) => MarkSettles(t)'
  BY <1>1, <1>2, <1>3, <1>4, MarkElsewhere
<1>6. MarkOwn(c)' /\ AckSettles(c)'
  BY <1>3, <1>4 DEF MarkOwn, AckSettles
<1>7. ASSUME NEW t \in Topics, t = Topic(c)
      PROVE  MarkSettles(t)'
  BY <1>3, <1>7 DEF MarkSettles
<1> QED
  BY <1>5, <1>6, <1>7 DEF MarkInv

LEMMA MarkWaitSucceeds ==
  ASSUME Base, AwaitInv, MarkInv, NEW c \in Callers, WaitSucceeds(c)
  PROVE  MarkInv'
<1>1. /\ pc[c] = "wait" /\ pc[c] \in Publishing /\ acked[c] /\ PartDone(c)
      /\ UNCHANGED <<history, retained, pipe, cache>> /\ UNCHANGED stale
  BY DEF WaitSucceeds, engineVars, brokerVars, Publishing
<1>2. OthersStay(c) /\ pc'[c] \in {"mark", "next"}
  BY <1>1, StepOthersStay DEF Progress, PartDone, LeaveEntity, Base, TypeOK
<1>3. acked' = [acked EXCEPT ![c] = FALSE] /\ acked \in [Callers -> BOOLEAN]
  BY DEF WaitSucceeds, Base, TypeOK
<1>4. ~acked'[c] /\ \A d \in Callers : d # c => (acked'[d] <=> acked[d])
  BY <1>3
<1>5. /\ \A d \in Callers : d # c => MarkOwn(d)' /\ AckSettles(d)'
      /\ \A t \in Topics : t # Topic(c) => MarkSettles(t)'
  BY <1>1, <1>2, <1>4, MarkElsewhere
<1>6. MarkOwn(c)' /\ AckSettles(c)'
  BY <1>2, <1>4 DEF MarkOwn, AckSettles
<1>7. ASSUME NEW t \in Topics, t = Topic(c)
      PROVE  MarkSettles(t)'
  <2>1. ~stale /\ cache[t] # None => Settled(t)
    BY <1>1, <1>7 DEF MarkInv, AckSettles
  <2> QED
    BY <1>1, <2>1 DEF MarkSettles, Settled
<1> QED
  BY <1>5, <1>6, <1>7 DEF MarkInv

(* A reset of the caches: there is no mark left to be wrong.                 *)
LEMMA MarkReset ==
  ASSUME Base', AwaitInv', cache' = EmptyCache
  PROVE  MarkInv'
<1>1. \A t \in Topics : cache'[t] = None
  BY DEF EmptyCache
<1>2. \A c \in Callers : pc'[c] \in {"publish", "wait"} => Topic(c)' \in Topics
  <2>1. ASSUME NEW c \in Callers, pc'[c] \in {"publish", "wait"}
        PROVE  Topic(c)' \in Topics
    <3>1. cur'[c] \in Entities
      BY <2>1 DEF Base, GateInv, Publishing
    <3>2. part'[c] \in Parts
      BY DEF Base, TypeOK
    <3> QED
      BY <3>1, <3>2 DEF Topic
  <2> QED
    BY <2>1
<1>3. \A c \in Callers : acked'[c] => pc'[c] \in {"publish", "wait"}
  BY DEF AwaitInv
<1>4. \A c \in Callers : MarkOwn(c)'
  BY <1>1, <1>2 DEF MarkOwn
<1>5. \A c \in Callers : AckSettles(c)'
  BY <1>1, <1>2, <1>3 DEF AckSettles
<1>6. \A t \in Topics : MarkSettles(t)'
  BY <1>1 DEF MarkSettles
<1> QED
  BY <1>4, <1>5, <1>6 DEF MarkInv

LEMMA MarkEngineStep ==
  ASSUME Base, MarkInv, NEW new \in [Topics -> Values], EngineStep(new)
  PROVE  MarkInv'
<1>1. /\ UNCHANGED <<pc, cur, part, acked, cache, pipe, retained>>
      /\ UNCHANGED stale
  BY DEF EngineStep, callerVars, brokerVars
<1>2. \A c \in Callers : Topic(c)' = Topic(c) /\ Value(c)' = Value(c)
  BY ValueKept
<1>3. \A c \in Callers : MarkOwn(c)'
  BY <1>1, <1>2 DEF MarkInv, MarkOwn
<1>4. \A c \in Callers : AckSettles(c)'
  BY <1>1, <1>2 DEF MarkInv, AckSettles, Settled
<1>5. \A t \in Topics : MarkSettles(t)'
  BY <1>1, <1>2 DEF MarkInv, MarkSettles, Settled, Busy
<1> QED
  BY <1>3, <1>4, <1>5 DEF MarkInv

LEMMA MarkDeliver ==
  ASSUME Base, AwaitInv, MarkInv, Deliver
  PROVE  MarkInv'
<1> DEFINE m == Head(pipe)
<1>1. /\ UNCHANGED <<pc, cur, part, rev, history, cache>> /\ UNCHANGED stale
      /\ \A c \in Callers : Topic(c)' = Topic(c) /\ Value(c)' = Value(c)
  BY DEF Deliver, engineVars, Topic, Value
<1>2. /\ m = pipe[1] /\ 1 \in DOMAIN pipe /\ m.topic \in Topics
      /\ \A i \in DOMAIN pipe' :
           i \in Nat /\ i >= 1 /\ i + 1 \in DOMAIN pipe /\ pipe'[i] = pipe[i + 1]
  BY DeliverPipe, PipeTypes
<1>3. /\ \A t \in Topics : t # m.topic => retained'[t] = retained[t]
      /\ retained'[m.topic] = [rev |-> m.rev, val |-> m.val]
      /\ retained'[m.topic] # None
  <2>1. retained' = [retained EXCEPT ![m.topic] = [rev |-> m.rev, val |-> m.val]]
    BY DEF Deliver
  <2>2. [rev |-> m.rev, val |-> m.val] # None
    BY <1>2, PipeTypes, ConstantsAssumption
  <2> QED
    BY <1>2, <2>1, <2>2 DEF Base, TypeOK
<1>4. \A c \in Callers : acked'[c] <=> (acked[c] \/ pipe[1].by = c)
  BY <1>2 DEF Deliver
<1>5. ASSUME NEW t \in Topics, Settled(t)
      PROVE  Settled(t)'
  <2>1. t # m.topic
    BY <1>2, <1>5 DEF Settled
  <2> QED
    BY <1>1, <1>2, <1>3, <1>5, <2>1 DEF Settled
<1>6. \A c \in Callers : MarkOwn(c)'
  BY <1>1 DEF MarkInv, MarkOwn
<1>7. ASSUME NEW c \in Callers
      PROVE  AckSettles(c)'
  <2> SUFFICES ASSUME acked'[c], ~stale, cache[Topic(c)] # None
               PROVE  Settled(Topic(c))'
    BY <1>1 DEF AckSettles
  <2>1. CASE acked[c]
    <3>1. Topic(c) \in Topics
      BY <2>1, PublishTypes DEF AwaitInv
    <3>2. Settled(Topic(c))
      BY <2>1 DEF MarkInv, AckSettles
    <3> QED
      BY <1>1, <1>5, <3>1, <3>2 DEF Settled
  <2>2. CASE pipe[1].by = c
    <3>1. /\ pc[c] = "wait" /\ m.topic = Topic(c) /\ m.val = Value(c)
          /\ \A j \in DOMAIN pipe : j > 1 => pipe[j].topic # Topic(c)
      BY <1>2, <2>2 DEF AwaitInv
    <3>2. cache[Topic(c)] = Value(c)
      BY <3>1 DEF MarkInv, MarkOwn
    <3>3. \A i \in DOMAIN pipe' : pipe'[i].topic # Topic(c)
      BY <1>2, <3>1
    <3> QED
      BY <1>1, <1>3, <3>1, <3>2, <3>3 DEF Settled
  <2> QED
    BY <1>4, <2>1, <2>2
<1>8. ASSUME NEW t \in Topics
      PROVE  MarkSettles(t)'
  <2>1. (\A c \in Callers : ~Busy(c, t)') => \A c \in Callers : ~Busy(c, t)
    BY <1>1 DEF Busy
  <2> QED
    BY <1>1, <1>5, <2>1 DEF MarkInv, MarkSettles
<1> QED
  BY <1>6, <1>7, <1>8 DEF MarkInv

LEMMA MarkConnection ==
  ASSUME Base, AwaitInv, MarkInv, ConnectionLost \/ Reconnect
  PROVE  MarkInv'
<1>1. /\ UNCHANGED <<pc, cur, part, rev, history, cache, acked>>
      /\ \A c \in Callers : Topic(c)' = Topic(c) /\ Value(c)' = Value(c)
  BY DEF ConnectionLost, Reconnect, engineVars, callerVars, Topic, Value
<1>2. \A c \in Callers : MarkOwn(c)'
  BY <1>1 DEF MarkInv, MarkOwn
<1>3. \A t \in Topics : (\A c \in Callers : ~Busy(c, t)') => \A c \in Callers : ~Busy(c, t)
  BY <1>1 DEF Busy
<1>4. CASE stale' = TRUE
  BY <1>2, <1>4 DEF MarkInv, AckSettles, MarkSettles
<1>5. CASE UNCHANGED stale /\ UNCHANGED retained
           /\ \A i \in DOMAIN pipe' : i \in DOMAIN pipe /\ pipe'[i] = pipe[i]
  <2>1. \A t \in Topics : Settled(t) => Settled(t)'
    BY <1>1, <1>5 DEF Settled
  <2>2. ASSUME NEW c \in Callers
        PROVE  AckSettles(c)'
    <3> SUFFICES ASSUME acked[c], ~stale, cache[Topic(c)] # None
                 PROVE  Settled(Topic(c))'
      BY <1>1, <1>5 DEF AckSettles
    <3>1. Topic(c) \in Topics
      BY PublishTypes DEF AwaitInv
    <3>2. Settled(Topic(c))
      BY DEF MarkInv, AckSettles
    <3> QED
      BY <1>1, <2>1, <3>1, <3>2 DEF Settled
  <2>3. \A t \in Topics : MarkSettles(t)'
    BY <1>1, <1>3, <1>5, <2>1 DEF MarkInv, MarkSettles
  <2> QED
    BY <1>2, <2>2, <2>3 DEF MarkInv
<1>6. CASE ConnectionLost
  <2>1. pipe' \in {pipe, <<>>}
    BY <1>6 DEF ConnectionLost
  <2>2. \A i \in DOMAIN pipe' : i \in DOMAIN pipe /\ pipe'[i] = pipe[i]
    BY <2>1
  <2>3. stale' = TRUE \/ (UNCHANGED stale /\ UNCHANGED retained)
    BY <1>6 DEF ConnectionLost
  <2> QED
    BY <1>4, <1>5, <2>2, <2>3
<1>7. CASE Reconnect
  <2>1. UNCHANGED stale /\ UNCHANGED retained /\ UNCHANGED pipe
    BY <1>7 DEF Reconnect
  <2> QED
    BY <1>5, <2>1
<1> QED
  BY <1>6, <1>7

LEMMA MarkStep == Base /\ AwaitInv /\ MarkInv /\ [Next]_vars => MarkInv'
<1> SUFFICES ASSUME Base, AwaitInv, MarkInv, [Next]_vars PROVE MarkInv'
  OBVIOUS
<1>0. Base' /\ AwaitInv'
  BY BaseStep, AwaitStep
<1>1. CASE UNCHANGED vars
  BY <1>1 DEF vars, engineVars, callerVars, brokerVars, MarkInv, MarkOwn, AckSettles,
              MarkSettles, Settled, Busy, Topic, Value
<1>2. CASE \E new \in [Topics -> Values] : EngineStep(new)
  BY <1>2, MarkEngineStep
<1>3. CASE Deliver \/ ConnectionLost \/ Reconnect
  BY <1>3, MarkDeliver, MarkConnection
<1>4. CASE OnConnect \/ \E c \in Callers : StartReplay(c)
  BY <1>0, <1>4, MarkReset DEF OnConnect, StartReplay
<1>5. ASSUME NEW c \in Callers,
             \/ \E r \in Revisions, ents \in SUBSET Entities : StartUpdate(c, r, ents)
             \/ Progress(c) \/ EnterGate(c)
      PROVE  MarkInv'
  <2>1. OthersStay(c) /\ UNCHANGED history
    BY <1>5, StepOthersStay
  <2>2. CASE SendPart(c) \/ SendFails(c) \/ WaitSucceeds(c) \/ WaitFails(c)
    BY <2>2, MarkSendPart, MarkFails, MarkWaitSucceeds
  <2>3. CASE \/ \E r \in Revisions, ents \in SUBSET Entities : StartUpdate(c, r, ents)
             \/ AnnounceOnline(c) \/ TakeSnapshot(c) \/ EndJob(c)
    <3>1. /\ UNCHANGED <<acked, cache, pipe, retained>> /\ UNCHANGED stale
          /\ pc[c] \notin {"publish", "wait"}
          /\ pc'[c] \in {"idle", "snapshot", "next"}
      <4>1. CASE AnnounceOnline(c)
        BY <4>1 DEF AnnounceOnline, ReplayFails, brokerVars, Base, TypeOK
      <4>2. CASE TakeSnapshot(c)
        BY <4>2 DEF TakeSnapshot, ReplayFails, brokerVars, Base, TypeOK
      <4>3. CASE EndJob(c)
        BY <4>3 DEF EndJob, brokerVars, Base, TypeOK
      <4>4. CASE \E r \in Revisions, ents \in SUBSET Entities : StartUpdate(c, r, ents)
        BY <4>4 DEF StartUpdate, brokerVars, Base, TypeOK
      <4> QED
        BY <2>3, <4>1, <4>2, <4>3, <4>4
    <3> QED
      BY <2>1, <3>1, MarkFrame
  <2>4. CASE EnterGate(c)
    <3> PICK e \in Entities : BeginEntity(c, e)
      BY <2>4 DEF EnterGate
    <3>1. /\ UNCHANGED <<acked, cache, pipe, retained>> /\ UNCHANGED stale
          /\ pc[c] = "next" /\ pc'[c] \in {"next", "mark"}
      BY DEF BeginEntity, brokerVars, Base, TypeOK
    <3> QED
      BY <2>1, <3>1, MarkFrame
  <2>5. CASE MarkTopic(c)
    <3>1. /\ pc[c] = "mark"
          /\ UNCHANGED <<acked, pipe, retained>> /\ UNCHANGED stale
      BY <2>5 DEF MarkTopic, brokerVars
    <3>2. CASE PartDone(c) /\ UNCHANGED cache
      <4>1. pc'[c] \in {"mark", "next"}
        BY <3>2 DEF PartDone, LeaveEntity, Base, TypeOK
      <4> QED
        BY <2>1, <3>1, <3>2, <4>1, MarkFrame
    <3>3. CASE /\ cache' = [cache EXCEPT ![Topic(c)] = Value(c)]
               /\ pc' = [pc EXCEPT ![c] = "publish"]
               /\ UNCHANGED <<gate, cur, part>>
      BY <2>5, <3>3, MarkMiss
    <3> QED
      BY <2>5, <3>2, <3>3 DEF MarkTopic
  <2> QED
    BY <1>5, <2>2, <2>3, <2>4, <2>5 DEF Progress
<1> QED
  BY <1>1, <1>2, <1>3, <1>4, <1>5 DEF Next, Environment

LEMMA CacheInit == Init => AwaitInv /\ MarkInv
<1> SUFFICES ASSUME Init PROVE AwaitInv /\ MarkInv
  OBVIOUS
<1>1. AwaitInv
  BY DEF Init, AwaitInv
<1>2. Base /\ \A t \in Topics : cache[t] = None
  BY BaseInit DEF Init, EmptyCache
<1>3. \A c \in Callers : pc[c] = "idle" /\ ~acked[c]
  BY DEF Init
<1>4. MarkInv
  BY <1>2, <1>3 DEF MarkInv, MarkOwn, AckSettles, MarkSettles
<1> QED
  BY <1>1, <1>4

(* A mark on an entity nobody publishes is the truth about the broker.       *)
THEOREM CacheTellsTheTruth == Spec => []CacheHonest
<1>1. Base /\ AwaitInv /\ MarkInv /\ [Next]_vars => AwaitInv' /\ MarkInv'
  BY AwaitStep, MarkStep
<1>2. Base /\ MarkInv => CacheHonest
  <2> SUFFICES ASSUME Base, MarkInv, NEW t \in Topics,
                      gate[t[1]] = None, cache[t] # None, ~stale
               PROVE  Settled(t)
    BY DEF CacheHonest, Settled
  <2>1. \A c \in Callers : ~Busy(c, t)
    BY PublishTypes, PublishedTypes DEF Busy
  <2> QED
    BY <2>1 DEF MarkInv, MarkSettles
<1> QED
  BY <1>1, <1>2, CacheInit, BaseAlways, PTL DEF Spec

-----------------------------------------------------------------------------
(* A clean replay heals                                                     *)

(* Only a caller that publishes an entity holds its gate.                   *)
HeldInv ==
  \A e \in Entities : gate[e] # None => pc[gate[e]] \in Publishing /\ cur[gate[e]] = e

(* The topic shows the newest published revision, and nothing can replace it.*)
Fresh(t) ==
  /\ retained[t] # None
  /\ retained[t].val = history[latest[t[1]]][t]
  /\ \A i \in DOMAIN pipe : pipe[i].topic # t

(* So do the parts of the entity its publisher, if it has one, is done with. *)
Finished(e, p) ==
  \/ gate[e] = None
  \/ p < part[gate[e]]
  \/ p = part[gate[e]] /\ acked[gate[e]]

Covered(e) ==
  \A p \in Parts : Finished(e, p) => Fresh(<<e, p>>)

(* Whatever a clean replay is done with, or was overtaken on since its       *)
(* snapshot, was published after the caches were reset.                      *)
ReplayInv ==
  \A c \in Replayers :
    verdict[c] = "clean" =>
      /\ ~stale
      /\ pc[c] \in {"next"} \cup Publishing =>
           \A e \in Entities : e \notin todo[c] \/ rev[c] < latest[e] => Covered(e)

LEMMA HeldStep == Base /\ HeldInv /\ [Next]_vars => HeldInv'
<1> SUFFICES ASSUME Base, HeldInv, [Next]_vars PROVE HeldInv'
  OBVIOUS
<1>1. /\ pc \in [Callers -> PCs] /\ cur \in [Callers -> Entities \cup {None}]
      /\ gate \in [Entities -> Callers \cup {None}] /\ None \notin Callers
  BY ConstantsAssumption DEF Base, TypeOK
<1>2. ASSUME UNCHANGED <<gate, pc, cur>>
      PROVE  HeldInv'
  BY <1>2 DEF HeldInv
<1>3. ASSUME NEW c \in Callers,
             \/ \E r \in Revisions, ents \in SUBSET Entities : StartUpdate(c, r, ents)
             \/ StartReplay(c) \/ Progress(c) \/ EnterGate(c)
      PROVE  HeldInv'
  <2>1. \A d \in Callers : d # c => pc'[d] = pc[d] /\ cur'[d] = cur[d]
    BY <1>3, StepOthersStay DEF OthersStay
  <2>2. ASSUME UNCHANGED <<gate, cur>>, pc[c] \in Publishing => pc'[c] \in Publishing
        PROVE  HeldInv'
    BY <1>1, <2>1, <2>2 DEF HeldInv
  <2>3. ASSUME LeaveEntity(c), pc[c] \in Publishing
        PROVE  HeldInv'
    <3>1. cur[c] \in Entities /\ gate' = [gate EXCEPT ![cur[c]] = None]
      BY <2>3 DEF LeaveEntity, Base, GateInv
    <3>2. \A e \in Entities : gate'[e] # None => gate[e] = gate'[e] /\ gate[e] # c
      BY <1>1, <3>1 DEF HeldInv
    <3> QED
      BY <1>1, <2>1, <3>2 DEF HeldInv
  <2>4. ASSUME PartDone(c), pc[c] \in Publishing
        PROVE  HeldInv'
    <3>1. CASE LeaveEntity(c)
      BY <2>3, <2>4, <3>1
    <3>2. CASE pc' = [pc EXCEPT ![c] = "mark"] /\ UNCHANGED <<gate, cur>>
      BY <1>1, <2>2, <3>2 DEF Publishing
    <3> QED
      BY <2>4, <3>1, <3>2 DEF PartDone
  <2>5. CASE StartReplay(c) \/ AnnounceOnline(c) \/ TakeSnapshot(c) \/ EndJob(c)
             \/ \E r \in Revisions, ents \in SUBSET Entities : StartUpdate(c, r, ents)
    BY <2>2, <2>5 DEF StartReplay, AnnounceOnline, TakeSnapshot, EndJob, StartUpdate,
                      Publishing, gateVars
  <2>6. CASE EnterGate(c)
    <3> PICK e \in Entities : BeginEntity(c, e)
      BY <2>6 DEF EnterGate
    <3>1. CASE UNCHANGED <<gateVars, pc, cur, part>>
      BY <1>2, <3>1 DEF gateVars
    <3>2. CASE /\ gate' = [gate EXCEPT ![e] = c] /\ cur' = [cur EXCEPT ![c] = e]
               /\ pc' = [pc EXCEPT ![c] = "mark"]
      <4>1. \A d \in Entities : gate[d] # c
        BY <1>1 DEF BeginEntity, HeldInv, Publishing
      <4> QED
        BY <1>1, <2>1, <3>2, <4>1 DEF HeldInv, Publishing
    <3> QED
      BY <3>1, <3>2 DEF BeginEntity
  <2>7. CASE MarkTopic(c)
    <3>1. CASE PartDone(c)
      BY <2>4, <2>7, <3>1 DEF MarkTopic, Publishing
    <3>2. CASE pc' = [pc EXCEPT ![c] = "publish"] /\ UNCHANGED <<gate, cur, part>>
      BY <1>1, <2>2, <3>2 DEF Publishing
    <3> QED
      BY <2>7, <3>1, <3>2 DEF MarkTopic
  <2>8. CASE SendPart(c)
    BY <1>1, <2>2, <2>8 DEF SendPart, Publishing, gateVars
  <2>9. CASE WaitSucceeds(c)
    BY <2>4, <2>9 DEF WaitSucceeds, Publishing
  <2>10. CASE SendFails(c) \/ WaitFails(c)
    BY <2>3, <2>10 DEF SendFails, WaitFails, PartFailed, Publishing
  <2> QED
    BY <1>3, <2>5, <2>6, <2>7, <2>8, <2>9, <2>10 DEF Progress
<1>4. CASE Environment \/ UNCHANGED vars
  BY <1>2, <1>4 DEF Environment, EngineStep, Deliver, ConnectionLost, Reconnect, OnConnect,
                    vars, gateVars, callerVars
<1> QED
  BY <1>3, <1>4 DEF Next

(* What happens to other topics leaves a topic fresh.                       *)
LEMMA FreshFrame ==
  ASSUME NEW t \in Topics, Fresh(t), retained'[t] = retained[t],
         history'[latest[t[1]]] = history[latest[t[1]]], latest'[t[1]] = latest[t[1]],
         \A i \in DOMAIN pipe' : pipe'[i].topic = t => \E j \in DOMAIN pipe : pipe[j].topic = t
  PROVE  Fresh(t)'
BY DEF Fresh

LEMMA CoveredFrame ==
  ASSUME NEW e \in Entities, Covered(e),
         UNCHANGED <<history, retained, pipe>>, latest'[e] = latest[e],
         \A p \in Parts : Finished(e, p)' => Finished(e, p) \/ Fresh(<<e, p>>)
  PROVE  Covered(e)'
<1>1. ASSUME NEW p \in Parts, Fresh(<<e, p>>)
      PROVE  Fresh(<<e, p>>)'
  BY <1>1 DEF Fresh
<1> QED
  BY <1>1 DEF Covered

LEMMA HolderFacts ==
  ASSUME Base, HeldInv, AwaitInv, NEW c \in Callers, pc[c] \in Publishing
  PROVE  /\ cur[c] \in Entities /\ gate[cur[c]] = c /\ c # None
         /\ latest[cur[c]] = rev[c]
         /\ part[c] \in Parts /\ Topic(c) \in Topics
         /\ Topic(c) = <<cur[c], part[c]>>
         /\ \A e \in Entities : e # cur[c] => gate[e] # c
BY ConstantsAssumption DEF Base, TypeOK, GateInv, HeldInv, Topic

(* The part a publisher is done with counts from then on.                   *)
LEMMA PartDoneCovered ==
  ASSUME Base, HeldInv, AwaitInv, NEW c \in Callers, pc[c] \in Publishing,
         PartDone(c), OthersStay(c), Fresh(Topic(c)),
         UNCHANGED <<history, latest, retained, pipe>>,
         \A d \in Callers : acked'[d] => acked[d] /\ d # c,
         NEW e \in Entities, Covered(e)
  PROVE  Covered(e)'
<1> /\ part \in [Callers -> Parts] /\ gate \in [Entities -> Callers \cup {None}]
    /\ NumParts \in Nat
  BY ConstantsAssumption DEF Base, TypeOK
<1>1. CASE e = cur[c]
  <2>1. ASSUME NEW p \in Parts, p <= part[c]
        PROVE  Fresh(<<e, p>>)
    BY <1>1, <2>1, HolderFacts DEF Covered, Finished
  <2>2. CASE LeaveEntity(c) /\ part[c] = NumParts
    BY <1>1, <2>1, <2>2, CoveredFrame
  <2>3. CASE part' = [part EXCEPT ![c] = @ + 1] /\ UNCHANGED <<gate, cur>>
    <3>1. gate'[e] = c /\ part'[c] = part[c] + 1 /\ c # None
      BY <1>1, <2>3, HolderFacts
    <3>2. \A p \in Parts : Finished(e, p)' => p <= part[c]
      BY <3>1 DEF Finished
    <3> QED
      BY <2>1, <3>2, CoveredFrame
  <2> QED
    BY <2>2, <2>3 DEF PartDone
<1>2. CASE e # cur[c]
  <2>1. gate'[e] = gate[e] /\ gate[e] # c
    BY <1>2, HolderFacts DEF PartDone, LeaveEntity
  <2>2. gate[e] # None => part'[gate[e]] = part[gate[e]]
    BY <2>1 DEF OthersStay
  <2>3. \A p \in Parts : Finished(e, p)' => Finished(e, p)
    BY <2>1, <2>2 DEF Finished
  <2> QED
    BY <2>3, CoveredFrame
<1> QED
  BY <1>1, <1>2

(* A publication that begins owes nothing yet.                              *)
LEMMA BeginCovered ==
  ASSUME Base, HeldInv, AwaitInv, NEW c \in Callers, NEW b \in Entities, BeginEntity(c, b),
         NEW e \in Entities, Covered(e) \/ (e = b /\ rev[c] >= latest[b])
  PROVE  Covered(e)'
<1>1. /\ part \in [Callers -> Parts] /\ gate \in [Entities -> Callers \cup {None}]
      /\ latest \in [Entities -> 0..MaxRevision] /\ None \notin Callers
      /\ rev[c] \in Nat /\ latest[b] \in Nat
  BY ConstantsAssumption DEF Base, TypeOK
<1>2. pc[c] = "next" /\ ~acked[c] /\ \A d \in Entities : gate[d] # c
  BY <1>1 DEF BeginEntity, AwaitInv, HeldInv, Publishing
<1>3. UNCHANGED <<history, acked, retained, pipe>>
  BY DEF BeginEntity, engineVars, brokerVars
<1>4. CASE UNCHANGED <<gateVars, part>> /\ rev[c] < latest[b]
  <2>1. Covered(e)
    BY <1>1, <1>4
  <2> QED
    BY <1>3, <1>4, <2>1, CoveredFrame DEF gateVars, Finished
<1>5. CASE /\ latest' = [latest EXCEPT ![b] = rev[c]] /\ gate' = [gate EXCEPT ![b] = c]
           /\ part' = [part EXCEPT ![c] = 1]
  <2>1. CASE e = b
    <3>1. gate'[e] = c /\ part'[c] = 1 /\ ~acked'[c] /\ c # None
      BY <1>1, <1>2, <1>3, <1>5, <2>1
    <3>2. \A p \in Parts : ~Finished(e, p)'
      BY <3>1 DEF Finished
    <3> QED
      BY <3>2 DEF Covered
  <2>2. CASE e # b
    <3>1. gate'[e] = gate[e] /\ gate[e] # c /\ latest'[e] = latest[e]
      BY <1>1, <1>2, <1>5, <2>2
    <3>2. gate[e] # None => part'[gate[e]] = part[gate[e]]
      BY <1>1, <1>5, <3>1
    <3>3. \A p \in Parts : Finished(e, p)' => Finished(e, p)
      BY <1>3, <3>1, <3>2 DEF Finished
    <3> QED
      BY <1>3, <2>2, <3>1, <3>3, CoveredFrame
  <2> QED
    BY <2>1, <2>2
<1> QED
  BY <1>4, <1>5 DEF BeginEntity

LEMMA SendCovered ==
  ASSUME Base, HeldInv, AwaitInv, NEW c \in Callers, SendPart(c),
         NEW e \in Entities, Covered(e)
  PROVE  Covered(e)'
<1> DEFINE m == [topic |-> Topic(c), rev |-> rev[c], val |-> Value(c), by |-> c]
<1>1. /\ pc[c] = "publish" /\ pc[c] \in Publishing /\ ~acked[c]
      /\ pipe' = Append(pipe, m)
      /\ UNCHANGED <<history, latest, gate, part, acked, retained>>
  BY DEF SendPart, Publishing, AwaitInv, engineVars, gateVars
<1>2. \A i \in DOMAIN pipe' : \/ i \in DOMAIN pipe /\ pipe'[i] = pipe[i]
                             \/ pipe'[i].topic = Topic(c)
  <2>1. m \in Message
    BY <1>1, PublishTypes DEF Message, Base, TypeOK
  <2>2. pipe \in Seq(Message) /\ DOMAIN pipe = 1..Len(pipe) /\ Len(pipe) \in Nat
    BY PipeTypes DEF Base, TypeOK
  <2>3. /\ DOMAIN pipe' = 1..(Len(pipe) + 1)
        /\ \A i \in DOMAIN pipe : pipe'[i] = pipe[i]
        /\ pipe'[Len(pipe) + 1] = m
    BY <1>1, <2>1, <2>2, AppendElements
  <2> QED
    BY <2>2, <2>3
<1>3. ASSUME NEW p \in Parts, Finished(e, p)'
      PROVE  Fresh(<<e, p>>)'
  <2>1. Finished(e, p)
    BY <1>1, <1>3 DEF Finished
  <2>2. Fresh(<<e, p>>)
    BY <2>1 DEF Covered
  <2>3. <<e, p>> # Topic(c)
    BY <1>1, <2>1, HolderFacts DEF Finished
  <2> QED
    BY <1>1, <1>2, <2>2, <2>3, FreshFrame
<1> QED
  BY <1>3 DEF Covered

LEMMA DeliverCovered ==
  ASSUME Base, HeldInv, AwaitInv, Deliver, NEW e \in Entities, Covered(e)
  PROVE  Covered(e)'
<1> DEFINE m == Head(pipe)
<1>1. /\ m = pipe[1] /\ 1 \in DOMAIN pipe /\ m.topic \in Topics
      /\ \A i \in DOMAIN pipe' :
           i \in Nat /\ i >= 1 /\ i + 1 \in DOMAIN pipe /\ pipe'[i] = pipe[i + 1]
  BY DeliverPipe, PipeTypes
<1>2. /\ \A t \in Topics : t # m.topic => retained'[t] = retained[t]
      /\ retained'[m.topic] = [rev |-> m.rev, val |-> m.val]
      /\ retained'[m.topic] # None
  <2>1. retained' = [retained EXCEPT ![m.topic] = [rev |-> m.rev, val |-> m.val]]
    BY DEF Deliver
  <2>2. [rev |-> m.rev, val |-> m.val] # None
    BY <1>1, PipeTypes, ConstantsAssumption
  <2> QED
    BY <1>1, <2>1, <2>2 DEF Base, TypeOK
<1>3. UNCHANGED <<history, latest, gate, part>>
  BY DEF Deliver, engineVars, gateVars
<1>4. \A c \in Callers : acked'[c] <=> (acked[c] \/ pipe[1].by = c)
  BY <1>1 DEF Deliver
<1>5. ASSUME NEW t \in Topics, Fresh(t)
      PROVE  Fresh(t)'
  <2>1. t # m.topic
    BY <1>1, <1>5 DEF Fresh
  <2> QED
    BY <1>1, <1>2, <1>3, <1>5, <2>1, FreshFrame
<1>6. ASSUME NEW p \in Parts, Finished(e, p)'
      PROVE  Fresh(<<e, p>>)'
  <2>1. CASE Finished(e, p)
    BY <1>5, <2>1 DEF Covered
  <2>2. CASE ~Finished(e, p)
    <3>1. PICK c \in Callers : c = gate[e] /\ p = part[c] /\ pipe[1].by = c
      BY <1>3, <1>4, <1>6, <2>2 DEF Finished, Base, TypeOK
    <3>2. /\ pc[c] = "wait" /\ m.topic = Topic(c) /\ m.val = Value(c)
          /\ \A j \in DOMAIN pipe : j > 1 => pipe[j].topic # Topic(c)
      BY <1>1, <3>1 DEF AwaitInv
    <3>3. pc[c] \in Publishing
      BY <3>2 DEF Publishing
    <3>4. cur[c] = e /\ Topic(c) = <<e, p>> /\ latest[e] = rev[c]
      BY <3>1, <3>3, HolderFacts
    <3>5. retained'[<<e, p>>] # None /\ retained'[<<e, p>>].val = history[latest[e]][<<e, p>>]
      BY <1>2, <3>2, <3>4 DEF Value
    <3>6. \A i \in DOMAIN pipe' : pipe'[i].topic # <<e, p>>
      BY <1>1, <3>2, <3>4
    <3> QED
      BY <1>3, <3>5, <3>6 DEF Fresh
  <2> QED
    BY <2>1, <2>2
<1> QED
  BY <1>6 DEF Covered

(* Nothing but a failed publication or a lost connection uncovers an entity. *)
LEMMA CoveredKept ==
  ASSUME Base, PipeInv, HeldInv, AwaitInv, MarkInv, [Next]_vars, ~stale,
         ~ConnectionLost, \A c \in Callers : ~SendFails(c) /\ ~WaitFails(c),
         NEW e \in Entities, Covered(e)
  PROVE  Covered(e)'
<1>1. ASSUME UNCHANGED <<history, retained, pipe, latest, gate, part, acked>>
      PROVE  Covered(e)'
  BY <1>1, CoveredFrame DEF Finished
<1>2. ASSUME NEW new \in [Topics -> Values], EngineStep(new)
      PROVE  Covered(e)'
  <2>1. /\ latest[e] <= revision /\ latest[e] \in Nat /\ revision \in Nat
        /\ UNCHANGED <<latest, gate, part, acked, retained, pipe>>
    BY <1>2 DEF EngineStep, gateVars, callerVars, brokerVars, Base, TypeOK, GateInv
  <2>2. ASSUME NEW p \in Parts, Finished(e, p)
        PROVE  Fresh(<<e, p>>)'
    <3>1. Fresh(<<e, p>>)
      BY <2>2 DEF Covered
    <3>2. latest[e] \in Revisions \/ latest[e] = 0
      BY <2>1 DEF Base, TypeOK
    <3>3. latest[e] \in Revisions => history'[latest[e]] = history[latest[e]]
      BY <1>2, <2>1 DEF EngineStep
    <3>4. latest[e] # 0
      <4>1. retained[<<e, p>>] \in Payload /\ retained[<<e, p>>].rev <= latest[e]
        BY <2>1, <3>1 DEF PipeInv, Fresh, Base, TypeOK
      <4> QED
        BY <4>1, ConstantsAssumption DEF Payload
    <3> QED
      BY <2>1, <3>1, <3>2, <3>3, <3>4, FreshFrame
  <2> QED
    BY <2>1, <2>2 DEF Covered, Finished
<1>3. ASSUME NEW c \in Callers, MarkTopic(c)
      PROVE  Covered(e)'
  <2>1. /\ pc[c] \in Publishing /\ pc[c] = "mark" /\ ~acked[c] /\ OthersStay(c)
        /\ UNCHANGED <<history, latest, acked, retained, pipe>> /\ UNCHANGED stale
    BY <1>3, StepOthersStay DEF MarkTopic, Publishing, AwaitInv, engineVars, brokerVars, Progress
  <2>2. CASE cache[Topic(c)] = Value(c) /\ PartDone(c)
    <3>1. Topic(c) \in Topics /\ Value(c) # None /\ latest[cur[c]] = rev[c] /\ Topic(c)[1] = cur[c]
      BY <2>1, HolderFacts, PublishedTypes, ConstantsAssumption
    <3>2. \A d \in Callers : ~Busy(d, Topic(c))
      BY <2>1, HolderFacts DEF Busy, Publishing
    <3>3. Settled(Topic(c))
      BY <2>2, <3>1, <3>2 DEF MarkInv, MarkSettles
    <3>4. Fresh(Topic(c))
      BY <2>2, <3>1, <3>3 DEF Settled, Fresh, Value
    <3> QED
      BY <2>1, <2>2, <3>4, PartDoneCovered
  <2>3. CASE UNCHANGED <<gate, part>>
    BY <1>1, <2>1, <2>3
  <2> QED
    BY <1>3, <2>2, <2>3 DEF MarkTopic
<1>4. ASSUME NEW c \in Callers, WaitSucceeds(c)
      PROVE  Covered(e)'
  <2>1. /\ pc[c] \in Publishing /\ acked[c] /\ PartDone(c) /\ OthersStay(c)
        /\ acked' = [acked EXCEPT ![c] = FALSE]
        /\ UNCHANGED <<history, latest, retained, pipe>>
    BY <1>4, StepOthersStay DEF WaitSucceeds, Publishing, engineVars, brokerVars, Progress
  <2>2. \A d \in Callers : acked'[d] => acked[d] /\ d # c
    BY <2>1 DEF Base, TypeOK
  <2>3. CASE e = cur[c]
    <3>1. Fresh(Topic(c))
      BY <2>1, <2>3, HolderFacts DEF Covered, Finished
    <3> QED
      BY <2>1, <2>2, <3>1, PartDoneCovered
  <2>4. CASE e # cur[c]
    <3>1. gate'[e] = gate[e] /\ gate[e] # c
      <4>1. gate[e] # c
        BY <2>1, <2>4, HolderFacts
      <4>2. gate' = gate \/ gate' = [gate EXCEPT ![cur[c]] = None]
        BY <2>1 DEF PartDone, LeaveEntity
      <4> QED
        BY <2>4, <4>1, <4>2 DEF Base, TypeOK
    <3>2. gate[e] # None => part'[gate[e]] = part[gate[e]]
      BY <2>1, <3>1 DEF OthersStay, Base, TypeOK
    <3>3. \A p \in Parts : Finished(e, p)' => Finished(e, p)
      BY <2>2, <3>1, <3>2 DEF Finished, Base, TypeOK
    <3> QED
      BY <2>1, <3>3, CoveredFrame
  <2> QED
    BY <2>3, <2>4
<1>5. ASSUME NEW c \in Callers, EnterGate(c)
      PROVE  Covered(e)'
  BY <1>5, BeginCovered DEF EnterGate
<1>6. ASSUME NEW c \in Callers,
             \/ \E r \in Revisions, ents \in SUBSET Entities : StartUpdate(c, r, ents)
             \/ StartReplay(c) \/ AnnounceOnline(c) \/ TakeSnapshot(c) \/ EndJob(c)
      PROVE  Covered(e)'
  BY <1>1, <1>6 DEF StartUpdate, StartReplay, AnnounceOnline, TakeSnapshot, EndJob,
                    engineVars, gateVars, brokerVars
<1>7. CASE Reconnect \/ OnConnect \/ UNCHANGED vars
  BY <1>1, <1>7 DEF Reconnect, OnConnect, vars, engineVars, gateVars, callerVars, brokerVars
<1> QED
  BY <1>2, <1>3, <1>4, <1>5, <1>6, <1>7, SendCovered, DeliverCovered
     DEF Next, Environment, Progress

(* A clean verdict is the start of a replay, or survives a step that breaks  *)
(* nothing.                                                                  *)
LEMMA VerdictStep ==
  ASSUME Base, [Next]_vars, NEW c \in Replayers, verdict'[c] = "clean"
  PROVE  \/ StartReplay(c)
         \/ /\ verdict[c] = "clean"
            /\ ~ConnectionLost /\ \A d \in Callers : ~SendFails(d) /\ ~WaitFails(d)
            /\ stale' = stale \/ stale' = FALSE
<1> verdict \in [Callers -> {"clean", "others", "broken"}] /\ c \in Callers
  BY DEF Base, TypeOK
<1>1. ASSUME NEW d \in Callers
      PROVE  Blame(d)[c] # "clean"
  BY DEF Blame
<1>2. ~ConnectionLost
  BY DEF ConnectionLost
<1>3. \A d \in Callers : ~SendFails(d) /\ ~WaitFails(d)
  BY <1>1 DEF SendFails, WaitFails
<1>4. ASSUME NEW d \in Callers, StartReplay(d), d # c
      PROVE  verdict[c] = "clean" /\ stale' = FALSE
  BY <1>4 DEF StartReplay
<1>5. ASSUME verdict' = verdict, stale' = stale \/ stale' = FALSE
      PROVE  verdict[c] = "clean" /\ (stale' = stale \/ stale' = FALSE)
  BY <1>5
<1>6. ASSUME NEW d \in Callers, AnnounceOnline(d) \/ TakeSnapshot(d) \/ EndJob(d)
      PROVE  verdict[c] = "clean" /\ (stale' = stale \/ stale' = FALSE)
  BY <1>6 DEF AnnounceOnline, TakeSnapshot, EndJob, ReplayFails, brokerVars
<1>7. ASSUME NEW d \in Callers,
             \/ \E r \in Revisions, ents \in SUBSET Entities : StartUpdate(d, r, ents)
             \/ EnterGate(d) \/ MarkTopic(d) \/ SendPart(d) \/ WaitSucceeds(d)
      PROVE  verdict[c] = "clean" /\ (stale' = stale \/ stale' = FALSE)
  BY <1>5, <1>7 DEF StartUpdate, EnterGate, BeginEntity, MarkTopic, SendPart, WaitSucceeds,
                    brokerVars
<1>8. ASSUME \/ \E new \in [Topics -> Values] : EngineStep(new)
             \/ Deliver \/ Reconnect \/ OnConnect \/ UNCHANGED vars
      PROVE  verdict[c] = "clean" /\ (stale' = stale \/ stale' = FALSE)
  BY <1>5, <1>8 DEF EngineStep, Deliver, Reconnect, OnConnect, vars, callerVars, brokerVars
<1> QED
  BY <1>2, <1>3, <1>4, <1>6, <1>7, <1>8 DEF Next, Environment, Progress

Replaying == {"next"} \cup Publishing

(* Where a replay stands changes by its own steps only: it begins with every *)
(* entity to do at the newest revision, and then takes one after the other.  *)
LEMMA ReplayMoves ==
  ASSUME Base, [Next]_vars, NEW c \in Replayers, pc'[c] \in Replaying
  PROVE  \/ rev'[c] = revision /\ todo'[c] = Entities /\ UNCHANGED latest
         \/ /\ pc[c] \in Replaying /\ rev'[c] = rev[c]
            /\ \/ UNCHANGED latest /\ todo'[c] = todo[c]
               \/ \E d \in Callers, b \in Entities :
                    /\ BeginEntity(d, b)
                    /\ todo'[c] = IF d = c THEN todo[c] \ {b} ELSE todo[c]
<1> /\ pc \in [Callers -> PCs] /\ rev \in [Callers -> Revisions]
    /\ todo \in [Callers -> SUBSET Entities] /\ c \in Callers /\ c \notin LiveCallers
  BY ConstantsAssumption DEF Base, TypeOK
<1>1. ASSUME NEW d \in Callers, StartReplay(d) \/ AnnounceOnline(d) \/ EndJob(d)
      PROVE  /\ pc[c] \in Replaying /\ rev'[c] = rev[c]
             /\ UNCHANGED latest /\ todo'[c] = todo[c]
  BY <1>1 DEF StartReplay, AnnounceOnline, EndJob, ReplayFails, Replaying, Publishing, gateVars
<1>2. ASSUME NEW d \in Callers, TakeSnapshot(d)
      PROVE  \/ rev'[c] = revision /\ todo'[c] = Entities /\ UNCHANGED latest
             \/ /\ pc[c] \in Replaying /\ rev'[c] = rev[c]
                /\ UNCHANGED latest /\ todo'[c] = todo[c]
  BY <1>2 DEF TakeSnapshot, ReplayFails, Replaying, Publishing, gateVars
<1>3. ASSUME NEW d \in LiveCallers, NEW r \in Revisions, NEW ents \in SUBSET Entities,
             StartUpdate(d, r, ents)
      PROVE  /\ pc[c] \in Replaying /\ rev'[c] = rev[c]
             /\ UNCHANGED latest /\ todo'[c] = todo[c]
  BY <1>3 DEF StartUpdate, gateVars
<1>4. ASSUME NEW d \in Callers, NEW b \in Entities, BeginEntity(d, b)
      PROVE  /\ pc[c] \in Replaying /\ rev'[c] = rev[c]
             /\ todo'[c] = IF d = c THEN todo[c] \ {b} ELSE todo[c]
  BY <1>4 DEF BeginEntity, Replaying, Publishing
<1>5. ASSUME NEW d \in Callers,
             MarkTopic(d) \/ SendPart(d) \/ SendFails(d) \/ WaitSucceeds(d) \/ WaitFails(d)
      PROVE  /\ pc[c] \in Replaying /\ rev'[c] = rev[c]
             /\ UNCHANGED latest /\ todo'[c] = todo[c]
  <2>1. UNCHANGED <<rev, todo, latest>> /\ pc[d] \in Replaying
    BY <1>5 DEF MarkTopic, SendPart, SendFails, WaitSucceeds, WaitFails, Replaying, Publishing,
                gateVars
  <2>2. OthersStay(d)
    BY <1>5, StepOthersStay DEF Progress
  <2> QED
    BY <2>1, <2>2 DEF OthersStay
<1>6. ASSUME Environment \/ UNCHANGED vars
      PROVE  /\ pc[c] \in Replaying /\ rev'[c] = rev[c]
             /\ UNCHANGED latest /\ todo'[c] = todo[c]
  BY <1>6 DEF Environment, EngineStep, Deliver, ConnectionLost, Reconnect, OnConnect, vars,
              gateVars, callerVars
<1> QED
  BY <1>1, <1>2, <1>3, <1>4, <1>5, <1>6 DEF Next, Progress, EnterGate

LEMMA ReplayStep ==
  Base /\ PipeInv /\ HeldInv /\ AwaitInv /\ MarkInv /\ ReplayInv /\ [Next]_vars => ReplayInv'
<1> SUFFICES ASSUME Base, PipeInv, HeldInv, AwaitInv, MarkInv, ReplayInv, [Next]_vars,
                    NEW c \in Replayers, verdict'[c] = "clean"
             PROVE  /\ ~stale'
                    /\ pc'[c] \in Replaying =>
                         \A e \in Entities :
                           e \notin todo'[c] \/ rev'[c] < latest'[e] => Covered(e)'
  BY DEF ReplayInv, Replaying
<1>1. CASE StartReplay(c)
  <2>1. ~stale' /\ pc'[c] = "online"
    BY <1>1 DEF StartReplay, Base, TypeOK
  <2> QED
    BY <2>1 DEF Replaying, Publishing
<1>2. CASE ~StartReplay(c)
  <2>1. /\ verdict[c] = "clean" /\ ~stale /\ ~stale'
        /\ ~ConnectionLost /\ \A d \in Callers : ~SendFails(d) /\ ~WaitFails(d)
    BY <1>2, VerdictStep DEF ReplayInv
  <2> SUFFICES ASSUME pc'[c] \in Replaying, NEW e \in Entities,
                      e \notin todo'[c] \/ rev'[c] < latest'[e]
               PROVE  Covered(e)'
    BY <2>1
  <2>2. Covered(e) => Covered(e)'
    BY <2>1, CoveredKept
  <2>3. pc[c] \in Replaying /\ (e \notin todo[c] \/ rev[c] < latest[e]) => Covered(e)
    BY <2>1 DEF ReplayInv, Replaying
  <2>4. latest[e] \in Nat /\ latest[e] <= revision /\ revision \in Nat
    BY ConstantsAssumption DEF Base, TypeOK, GateInv
  <2>5. CASE rev'[c] = revision /\ todo'[c] = Entities /\ UNCHANGED latest
    BY <2>4, <2>5
  <2>6. CASE pc[c] \in Replaying /\ rev'[c] = rev[c] /\ UNCHANGED latest /\ todo'[c] = todo[c]
    BY <2>2, <2>3, <2>6
  <2>7. ASSUME pc[c] \in Replaying, rev'[c] = rev[c], NEW d \in Callers, NEW b \in Entities,
               BeginEntity(d, b),
               todo'[c] = IF d = c THEN todo[c] \ {b} ELSE todo[c]
        PROVE  Covered(e)'
    <3>1. CASE Covered(e) \/ (e = b /\ rev[d] >= latest[b])
      BY <2>7, <3>1, BeginCovered
    <3>2. CASE ~Covered(e) /\ e # b
      <4>1. latest'[e] = latest[e] /\ (e \in todo'[c] <=> e \in todo[c])
        BY <2>7, <3>2 DEF BeginEntity, Base, TypeOK, gateVars
      <4> QED
        BY <2>3, <2>7, <3>2, <4>1
    <3>3. CASE ~Covered(e) /\ e = b /\ ~(rev[d] >= latest[b])
      <4>1. latest' = latest
        BY <2>7, <3>3 DEF BeginEntity, gateVars
      <4>2. d = c => rev[c] < latest[e]
        BY <2>4, <3>3 DEF Base, TypeOK
      <4> QED
        BY <2>3, <2>7, <3>3, <4>1, <4>2
    <3> QED
      BY <3>1, <3>2, <3>3
  <2> QED
    BY <2>5, <2>6, <2>7, ReplayMoves
<1> QED
  BY <1>1, <1>2

(* A replay that nothing disturbed leaves every topic with the newest        *)
(* published payload.  What it sends is retained when it is acknowledged;    *)
(* what it skips as a duplicate is retained already, since the cache tells   *)
(* the truth; and an entity it is refused for its revision was begun by a    *)
(* newer update after its snapshot, hence after the caches were reset, so    *)
(* the same holds of that update (ReplayRetained, beginStatePublish).        *)
THEOREM CleanReplayHeals == Spec => []ReplayHeals
<1>1. Init => HeldInv /\ ReplayInv
  BY DEF Init, HeldInv, ReplayInv
<1>2. Base /\ ReplayInv => ReplayHeals
  <2> SUFFICES ASSUME Base, ReplayInv, NEW c \in Replayers,
                      pc[c] = "next", todo[c] = {}, verdict[c] = "clean",
                      NEW t \in Topics, gate[t[1]] = None
               PROVE  retained[t] # None /\ retained[t].val = history[latest[t[1]]][t]
    BY DEF ReplayHeals
  <2>1. t[1] \in Entities /\ t[2] \in Parts /\ t = <<t[1], t[2]>>
    OBVIOUS
  <2>2. Covered(t[1])
    BY <2>1 DEF ReplayInv
  <2>3. Fresh(<<t[1], t[2]>>)
    BY <2>1, <2>2 DEF Covered, Finished
  <2> QED
    BY <2>1, <2>3 DEF Fresh
<1>3. Init => PipeInv
  BY PipeInit
<1> QED
  BY <1>1, <1>2, <1>3, CacheInit, AwaitStep, MarkStep, HeldStep, PipeStep, ReplayStep,
     BaseAlways, PTL DEF Spec

-----------------------------------------------------------------------------
(* The locks                                                                *)

(* A replay has the replay lock from its first step to its last, so there is *)
(* never more than one.                                                      *)
LockInv == /\ \A c \in Replayers : pc[c] # "idle" <=> replayLock = c
           /\ \A c \in LiveCallers : pc[c] \notin {"online", "snapshot"}

(* Caller c waits for d: at the replay lock or at the gate of an entity.     *)
Waits(c, d) ==
  \/ c \in Replayers /\ pc[c] = "idle" /\ replayLock = d
  \/ pc[c] = "next" /\ \E e \in todo[c] : gate[e] = d

NoDeadlock == \A S \in SUBSET Callers : S # {} => \E c \in S : \A d \in S : ~Waits(c, d)

LEMMA LockStep == Base /\ LockInv /\ [Next]_vars => LockInv'
<1> SUFFICES ASSUME Base, LockInv, [Next]_vars PROVE LockInv'
  OBVIOUS
<1>1. /\ pc \in [Callers -> PCs] /\ replayLock \in Replayers \cup {None}
      /\ None \notin Callers /\ Callers = LiveCallers \cup Replayers /\ LiveCallers \cap Replayers = {}
  BY ConstantsAssumption DEF Base, TypeOK, Callers
<1>2. CASE UNCHANGED <<replayLock, pc>>
  BY <1>2 DEF LockInv
\* A job goes on.
<1>3. ASSUME NEW c \in Callers, UNCHANGED replayLock, pc[c] # "idle",
             NEW x \in {"next", "mark", "publish", "wait"}, pc' = [pc EXCEPT ![c] = x]
      PROVE  LockInv'
  BY <1>1, <1>3 DEF LockInv
<1>4. ASSUME NEW c \in Callers, UNCHANGED replayLock, pc[c] # "idle",
             LeaveEntity(c) \/ PartDone(c) \/ PartFailed(c)
      PROVE  LockInv'
  <2>1. pc' = [pc EXCEPT ![c] = "next"] \/ pc' = [pc EXCEPT ![c] = "mark"]
    BY <1>4 DEF LeaveEntity, PartDone, PartFailed
  <2> QED
    BY <1>3, <1>4, <2>1
<1>5. ASSUME NEW c \in Replayers, StartReplay(c) PROVE LockInv'
  BY <1>1, <1>5 DEF StartReplay, LockInv
<1>6. ASSUME NEW c \in LiveCallers, NEW r \in Revisions, NEW ents \in SUBSET Entities, StartUpdate(c, r, ents)
      PROVE  LockInv'
  BY <1>1, <1>6 DEF StartUpdate, LockInv
<1>7. ASSUME NEW c \in Callers, Progress(c) PROVE LockInv'
  <2>1. ASSUME pc[c] \in {"online", "snapshot"} PROVE c \in Replayers /\ replayLock = c
    BY <1>1, <2>1 DEF LockInv
  <2>2. ASSUME ReplayFails(c), pc[c] \in {"online", "snapshot"} PROVE LockInv'
    BY <1>1, <2>1, <2>2 DEF ReplayFails, LockInv
  <2>3. CASE AnnounceOnline(c)
    <3>1. CASE pc' = [pc EXCEPT ![c] = "snapshot"] /\ UNCHANGED replayLock
      BY <1>1, <2>1, <2>3, <3>1 DEF AnnounceOnline, LockInv
    <3> QED
      BY <2>2, <2>3, <3>1 DEF AnnounceOnline
  <2>4. CASE TakeSnapshot(c)
    <3>1. CASE pc' = [pc EXCEPT ![c] = "next"] /\ UNCHANGED replayLock
      BY <1>3, <2>4, <3>1 DEF TakeSnapshot
    <3> QED
      BY <2>2, <2>4, <3>1 DEF TakeSnapshot
  <2>5. CASE EndJob(c)
    BY <1>1, <2>5 DEF EndJob, LockInv
  <2>6. CASE MarkTopic(c)
    <3>1. CASE PartDone(c)
      BY <1>4, <2>6, <3>1 DEF MarkTopic
    <3>2. CASE pc' = [pc EXCEPT ![c] = "publish"]
      BY <1>3, <2>6, <3>2 DEF MarkTopic
    <3> QED
      BY <2>6, <3>1, <3>2 DEF MarkTopic
  <2>7. CASE SendPart(c)
    BY <1>3, <2>7 DEF SendPart
  <2>8. CASE SendFails(c) \/ WaitSucceeds(c) \/ WaitFails(c)
    BY <1>4, <2>8 DEF SendFails, WaitSucceeds, WaitFails
  <2> QED
    BY <1>7, <2>3, <2>4, <2>5, <2>6, <2>7, <2>8 DEF Progress
<1>8. ASSUME NEW c \in Callers, EnterGate(c) PROVE LockInv'
  <2>1. PICK e \in Entities : BeginEntity(c, e)
    BY <1>8 DEF EnterGate
  <2>2. pc[c] = "next" /\ UNCHANGED replayLock /\ (UNCHANGED pc \/ pc' = [pc EXCEPT ![c] = "mark"])
    BY <2>1 DEF BeginEntity
  <2> QED
    BY <1>2, <1>3, <2>2
<1>9. CASE Environment \/ UNCHANGED vars
  BY <1>2, <1>9 DEF Environment, EngineStep, Deliver, ConnectionLost, Reconnect, OnConnect, callerVars, vars
<1> QED
  BY <1>5, <1>6, <1>7, <1>8, <1>9 DEF Next

(* Updates and replays never all wait for each other: who has a gate is      *)
(* publishing and waits for no lock, who has the replay lock waits for gates *)
(* only, and a failed publication gives its gate back (ReplayRetained,       *)
(* beginStatePublish and the release it returns).                            *)
THEOREM LocksNeverDeadlock == Spec => []NoDeadlock
<1>1. Init => HeldInv /\ LockInv
  <2>1. None \notin Callers
    BY ConstantsAssumption
  <2> QED
    BY <2>1 DEF Init, HeldInv, LockInv, Callers
<1>2. Base /\ HeldInv /\ LockInv => NoDeadlock
  <2> SUFFICES ASSUME Base, HeldInv, LockInv, NEW S \in SUBSET Callers, S # {},
                      \A c \in S : \E d \in S : Waits(c, d)
               PROVE  FALSE
    BY DEF NoDeadlock
  <2>1. None \notin Callers /\ todo \in [Callers -> SUBSET Entities]
    BY ConstantsAssumption DEF Base, TypeOK
  \* Whoever is waited for at a gate waits for nobody.
  <2>2. ASSUME NEW c \in S, pc[c] = "next" PROVE FALSE
    <3>1. PICK d \in S : Waits(c, d)
      OBVIOUS
    <3>2. pc[d] \in Publishing
      BY <2>1, <2>2, <3>1 DEF Waits, HeldInv
    <3>3. PICK b \in S : Waits(d, b)
      OBVIOUS
    <3> QED
      BY <3>2, <3>3 DEF Waits, Publishing
  <2>3. ASSUME NEW c \in S, c \in Replayers, pc[c] = "idle" PROVE FALSE
    <3>1. PICK d \in S : Waits(c, d)
      OBVIOUS
    <3>2. replayLock = d /\ d \in Replayers /\ pc[d] # "idle"
      BY <2>1, <2>3, <3>1 DEF Waits, LockInv, Base, TypeOK
    <3>3. PICK b \in S : Waits(d, b)
      OBVIOUS
    <3>4. pc[d] = "next"
      BY <3>2, <3>3 DEF Waits
    <3> QED
      BY <2>2, <3>4
  <2> QED
    BY <2>2, <2>3 DEF Waits
<1> QED
  BY <1>1, <1>2, LockStep, HeldStep, BaseAlways, PTL DEF Spec
=============================================================================
