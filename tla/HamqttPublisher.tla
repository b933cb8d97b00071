--------------------------- MODULE HamqttPublisher ---------------------------
(***************************************************************************)
(* The SIA publisher of the bridge: internal/hamqtt/publisher.go and the   *)
(* two goroutines of internal/app/app.go that call it.                     *)
(*                                                                         *)
(* An entity is an account or a zone.  Publishing it sends NumParts        *)
(* retained messages in a fixed order (discovery configs, state,           *)
(* attributes), each to a topic of its own, and stops at the first error.  *)
(* The model keeps                                                         *)
(*   - the publish gate of every entity and its latest revision,           *)
(*   - the deduplication cache, marked BEFORE a publish and cleared when   *)
(*     the publish fails,                                                  *)
(*   - the MQTT client's outgoing messages, the broker's retained values,  *)
(*     lost connections, a broker that restarts empty, late and missing    *)
(*     acknowledgements,                                                   *)
(*   - retained replays after a reconnect or a Home Assistant birth.       *)
(* Payloads are members of Values: only equality matters to the cache.     *)
(***************************************************************************)
EXTENDS Naturals, Sequences

CONSTANTS
  Entities,     \* accounts and zones: one publish gate each
  NumParts,     \* retained messages per entity, in publication order
  Values,       \* payloads
  LiveCallers,  \* goroutines that publish queued updates
  Replayers,    \* goroutines that replay the whole snapshot
  None,         \* no payload, no holder
  MaxRevision,  \* bound: revisions the engine reaches
  MaxPipe       \* bound: publishes the client holds unacknowledged

Callers  == LiveCallers \cup Replayers
Parts    == 1..NumParts
Topics   == Entities \X Parts
Revisions == 1..MaxRevision

ASSUME ConstantsAssumption ==
  /\ NumParts \in Nat \ {0}
  /\ MaxRevision \in Nat \ {0}
  /\ MaxPipe \in Nat \ {0}
  /\ Entities # {} /\ Values # {}
  /\ LiveCallers \cap Replayers = {}
  /\ None \notin Entities \cup Values \cup Callers
  /\ None \notin [rev : Revisions, val : Values]

VARIABLES
  \* state.Engine, as the publisher sees it
  revision,    \* Engine.revision
  history,     \* ghost: history[r][t], the payload of topic t at revision r
  \* Publisher
  latest,      \* stateGates[e].latestRevision
  gate,        \* the caller that holds stateGates[e].mu, or None
  cache,       \* discovered / publishedStates: the payload marked for a topic
  replayLock,  \* the caller that holds replayMu, or None
  \* the callers
  pc, rev, todo, cur, part,
  acked,       \* the caller's token is done without an error
  verdict,     \* ghost: what went wrong since the caller's replay reset the
               \* caches: nothing ("clean"), only publishes of other callers
               \* ("others"), or its own publishes or the connection ("broken")
  \* the MQTT client and the broker
  connected,   \* client.IsConnectionOpen()
  hookPending, \* an OnConnect callback has yet to reset the caches
  stale,       \* ghost: the broker may have lost values the cache still marks
  pipe,        \* messages sent and not yet processed by the broker, in order
  retained     \* the broker's retained message of a topic, or None

engineVars == <<revision, history>>
gateVars   == <<latest, gate>>
callerVars == <<pc, rev, todo, cur, part, acked, verdict>>
brokerVars == <<connected, hookPending, stale, pipe, retained>>
vars == <<engineVars, gateVars, cache, replayLock, callerVars, brokerVars>>

Payload == [rev : Revisions, val : Values]
Message == [topic : Topics, rev : Revisions, val : Values, by : Callers \cup {None}]
EmptyCache == [t \in Topics |-> None]

(* The message caller c is publishing.                                      *)
Topic(c) == <<cur[c], part[c]>>
Value(c) == history[rev[c]][Topic(c)]

Publishing == {"mark", "publish", "wait"}
PCs == {"idle", "online", "snapshot", "next"} \cup Publishing

TypeOK ==
  /\ revision \in Revisions
  /\ history \in [Revisions -> [Topics -> Values]]
  /\ latest \in [Entities -> 0..MaxRevision]
  /\ gate \in [Entities -> Callers \cup {None}]
  /\ cache \in [Topics -> Values \cup {None}]
  /\ replayLock \in Replayers \cup {None}
  /\ pc \in [Callers -> PCs]
  /\ rev \in [Callers -> Revisions]
  /\ todo \in [Callers -> SUBSET Entities]
  /\ cur \in [Callers -> Entities \cup {None}]
  /\ part \in [Callers -> Parts]
  /\ acked \in [Callers -> BOOLEAN]
  /\ verdict \in [Callers -> {"clean", "others", "broken"}]
  /\ connected \in BOOLEAN
  /\ hookPending \in BOOLEAN
  /\ stale \in BOOLEAN
  /\ pipe \in Seq(Message)
  /\ retained \in [Topics -> Payload \cup {None}]

(* The bridge has loaded its catalog, connected for the first time to a      *)
(* broker that knows nothing of it, and run that connection's callback.      *)
Init ==
  /\ revision = 1
  /\ \E v \in Values : history = [r \in Revisions |-> [t \in Topics |-> v]]
  /\ latest = [e \in Entities |-> 0]
  /\ gate = [e \in Entities |-> None]
  /\ cache = EmptyCache
  /\ replayLock = None
  /\ pc = [c \in Callers |-> "idle"]
  /\ rev = [c \in Callers |-> 1]
  /\ todo = [c \in Callers |-> {}]
  /\ cur = [c \in Callers |-> None]
  /\ part = [c \in Callers |-> 1]
  /\ acked = [c \in Callers |-> FALSE]
  /\ verdict = [c \in Callers |-> "broken"]
  /\ connected = TRUE
  /\ hookPending = FALSE
  /\ stale = FALSE
  /\ pipe = <<>>
  /\ retained = [t \in Topics |-> None]

-----------------------------------------------------------------------------
(* The engine                                                               *)

(* An event, an online refresh or a catalog reload takes the next revision   *)
(* and may change any payload.                                               *)
EngineStep(new) ==
  /\ revision < MaxRevision
  /\ revision' = revision + 1
  /\ history' = [r \in Revisions |-> IF r <= revision THEN history[r] ELSE new]
  /\ UNCHANGED <<gateVars, cache, replayLock, callerVars, brokerVars>>

-----------------------------------------------------------------------------
(* Jobs                                                                     *)

(* The consumer of the update queue takes an update: some entities at the    *)
(* revision of some earlier snapshot.  Producers enqueue outside the         *)
(* engine's lock, so an update can be older than one published before it.    *)
(* Without a connection PublishUpdate returns an error and the update is gone.*)
StartUpdate(c, r, ents) ==
  /\ pc[c] = "idle"
  /\ connected
  /\ r <= revision
  /\ rev' = [rev EXCEPT ![c] = r]
  /\ todo' = [todo EXCEPT ![c] = ents]
  /\ pc' = [pc EXCEPT ![c] = "next"]
  /\ UNCHANGED <<engineVars, gateVars, cache, replayLock, cur, part, acked,
                 verdict, brokerVars>>

(* Mutant: a replay keeps the deduplication caches.                          *)
StartReplayWithoutReset(c) ==
  /\ pc[c] = "idle"
  /\ replayLock = None
  /\ replayLock' = c
  /\ verdict' = [verdict EXCEPT ![c] = "clean"]
  /\ pc' = [pc EXCEPT ![c] = "online"]
  /\ UNCHANGED <<engineVars, gateVars, cache, rev, todo, cur, part, acked,
                 brokerVars>>

(* ReplayRetained takes replayMu and resets the caches.                      *)
StartReplay(c) ==
  /\ pc[c] = "idle"
  /\ replayLock = None
  /\ replayLock' = c
  /\ cache' = EmptyCache
  /\ stale' = FALSE
  /\ verdict' = [verdict EXCEPT ![c] = "clean"]
  /\ pc' = [pc EXCEPT ![c] = "online"]
  /\ UNCHANGED <<engineVars, gateVars, rev, todo, cur, part, acked,
                 connected, hookPending, pipe, retained>>

(* A replay that cannot start leaves the lock.                               *)
ReplayFails(c) ==
  /\ pc' = [pc EXCEPT ![c] = "idle"]
  /\ verdict' = [verdict EXCEPT ![c] = "broken"]
  /\ replayLock' = None

(* It announces availability; if that fails the replay ends with an error.   *)
AnnounceOnline(c) ==
  /\ pc[c] = "online"
  /\ \/ /\ connected
        /\ pc' = [pc EXCEPT ![c] = "snapshot"]
        /\ UNCHANGED <<replayLock, verdict>>
     \/ ReplayFails(c)
  /\ UNCHANGED <<engineVars, gateVars, cache, rev, todo, cur, part, acked,
                 brokerVars>>

(* Only then is the engine's snapshot taken, for every entity.  Without a    *)
(* connection PublishUpdate returns before the first entity.                 *)
TakeSnapshot(c) ==
  /\ pc[c] = "snapshot"
  /\ \/ /\ connected
        /\ rev' = [rev EXCEPT ![c] = revision]
        /\ todo' = [todo EXCEPT ![c] = Entities]
        /\ pc' = [pc EXCEPT ![c] = "next"]
        /\ UNCHANGED <<replayLock, verdict>>
     \/ /\ ~connected
        /\ ReplayFails(c)
        /\ UNCHANGED <<rev, todo>>
  /\ UNCHANGED <<engineVars, gateVars, cache, cur, part, acked, brokerVars>>

EndJob(c) ==
  /\ pc[c] = "next"
  /\ todo[c] = {}
  /\ pc' = [pc EXCEPT ![c] = "idle"]
  /\ rev' = [rev EXCEPT ![c] = 1]
  /\ verdict' = [verdict EXCEPT ![c] = "broken"]
  /\ replayLock' = IF replayLock = c THEN None ELSE replayLock
  /\ UNCHANGED <<engineVars, gateVars, cache, todo, cur, part, acked,
                 brokerVars>>

-----------------------------------------------------------------------------
(* One entity: publishAccount / publishZone under the entity's gate         *)

(* Mutant: the gate excludes other callers but does not compare revisions.   *)
BeginEntityAnyRevision(c, e) ==
  /\ pc[c] = "next"
  /\ e \in todo[c]
  /\ gate[e] = None
  /\ todo' = [todo EXCEPT ![c] = @ \ {e}]
  /\ latest' = [latest EXCEPT ![e] = rev[c]]
  /\ gate' = [gate EXCEPT ![e] = c]
  /\ cur' = [cur EXCEPT ![c] = e]
  /\ part' = [part EXCEPT ![c] = 1]
  /\ pc' = [pc EXCEPT ![c] = "mark"]
  /\ UNCHANGED <<engineVars, cache, replayLock, rev, acked, verdict, brokerVars>>

(* beginStatePublish once the gate's mutex is free: an older revision is     *)
(* refused, any other becomes the latest before anything is sent.            *)
BeginEntity(c, e) ==
  /\ pc[c] = "next"
  /\ e \in todo[c]
  /\ gate[e] = None
  /\ todo' = [todo EXCEPT ![c] = @ \ {e}]
  /\ \/ /\ rev[c] < latest[e]
        /\ UNCHANGED <<gateVars, pc, cur, part>>
     \/ /\ rev[c] >= latest[e]
        /\ latest' = [latest EXCEPT ![e] = rev[c]]
        /\ gate' = [gate EXCEPT ![e] = c]
        /\ cur' = [cur EXCEPT ![c] = e]
        /\ part' = [part EXCEPT ![c] = 1]
        /\ pc' = [pc EXCEPT ![c] = "mark"]
  /\ UNCHANGED <<engineVars, cache, replayLock, rev, acked, verdict, brokerVars>>

(* The caller leaves its entity: the deferred release of the gate.           *)
LeaveEntity(c) ==
  /\ gate' = [gate EXCEPT ![cur[c]] = None]
  /\ cur' = [cur EXCEPT ![c] = None]
  /\ part' = [part EXCEPT ![c] = 1]
  /\ pc' = [pc EXCEPT ![c] = "next"]

(* Mutant: one part too many.                                                *)
PartDoneOffByOne(c) ==
  \/ /\ part[c] <= NumParts
     /\ part' = [part EXCEPT ![c] = @ + 1]
     /\ pc' = [pc EXCEPT ![c] = "mark"]
     /\ UNCHANGED <<gate, cur>>
  \/ /\ part[c] > NumParts
     /\ LeaveEntity(c)

(* The part is on the broker, as far as the publisher knows: go on with the  *)
(* next one, or leave after the last.                                        *)
PartDone(c) ==
  \/ /\ part[c] < NumParts
     /\ part' = [part EXCEPT ![c] = @ + 1]
     /\ pc' = [pc EXCEPT ![c] = "mark"]
     /\ UNCHANGED <<gate, cur>>
  \/ /\ part[c] = NumParts
     /\ LeaveEntity(c)

(* Mutant: a failed publish leaves its mark in the cache.                    *)
PartFailedKeepsMark(c) ==
  /\ LeaveEntity(c)
  /\ UNCHANGED cache

(* Mutant: an error returns without releasing the gate.                      *)
PartFailedKeepsGate(c) ==
  /\ cache' = [cache EXCEPT ![Topic(c)] = None]
  /\ cur' = [cur EXCEPT ![c] = None]
  /\ part' = [part EXCEPT ![c] = 1]
  /\ pc' = [pc EXCEPT ![c] = "next"]
  /\ UNCHANGED gate

(* The part failed: its mark is removed and the rest of the entity is        *)
(* skipped.  The caller goes on with its other entities.                     *)
PartFailed(c) ==
  /\ cache' = [cache EXCEPT ![Topic(c)] = None]
  /\ LeaveEntity(c)

(* shouldPublishState / markDiscoveredPending: one look at the cache under   *)
(* Publisher.mu.                                                             *)
MarkTopic(c) ==
  /\ pc[c] = "mark"
  /\ \/ /\ cache[Topic(c)] = Value(c)
        /\ PartDone(c)
        /\ UNCHANGED cache
     \/ /\ cache[Topic(c)] # Value(c)
        /\ cache' = [cache EXCEPT ![Topic(c)] = Value(c)]
        /\ pc' = [pc EXCEPT ![c] = "publish"]
        /\ UNCHANGED <<gate, cur, part>>
  /\ UNCHANGED <<engineVars, latest, replayLock, rev, todo, acked, verdict,
                 brokerVars>>

(* publish hands the message to a connected client.                          *)
SendPart(c) ==
  /\ pc[c] = "publish"
  /\ connected
  /\ Len(pipe) < MaxPipe
  /\ pipe' = Append(pipe, [topic |-> Topic(c), rev |-> rev[c], val |-> Value(c), by |-> c])
  /\ pc' = [pc EXCEPT ![c] = "wait"]
  /\ UNCHANGED <<engineVars, gateVars, cache, replayLock, rev, todo, cur, part,
                 acked, verdict, connected, hookPending, stale, retained>>

(* What a failure of caller c leaves of the replays' verdicts.               *)
Blame(c) ==
  [d \in Callers |-> IF d = c THEN "broken"
                     ELSE IF verdict[d] = "clean" THEN "others" ELSE verdict[d]]

(* publish fails at once: no connection, or the client takes no more (then   *)
(* the connection counts as broken).                                         *)
SendFails(c) ==
  /\ pc[c] = "publish"
  /\ \/ /\ ~connected
        /\ verdict' = Blame(c)
     \/ /\ Len(pipe) = MaxPipe
        /\ verdict' = [d \in Callers |-> "broken"]
  /\ PartFailed(c)
  /\ UNCHANGED <<engineVars, latest, replayLock, rev, todo, acked, brokerVars>>

(* wait returns the token's success.                                         *)
WaitSucceeds(c) ==
  /\ pc[c] = "wait"
  /\ acked[c]
  /\ acked' = [acked EXCEPT ![c] = FALSE]
  /\ PartDone(c)
  /\ UNCHANGED <<engineVars, latest, cache, replayLock, rev, todo, verdict,
                 brokerVars>>

(* Nobody waits any longer for the messages of caller c; they may still      *)
(* reach the broker.                                                         *)
Abandon(c) ==
  [i \in DOMAIN pipe |-> IF pipe[i].by = c THEN [pipe[i] EXCEPT !.by = None] ELSE pipe[i]]

(* wait returns an error: the timeout fired (even if the acknowledgement     *)
(* came in the same instant) or the client failed the token.                 *)
WaitFails(c) ==
  /\ pc[c] = "wait"
  /\ PartFailed(c)
  /\ verdict' = Blame(c)
  /\ acked' = [acked EXCEPT ![c] = FALSE]
  /\ pipe' = Abandon(c)
  /\ UNCHANGED <<engineVars, latest, replayLock, rev, todo, connected,
                 hookPending, stale, retained>>

-----------------------------------------------------------------------------
(* The MQTT client and the broker (external)                                *)

(* The broker processes the oldest message and acknowledges it.              *)
Deliver ==
  /\ connected
  /\ pipe # <<>>
  /\ LET m == Head(pipe)
     IN /\ retained' = [retained EXCEPT ![m.topic] = [rev |-> m.rev, val |-> m.val]]
        /\ acked' = [c \in Callers |-> acked[c] \/ m.by = c]
  /\ pipe' = Tail(pipe)
  /\ UNCHANGED <<engineVars, gateVars, cache, replayLock, pc, rev, todo, cur,
                 part, verdict, connected, hookPending, stale>>

(* The connection breaks.  Unprocessed messages are lost, or kept by the     *)
(* client and sent again, in order, before anything newer.  The broker may   *)
(* have restarted without its retained messages.                             *)
ConnectionLost ==
  /\ connected
  /\ connected' = FALSE
  /\ pipe' \in {pipe, <<>>}
  /\ \/ UNCHANGED <<retained, stale>>
     \/ /\ retained' = [t \in Topics |-> None]
        /\ stale' = TRUE
  /\ verdict' = [c \in Callers |-> "broken"]
  /\ UNCHANGED <<engineVars, gateVars, cache, replayLock, pc, rev, todo, cur,
                 part, acked, hookPending>>

(* The client reconnects by itself; OnConnect then runs in a goroutine.      *)
Reconnect ==
  /\ ~connected
  /\ connected' = TRUE
  /\ hookPending' = TRUE
  /\ UNCHANGED <<engineVars, gateVars, cache, replayLock, callerVars, stale,
                 pipe, retained>>

(* OnConnect resets the caches.  Its handlers ask for a replay, which        *)
(* StartReplay may begin at any time.                                        *)
OnConnect ==
  /\ hookPending
  /\ hookPending' = FALSE
  /\ cache' = EmptyCache
  /\ stale' = FALSE
  /\ UNCHANGED <<engineVars, gateVars, replayLock, callerVars, connected, pipe,
                 retained>>

-----------------------------------------------------------------------------
(* The specification                                                        *)

(* What caller c does once it has a job, short of taking a gate.             *)
Progress(c) ==
  \/ AnnounceOnline(c) \/ TakeSnapshot(c) \/ EndJob(c)
  \/ MarkTopic(c) \/ SendPart(c) \/ SendFails(c)
  \/ WaitSucceeds(c) \/ WaitFails(c)

EnterGate(c) == \E e \in Entities : BeginEntity(c, e)

Environment ==
  \/ \E new \in [Topics -> Values] : EngineStep(new)
  \/ Deliver \/ ConnectionLost \/ Reconnect \/ OnConnect

Next ==
  \/ Environment
  \/ \E c \in LiveCallers, r \in Revisions, ents \in SUBSET Entities :
       StartUpdate(c, r, ents)
  \/ \E c \in Replayers : StartReplay(c)
  \/ \E c \in Callers : Progress(c) \/ EnterGate(c)

Spec == Init /\ [][Next]_vars

(* A goroutine that can run does run, the timer of a wait fires, and Go's    *)
(* mutexes do not starve a waiter.  Nothing is asked of the network.         *)
Fairness ==
  /\ \A c \in Callers : WF_vars(Progress(c))
  /\ \A c \in Callers : SF_vars(EnterGate(c))

FairSpec == Spec /\ Fairness

-----------------------------------------------------------------------------
(* Properties                                                               *)

(* What a topic shows never goes back to an older revision, whatever the     *)
(* interleaving of queued updates and replays, lost acknowledgements,        *)
(* timeouts and reconnects: only a broker that lost its store shows nothing. *)
RetainedForward ==
  [][\A t \in Topics :
       retained[t] # None /\ retained'[t] # None
         => retained[t].rev <= retained'[t].rev]_vars

(* A mark in the deduplication cache suppresses every later publish of the   *)
(* same payload, so it must tell the truth: when nobody is publishing the    *)
(* entity, the broker retains exactly the marked payload and nothing still   *)
(* on its way can replace it.  Only between a broker restart and the cache   *)
(* reset of the next connection may a mark be wrong.                         *)
CacheHonest ==
  \A t \in Topics :
    gate[t[1]] = None /\ cache[t] # None /\ ~stale
      => /\ retained[t] # None
         /\ retained[t].val = cache[t]
         /\ \A i \in DOMAIN pipe : pipe[i].topic # t

(* A replay during which no publish failed and the connection held leaves    *)
(* every topic showing the newest revision any caller has published for its  *)
(* entity, although payloads were skipped as duplicates and updates of other *)
(* revisions ran in between (an entity whose gate is held is still moving).  *)
ReplayHeals ==
  \A c \in Replayers :
    pc[c] = "next" /\ todo[c] = {} /\ verdict[c] = "clean"
      => \A t \in Topics :
           gate[t[1]] = None
             => retained[t] # None /\ retained[t].val = history[latest[t[1]]][t]

(* Every update and every replay ends: a timeout, an error or a broken       *)
(* connection never leaves a gate or the replay lock held.                   *)
JobsEnd == \A c \in Callers : pc[c] # "idle" ~> pc[c] = "idle"

(* The abstract specification this module implements.                        *)
Replica == INSTANCE RetainedReplica WITH
  shown <- [t \in Topics |-> IF retained[t] = None THEN 0 ELSE retained[t].rev],
  view  <- [t \in Topics |-> IF retained[t] = None THEN None ELSE retained[t].val]

ReplicaSpec == Replica!ReplicaSpec
=============================================================================
