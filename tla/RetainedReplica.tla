--------------------------- MODULE RetainedReplica ---------------------------
(***************************************************************************)
(* What the SIA side of the bridge promises to an MQTT subscriber, without *)
(* any of the machinery that provides it.  The engine has a history: the   *)
(* value of every topic at every revision.  A retained topic shows nothing,*)
(* or the value the engine had for it at some revision, and it only ever   *)
(* moves to the same or to a later revision.  Only a broker that restarts  *)
(* without its retained store takes values away.                           *)
(*                                                                         *)
(* bridge/docs/contracts.md:42-45: "In-process snapshot revisions order    *)
(* SIA publications per account/zone, so a slow replay cannot replace      *)
(* already-published newer telemetry or catalog metadata."                 *)
(***************************************************************************)
EXTENDS Naturals

CONSTANTS Topics, Values, None

VARIABLES revision,   \* the newest revision the engine has reached
          history,    \* history[r][t]: the value of topic t at revision r
          shown,      \* shown[t]: the revision topic t shows, 0 for nothing
          view        \* view[t]: the retained value of topic t, None for nothing

replicaVars == <<revision, history, shown, view>>

ReplicaInit ==
  /\ revision = 1
  /\ shown = [t \in Topics |-> 0]
  /\ view = [t \in Topics |-> None]

(* The engine reaches its next revision; what it was before does not change. *)
Advance ==
  /\ revision' = revision + 1
  /\ \A r \in 1..revision : history'[r] = history[r]
  /\ UNCHANGED <<shown, view>>

(* A topic shows the value of a revision no older than the one it shows.     *)
Show(t, r) ==
  /\ shown[t] <= r
  /\ shown' = [shown EXCEPT ![t] = r]
  /\ view' = [view EXCEPT ![t] = history[r][t]]
  /\ UNCHANGED <<revision, history>>

(* The broker restarts without its retained messages.                        *)
Wipe ==
  /\ shown' = [t \in Topics |-> 0]
  /\ view' = [t \in Topics |-> None]
  /\ UNCHANGED <<revision, history>>

ReplicaNext ==
  \/ Advance
  \/ \E t \in Topics, r \in 1..revision : Show(t, r)
  \/ Wipe

ReplicaSpec == ReplicaInit /\ [][ReplicaNext]_replicaVars
=============================================================================
