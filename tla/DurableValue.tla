---------------------------- MODULE DurableValue ----------------------------
(***************************************************************************)
(* What the bridge promises of a file it keeps, without goroutines, locks  *)
(* and temporary files.  A value in memory has versions.  A save puts a    *)
(* version on the disk, never one older than what is there.  A start finds *)
(* the version on the disk, unless the bridge stopped in the gap of a save *)
(* in which there is none: then it finds nothing.                          *)
(*                                                                         *)
(* bridge/docs/overview.md:77: the file "Preserves discovered              *)
(* commands/values for republishing after restarts."                       *)
(***************************************************************************)
EXTENDS Naturals

VARIABLES newest,   \* the number of versions so far
          memory,   \* the version in memory, 0 for nothing
          disk,     \* the version of the last save, 0 for none
          gap       \* a save has taken it away and not put another in its place

durableVars == <<newest, memory, disk, gap>>

DurableInit == newest = 0 /\ memory = 0 /\ disk = 0 /\ gap = FALSE

ChangeMemory ==
  /\ newest' = newest + 1
  /\ memory' = newest'
  /\ UNCHANGED <<disk, gap>>

(* A version that is, or was a moment ago, the one in memory.                *)
PutInPlace(v) ==
  /\ disk <= v /\ v <= memory
  /\ disk' = v /\ gap' = FALSE
  /\ UNCHANGED <<newest, memory>>

TakeAway == disk # 0 /\ gap' = TRUE /\ UNCHANGED <<newest, memory, disk>>

Restart ==
  /\ ~gap
  /\ memory' = disk
  /\ UNCHANGED <<newest, disk, gap>>

RestartInGap ==
  /\ gap
  /\ memory' = 0 /\ disk' = 0 /\ gap' = FALSE
  /\ UNCHANGED newest

DurableNext ==
  \/ ChangeMemory \/ TakeAway \/ Restart \/ RestartInGap
  \/ \E v \in 0..newest : PutInPlace(v)

DurableSpec == DurableInit /\ [][DurableNext]_durableVars
=============================================================================
