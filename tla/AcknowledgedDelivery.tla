------------------------- MODULE AcknowledgedDelivery -------------------------
(***************************************************************************)
(* What the bridge promises to a hub, without connections, frames, faults  *)
(* and goroutines.  Events come one after the other: the next one comes    *)
(* when the one before it is acknowledged, and one that has come may come  *)
(* again at any time.  An event is in the history before its device is in  *)
(* the catalog, then the engine takes it, then receivers upstream get it.  *)
(* It is acknowledged when the engine has taken it and every receiver that *)
(* the answer depends on has it.                                           *)
(*                                                                         *)
(* bridge/docs/sia.md:10-20 lists these steps; sia.md:156 says when the    *)
(* answer depends on receivers.                                            *)
(***************************************************************************)
EXTENDS Naturals, SequencesExt

CONSTANTS Receivers,        \* receivers upstream
          Required,         \* whether the answer depends on them
          LastEvent         \* events are 1 to LastEvent

VARIABLES acknowledged,     \* the newest event that is acknowledged, 0 for none
          recorded,         \* events in the history
          known,            \* events whose device is in the catalog
          taken,            \* events the engine took, in its order
          passed            \* passed[g]: events receiver g got, in its order

deliveryVars == <<acknowledged, recorded, known, taken, passed>>

DeliveryInit ==
  /\ acknowledged = 0
  /\ recorded = {} /\ known = {} /\ taken = <<>>
  /\ passed = [g \in Receivers |-> <<>>]

(* The acknowledged events and the next one: no event comes before its time. *)
Come == {e \in 1..LastEvent : e <= acknowledged + 1}

KeepInHistory(e) ==
  /\ recorded' = recorded \cup {e}
  /\ UNCHANGED <<acknowledged, known, taken, passed>>

MakeKnown(e) ==
  /\ e \in recorded
  /\ known' = known \cup {e}
  /\ UNCHANGED <<acknowledged, recorded, taken, passed>>

Take(e) ==
  /\ e \in known
  /\ taken' = Append(taken, e)
  /\ UNCHANGED <<acknowledged, recorded, known, passed>>

PassOn(g, e) ==
  /\ e \in ToSet(taken)
  /\ passed' = [passed EXCEPT ![g] = Append(@, e)]
  /\ UNCHANGED <<acknowledged, recorded, known, taken>>

(* Each event is acknowledged once, after everything was done with it.       *)
Acknowledge ==
  /\ acknowledged + 1 \in ToSet(taken)
  /\ Required => \A g \in Receivers : acknowledged + 1 \in ToSet(passed[g])
  /\ acknowledged' = acknowledged + 1
  /\ UNCHANGED <<recorded, known, taken, passed>>

DeliveryNext ==
  \/ \E e \in Come : \/ KeepInHistory(e) \/ MakeKnown(e) \/ Take(e)
                     \/ \E g \in Receivers : PassOn(g, e)
  \/ Acknowledge

DeliverySpec == DeliveryInit /\ [][DeliveryNext]_deliveryVars
=============================================================================
