------------------------------ MODULE SiaIntake ------------------------------
(***************************************************************************)
(* An Ajax hub and the bridge's SIA receiver: connections, each read by a  *)
(* goroutine of its own (internal/sia/server.go), frames and what is wrong *)
(* with them (parser.go), the handler (handleSIAFrame of                   *)
(* internal/app/app.go), the receivers upstream it forwards to             *)
(* (internal/forward/forward.go) and the answers (response.go).            *)
(*                                                                         *)
(* The hub sends one event after the other, each until it is acknowledged. *)
(* When it does not wait long enough it sends the event again while the    *)
(* first frame is still being handled, on the same connection or another.  *)
(***************************************************************************)
EXTENDS Naturals, SequencesExt

CONSTANTS
    Conns,          \* connections
    Targets,        \* AJAXBRIDGE_FORWARD_ADDR
    RequireACK,     \* AJAXBRIDGE_FORWARD_REQUIRE_ACK
    StrictCRC,      \* AJAXBRIDGE_STRICT_CRC
    Damages,        \* what may be wrong with a frame: a set of sets of faults
    MaxEvents,
    MaxTroubles,    \* damaged frames, impatient hubs, idle timeouts and failed receivers
    None

Faults == {"empty", "header", "length", "crc", "decrypt", "account"}
ASSUME DamagesAreFaults == Damages \subseteq SUBSET Faults
ASSUME SomeEvents == MaxEvents \in Nat \ {0}
ASSUME FlagsAreBooleans == RequireACK \in BOOLEAN /\ StrictCRC \in BOOLEAN

VARIABLES
    cur,            \* the event the hub is at
    wait,           \* the connection it waits for an answer on
    link,           \* connections: "none", "open", or "broken" by the hub
    input,          \* frames on a connection the bridge has not read
    answers,        \* answers the hub has not read
    th,             \* the goroutine of a connection
    history,        \* the event store
    catalog,        \* events whose device is in the catalog
    applied,        \* events the state engine took, in its order
    up,             \* events a receiver upstream got, in its order
    troubles        \* how many there were

hub == <<cur, wait>>
net == <<link, input, answers>>
bridge == <<history, catalog, applied>>
vars == <<hub, net, th, bridge, up, troubles>>

Events == 1..MaxEvents
Trouble == troubles < MaxTroubles /\ troubles' = troubles + 1

Frame(e, wrong) == [ev |-> e, wrong |-> wrong]
Unsent == [g \in Targets |-> "none"]
Idle == [pc |-> "closed", frame |-> Frame(1, {}), kind |-> "none", got |-> Unsent]
Goto(c, pc) == th' = [th EXCEPT ![c].pc = pc]

(***************************************************************************)
(* The hub.                                                                *)
(***************************************************************************)
Open(c) ==
    /\ wait = None /\ cur \in Events /\ \A d \in Conns : link[d] # "open"
    /\ th[c].pc = "closed"
    /\ link' = [link EXCEPT ![c] = "open"]
    /\ Goto(c, "read")
    /\ UNCHANGED <<hub, input, answers, bridge, up, troubles>>

\* A frame, whole or damaged on its way.
Send(c) ==
    /\ wait = None /\ cur \in Events /\ link[c] = "open"
    /\ \/ input' = [input EXCEPT ![c] = Append(@, Frame(cur, {}))] /\ UNCHANGED troubles
       \/ \E wrong \in Damages : /\ Trouble
                                 /\ input' = [input EXCEPT ![c] = Append(@, Frame(cur, wrong))]
    /\ wait' = c
    /\ UNCHANGED <<cur, link, answers, th, bridge, up>>

\* An answer names the sequence number of its frame: one of another is ignored.
ReadAnswer(c) ==
    /\ wait = c /\ answers[c] # <<>>
    /\ answers' = [answers EXCEPT ![c] = Tail(@)]
    /\ IF Head(answers[c]).ev # cur THEN UNCHANGED hub
       ELSE /\ wait' = None
            /\ cur' = IF Head(answers[c]).kind = "ACK" THEN cur + 1 ELSE cur
    /\ UNCHANGED <<link, input, th, bridge, up, troubles>>

Silent(c) == input[c] = <<>> /\ answers[c] = <<>> /\ th[c].pc \in {"read", "closed"}

\* The hub sends again: there is no answer, or it has not waited for it.
GivesUp(c) ==
    /\ wait = c
    /\ \/ Silent(c) /\ UNCHANGED troubles
       \/ ~Silent(c) /\ Trouble
    /\ wait' = None
    /\ link' \in {link, [link EXCEPT ![c] = IF @ = "open" THEN "broken" ELSE @]}
    /\ UNCHANGED <<cur, input, answers, th, bridge, up>>

(***************************************************************************)
(* Parse: the first thing that is wrong with a frame.                      *)
(***************************************************************************)
LookedFor == IF StrictCRC THEN Faults ELSE Faults \ {"crc"}
Sound(f) == f.wrong \cap LookedFor = {}

FirstOf(order, wrong) ==
    LET found == {i \in DOMAIN order : order[i] \in wrong}
    IN  IF found = {} THEN "ok" ELSE order[Min(found)]

\* Mutant: a frame with a wrong checksum is taken for good.
ParseWithoutCRC(f) ==
    FirstOf(<<"empty", "header", "length", "decrypt", "account">>, f.wrong \cap LookedFor)

Parse(f) ==
    FirstOf(<<"empty", "header", "length", "crc", "decrypt", "account">>, f.wrong \cap LookedFor)

\* A frame that cannot be trusted at all gets no answer.
Rejection(verdict) ==
    CASE verdict = "crc" -> "none"
      [] verdict \in {"decrypt", "account", "empty"} -> "NAK"
      [] OTHER -> "DUH"

\* Responder.Build: without a header there is no sequence number to answer with.
Reply(kind, f) == [kind |-> kind, ev |-> IF f.wrong \cap {"empty", "header"} = {} THEN f.ev ELSE 0]

(***************************************************************************)
(* The goroutine of a connection.                                          *)
(***************************************************************************)
\* What was read before the connection broke is handled too.
Read(c) ==
    /\ th[c].pc = "read" /\ input[c] # <<>>
    /\ th' = [th EXCEPT ![c] = [Idle EXCEPT !.pc = "record", !.frame = Head(input[c])]]
    /\ input' = [input EXCEPT ![c] = Tail(@)]
    /\ UNCHANGED <<hub, link, answers, bridge, up, troubles>>

Closed(c) ==
    /\ th' = [th EXCEPT ![c] = Idle]
    /\ link' = [link EXCEPT ![c] = "none"]
    /\ answers' = [answers EXCEPT ![c] = <<>>]
    /\ input' = [input EXCEPT ![c] = <<>>]

\* The read deadline passes, or the hub has closed the connection.
Close(c) ==
    /\ th[c].pc = "read" /\ input[c] = <<>>
    /\ \/ link[c] = "broken" /\ UNCHANGED troubles
       \/ link[c] = "open" /\ Trouble
    /\ Closed(c)
    /\ UNCHANGED <<hub, bridge, up>>

\* AppendEvent, for any frame; a rejected one goes no further. (Both this and
\* UpsertFromEvent do nothing once the bridge is being stopped, which ends the
\* model.)
Record(c) ==
    /\ th[c].pc = "record"
    /\ history' = Append(history, th[c].frame)
    /\ LET verdict == Parse(th[c].frame)
       IN  th' = [th EXCEPT ![c].pc = IF verdict = "ok" THEN "discover" ELSE "write",
                            ![c].kind = IF verdict = "ok" THEN "none" ELSE Rejection(verdict)]
    /\ UNCHANGED <<hub, net, catalog, applied, up, troubles>>

\* discoverDevice.
Discover(c) ==
    /\ th[c].pc = "discover"
    /\ catalog' = catalog \cup {th[c].frame.ev}
    /\ Goto(c, "apply")
    /\ UNCHANGED <<hub, net, history, applied, up, troubles>>

\* state.Apply; its snapshot goes to the metrics and the MQTT queue (EventPipeline).
Apply(c) ==
    /\ th[c].pc = "apply"
    /\ applied' = Append(applied, th[c].frame.ev)
    /\ Goto(c, "forward")
    /\ UNCHANGED <<hub, net, history, catalog, up, troubles>>

\* Mutant: a receiver that does not answer is waited for.
ForwardWithoutTimeout(c, g) ==
    /\ th[c].pc = "forward" /\ th[c].got[g] = "none"
    /\ up' = [up EXCEPT ![g] = Append(@, th[c].frame.ev)]
    /\ \/ th' = [th EXCEPT ![c].got[g] = "ack"] /\ UNCHANGED troubles
       \/ Trouble /\ Goto(c, "waiting")
    /\ UNCHANGED <<hub, net, bridge>>

\* Forwarder.Send, to all receivers at once: a receiver may get the frame and
\* answer something else, or not in time, or not get it.
Forward(c, g) ==
    /\ th[c].pc = "forward" /\ th[c].got[g] = "none"
    /\ \/ /\ up' = [up EXCEPT ![g] = Append(@, th[c].frame.ev)]
          /\ th' = [th EXCEPT ![c].got[g] = "ack"]
          /\ UNCHANGED troubles
       \/ /\ Trouble
          /\ up' \in {up, [up EXCEPT ![g] = Append(@, th[c].frame.ev)]}
          /\ th' = [th EXCEPT ![c].got[g] = "failed"]
    /\ UNCHANGED <<hub, net, bridge>>

\* Mutant: one receiver's ACK is enough.
VerdictOfOne(got) == IF RequireACK /\ \A g \in Targets : got[g] # "ack" THEN "NAK" ELSE "ACK"

\* AllACK.
Verdict(got) == IF RequireACK /\ \E g \in Targets : got[g] # "ack" THEN "NAK" ELSE "ACK"

\* Mutant: the hub is answered while receivers are asked.
AnswerBeforeForwarding(c) ==
    /\ th[c].pc = "forward"
    /\ th' = [th EXCEPT ![c].pc = "write", ![c].kind = "ACK"]
    /\ UNCHANGED <<hub, net, bridge, up, troubles>>

\* The answer, when the results of all receivers are there (Group.Send waits).
Answer(c) ==
    /\ th[c].pc = "forward" /\ \A g \in Targets : th[c].got[g] # "none"
    /\ th' = [th EXCEPT ![c].pc = "write", ![c].kind = Verdict(th[c].got)]
    /\ UNCHANGED <<hub, net, bridge, up, troubles>>

\* Mutant: a frame that gets no answer is answered too.
WriteAlways(c) ==
    /\ th[c].pc = "write"
    /\ answers' = [answers EXCEPT ![c] = Append(@, Reply(th[c].kind, th[c].frame))]
    /\ Goto(c, "read")
    /\ UNCHANGED <<hub, link, input, bridge, up, troubles>>

\* A write to a broken connection may fail, and ends the goroutine with what it
\* has not read, or be lost on its way.
Write(c) ==
    /\ th[c].pc = "write"
    /\ \/ /\ th[c].kind = "none" \/ link[c] = "broken"
          /\ Goto(c, "read")
          /\ UNCHANGED net
       \/ /\ th[c].kind # "none" /\ link[c] = "open"
          /\ answers' = [answers EXCEPT ![c] = Append(@, Reply(th[c].kind, th[c].frame))]
          /\ Goto(c, "read")
          /\ UNCHANGED <<link, input>>
       \/ th[c].kind # "none" /\ link[c] = "broken" /\ Closed(c)
    /\ UNCHANGED <<hub, bridge, up, troubles>>

Init ==
    /\ cur = 1 /\ wait = None
    /\ link = [c \in Conns |-> "none"]
    /\ input = [c \in Conns |-> <<>>] /\ answers = [c \in Conns |-> <<>>]
    /\ th = [c \in Conns |-> Idle]
    /\ history = <<>> /\ catalog = {} /\ applied = <<>>
    /\ up = [g \in Targets |-> <<>>]
    /\ troubles = 0

Hub(c) == Open(c) \/ Send(c) \/ ReadAnswer(c) \/ GivesUp(c)
Handler(c) ==
    \/ Read(c) \/ Record(c) \/ Discover(c) \/ Apply(c)
    \/ \E g \in Targets : Forward(c, g)
    \/ Answer(c) \/ Write(c)

Next == \E c \in Conns : Hub(c) \/ Handler(c) \/ Close(c)

Spec == Init /\ [][Next]_vars

\* The hub goes on, goroutines run, and a connection the hub closed is noticed.
FairSpec ==
    /\ Spec
    /\ WF_vars(\E c \in Conns : Hub(c))
    /\ \A c \in Conns : WF_vars(Handler(c)) /\ WF_vars(link[c] = "broken" /\ Close(c))
-----------------------------------------------------------------------------
Kinds == {"ACK", "NAK", "DUH"}
\* The types of the state; nothing but SIA answers is ever written.
TypeOK ==
    /\ cur \in 1..(MaxEvents + 1) /\ wait \in Conns \cup {None}
    /\ link \in [Conns -> {"none", "open", "broken"}]
    /\ \A c \in Conns :
          /\ \A i \in DOMAIN input[c] : input[c][i] \in [ev : Events, wrong : SUBSET Faults]
          /\ \A i \in DOMAIN answers[c] : answers[c][i] \in [kind : Kinds, ev : Events \cup {0}]
          /\ th[c].kind \in Kinds \cup {"none"}
          /\ th[c].got \in [Targets -> {"none", "ack", "failed"}]
    /\ \A i \in DOMAIN history : history[i] \in [ev : Events, wrong : SUBSET Faults]
    /\ catalog \subseteq Events /\ applied \in Seq(Events)
    /\ \A g \in Targets : up[g] \in Seq(Events)

\* An event the hub has been told is received really is: it is in the history,
\* its device in the catalog, the engine has taken it, and when the answer must
\* wait for them every receiver upstream has it (handleSIAFrame).
AckedIsDone ==
    \A e \in 1..(cur - 1) :
        /\ \E i \in DOMAIN history : history[i].ev = e /\ Sound(history[i])
        /\ e \in catalog /\ e \in ToSet(applied)
        /\ RequireACK => \A g \in Targets : e \in ToSet(up[g])

\* Each event reaches the engine for the first time after all earlier ones, and
\* the receivers upstream too when the answer waits for them, however many
\* connections and repeated frames there are.
Ordered(s) == \A i \in DOMAIN s : s[i] > 1 => \E j \in 1..i : s[j] = s[i] - 1
FirstInOrder == Ordered(applied) /\ (RequireACK => \A g \in Targets : Ordered(up[g]))

\* Every event is acknowledged in the end, if frames stop being damaged and
\* receivers stop failing: no error path leaves the hub without an answer or a
\* connection to ask on.
EventsAcked == <>(cur = MaxEvents + 1)

\* Without connections, frames and goroutines this is AcknowledgedDelivery: a
\* frame is one event that comes, again or for the first time, and a step of a
\* handler one thing that is done with it.
KeptEvents == {history[i].ev : i \in {j \in DOMAIN history : Sound(history[j])}}

Delivery == INSTANCE AcknowledgedDelivery WITH
    Receivers <- Targets, Required <- RequireACK, LastEvent <- MaxEvents,
    acknowledged <- cur - 1, recorded <- KeptEvents, known <- catalog,
    taken <- applied, passed <- up
\* The handler does the steps of sia.md:10-20 in their order for every frame,
\* repeated, late or overtaken (handleSIAFrame), and the hub goes on to its next
\* event only after all of them.
DeliverySpec == Delivery!DeliverySpec
=============================================================================
