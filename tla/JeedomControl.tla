--------------------------- MODULE JeedomControl ---------------------------
(***************************************************************************)
(* One switch of Jeedom under control: requests over HTTP and from Home    *)
(* Assistant (internal/jeedom/control.go), commands of other MQTT clients  *)
(* and the bridge's own, which it reads back on jeedom/cmd/set/#           *)
(* (internal/jeedom/service.go), readings of the switch, and what the      *)
(* store makes of all that: the state it shows, the control audit, the     *)
(* cache (internal/jeedom/store.go); and the rule that alerts on controls  *)
(* (internal/notifications/manager.go).                                    *)
(*                                                                         *)
(* A switch may have an info command for its state, to which its actions   *)
(* are linked or not; one that has none (an action-only WallSwitch) is     *)
(* shown as it was last commanded, or as its event codes and load tell.    *)
(* Between its steps a goroutine holds no lock.                            *)
(***************************************************************************)
EXTENDS Naturals, FiniteSets, SequencesExt

CONSTANTS
    Callers,      \* goroutines of control requests
    Handlers,     \* goroutines of messages on the set topic
    Kinds,        \* subset of {"action_only", "unlinked", "linked"}
    Readings,     \* what Jeedom may report: pairs of a source and a value
    MaxRequests, MaxOthers, MaxReadings, MaxPasses, MaxFailures, MaxCrashes

ASSUME KindsKnown == Kinds \subseteq {"action_only", "unlinked", "linked"}

\* No goroutine does both; a reading has one of the sources.
ASSUME GoroutinesDiffer == Callers \cap Handlers = {}
ASSUME ReadingsKnown == \A r \in Readings : r[1] \in {"state", "code", "load"}

VARIABLES
    kind,         \* the switch: whether a state command exists
    relay,        \* the switch itself
    obs,          \* RawCommands: the last value of each source, and when
    shown,        \* Values["state"]
    clock,        \* the order of observations
    saved,        \* the cache file
    unsaved,      \* the last attempt to write it failed
    audits,       \* the control audit
    recent,       \* how many of its last entries are of the last two seconds
    bus,          \* messages on the set topic the bridge has not seen
    th,           \* the goroutines
    cooling,      \* lastSent of the rule is within its cooldown
    alerted,      \* it has sent an alert since the start
    evidence,     \* every state a command or a reading ever stood for
    newest,       \* the last of them the store took
    kept,         \* the same when the cache file was last written
    heard,        \* commands that reached the broker since the start
    noticed,      \* commands the rules were evaluated for since the start
    spent         \* how often each bounded thing has happened

cache == <<saved, unsaved, kept>>
store == <<obs, shown, clock, cache>>
audit == <<audits, recent>>
rule == <<cooling, alerted, noticed>>
vars == <<kind, relay, store, audit, bus, th, rule, evidence, newest, heard, spent>>

Threads == Callers \cup Handlers
Sources == {"state", "code", "load"}
Toggles == {"on", "off"}
Acts == Toggles \cup {"mute"}
Limit == [requests |-> MaxRequests, others |-> MaxOthers, readings |-> MaxReadings,
          passes |-> MaxPasses, failures |-> MaxFailures, crashes |-> MaxCrashes]
Spend(what) == spent[what] < Limit[what] /\ spent' = [spent EXCEPT ![what] = @ + 1]

Idle == [pc |-> "idle", act |-> "none", ok |-> FALSE]
Goto(t, pc) == th' = [th EXCEPT ![t].pc = pc]

(***************************************************************************)
(* What the readings say.                                                  *)
(***************************************************************************)
\* A load proves that the switch is on, none proves nothing; other event codes
\* are about something else.
Says(source, value) ==
    CASE source = "load" -> IF value = "positive" THEN "on" ELSE "none"
      [] OTHER -> IF value \in Toggles THEN value ELSE "none"

\* rebuildDerivedValuesForMetricChange: the latest source that says something.
Rebuilt(o) ==
    LET telling == {s \in Sources : Says(s, o[s].value) # "none"}
        latest == CHOOSE s \in telling : \A r \in telling : o[r].at <= o[s].at
    IN  IF telling = {} THEN "none" ELSE Says(latest, o[latest].value)

\* hasObservedAuthoritativeToggleFeedback.
Observed(o) == o["state"].value # "none"

\* A control's state is preserved: hasActionOnlyToggleControl without feedback.
KeepsControl(o, current) == kind # "linked" /\ ~Observed(o) /\ current # "none"

\* rebuildAllMetricValuesPreservingOptimisticState.
RebuiltKeepingControl(o, current) == IF KeepsControl(o, current) THEN current ELSE Rebuilt(o)

\* Mutant: a start builds the state from the readings again.
LoadedAnew(o, current) == Rebuilt(o)

\* reconcilePersistedMappings: what a start makes of the cache file.
Loaded(o, current) == IF KeepsControl(o, current) THEN current ELSE Rebuilt(o)

\* Save of the store as it is now. A cancelled context or a file error stops it;
\* the callers only log that, and the file stays behind the store.
Saves ==
    LET now == [obs |-> obs', shown |-> shown'] IN
    \/ saved' = now /\ kept' = newest' /\ unsaved' = FALSE
    \/ saved # now /\ unsaved' = TRUE /\ UNCHANGED <<saved, kept>>

\* Apply of a reading, which is then saved.
Reading(source, value) ==
    LET o == [obs EXCEPT ![source] = [value |-> value, at |-> clock + 1]]
    IN  /\ Spend("readings")
        /\ source = "state" => kind # "action_only"
        /\ Says(source, value) \in {"none", relay}
        /\ clock' = clock + 1
        /\ obs' = o /\ shown' = Rebuilt(o)
        /\ evidence' = evidence \cup ({Says(source, value)} \ {"none"})
        /\ newest' = IF Says(source, value) # "none" THEN Says(source, value) ELSE newest
        /\ Saves
        /\ UNCHANGED <<kind, relay, audit, bus, th, rule, heard>>

\* ApplyDiscovery, ReconcileResolver: the values are built again.
Rebuild ==
    /\ shown' = RebuiltKeepingControl(obs, shown)
    /\ UNCHANGED <<kind, relay, obs, clock, audit, bus, th, rule, evidence, newest, heard, spent>>
    /\ Saves

\* Somebody turns the switch by hand.
Press ==
    /\ Spend("others")
    /\ relay' = IF relay = "on" THEN "off" ELSE "on"
    /\ UNCHANGED <<kind, store, audit, bus, th, rule, evidence, newest, heard>>

(***************************************************************************)
(* Control requests.                                                       *)
(***************************************************************************)
\* Execute: an action that is not allowed is recorded and refused.
Execute(t, act) ==
    /\ th[t].pc = "idle" /\ Spend("requests")
    /\ th' = [th EXCEPT ![t] = [pc |-> IF act \in Toggles THEN "publish" ELSE "record",
                                act |-> act, ok |-> FALSE]]
    /\ UNCHANGED <<kind, relay, store, audit, bus, rule, evidence, newest, heard>>

Reaches(act) ==
    /\ relay' = act
    /\ bus' = Append(bus, act)
    /\ evidence' = evidence \cup {act} /\ heard' = heard \cup {act}

\* The broker takes the command: Jeedom executes it, the bridge will read it back.
CommandReaches(t) ==
    /\ th[t].pc = "publish"
    /\ Reaches(th[t].act)
    /\ Goto(t, "wait")
    /\ UNCHANGED <<kind, store, audit, rule, newest, spent>>

Acknowledged(t) ==
    /\ th[t].pc = "wait"
    /\ th' = [th EXCEPT ![t] = [pc |-> "record", act |-> @.act, ok |-> TRUE]]
    /\ UNCHANGED <<kind, relay, store, audit, bus, rule, evidence, newest, heard, spent>>

\* PublishCommandMessage times out, or fails, before or after the broker has it.
PublishFails(t) ==
    /\ th[t].pc \in {"publish", "wait"} /\ Spend("failures")
    /\ Goto(t, "record")
    /\ UNCHANGED <<kind, relay, store, audit, bus, rule, evidence, newest, heard>>

\* After the audit a successful request is taken for the state, a failed one is
\* not; on the set topic the state was recorded before.
\* Mutant: a failed request is taken for the state too.
AfterRecordIgnoringErrors(t) == IF t \in Handlers THEN "notify" ELSE "optimistic"
AfterRecord(t) == IF t \in Handlers \/ ~th[t].ok THEN "notify" ELSE "optimistic"

\* RecordControl.
Record(t) ==
    /\ th[t].pc = "record"
    /\ audits' = Append(audits, [act |-> th[t].act, bridge |-> t \in Callers, ok |-> th[t].ok])
    /\ recent' = recent + 1
    /\ Goto(t, AfterRecord(t))
    /\ UNCHANGED <<kind, relay, store, bus, rule, evidence, newest, heard, spent>>

\* Mutant: a control overrides what the switch reports.
TakesControlAlways == TRUE

\* RecordOptimisticControlState: not for a switch that reports its state.
TakesControl == kind # "linked" /\ ~Observed(obs)

AfterSave(t) == IF t \in Callers THEN "notify" ELSE "record"

Optimistic(t) ==
    /\ th[t].pc = "optimistic"
    /\ IF TakesControl
       THEN /\ shown' = th[t].act /\ newest' = th[t].act
            /\ Goto(t, "save")
       ELSE Goto(t, AfterSave(t)) /\ UNCHANGED <<shown, newest>>
    /\ UNCHANGED <<kind, relay, obs, clock, cache, audit, bus, rule, evidence, heard, spent>>

\* Mutant: the state a control has set is not saved.
SaveNothing(t) ==
    /\ th[t].pc = "save"
    /\ Goto(t, AfterSave(t))
    /\ UNCHANGED <<kind, relay, store, audit, bus, rule, evidence, newest, heard, spent>>

SaveControl(t) ==
    /\ th[t].pc = "save"
    /\ Goto(t, AfterSave(t))
    /\ UNCHANGED <<kind, relay, obs, shown, clock, audit, bus, rule, evidence, newest, heard, spent>>
    /\ Saves

(***************************************************************************)
(* The set topic.                                                          *)
(***************************************************************************)
OtherCommand(act) ==
    /\ Spend("others")
    /\ Reaches(act)
    /\ UNCHANGED <<kind, store, audit, th, rule, newest>>

\* Every message is handled in a goroutine of its own.
Hear(t) ==
    /\ th[t].pc = "idle" /\ bus # <<>>
    /\ th' = [th EXCEPT ![t] = [pc |-> "check", act |-> Head(bus), ok |-> TRUE]]
    /\ bus' = Tail(bus)
    /\ UNCHANGED <<kind, relay, store, audit, rule, evidence, newest, heard, spent>>

\* Mutant: any recent control makes a command an echo.
RecentControlOfAny(act) ==
    \E i \in DOMAIN audits : i > Len(audits) - recent /\ audits[i].bridge

\* HasRecentBridgeControl: whatever came of the request.
HasRecentBridgeControl(act) ==
    \E i \in DOMAIN audits : /\ i > Len(audits) - recent
                             /\ audits[i].bridge /\ audits[i].act = act

\* handleSetTopic ignores what the bridge has recorded itself.
Check(t) ==
    /\ th[t].pc = "check"
    /\ th' = [th EXCEPT ![t] = IF HasRecentBridgeControl(@.act) THEN Idle
                               ELSE [th[t] EXCEPT !.pc = "optimistic"]]
    /\ UNCHANGED <<kind, relay, store, audit, bus, rule, evidence, newest, heard, spent>>

(***************************************************************************)
(* The rule: a control, at most once per cooldown.                         *)
(***************************************************************************)
\* evaluate, with cooldownReady; a failed control is another kind of event.
Evaluate(t) ==
    /\ th[t].pc = "notify"
    /\ noticed' = IF th[t].ok THEN noticed \cup {th[t].act} ELSE noticed
    /\ th' = [th EXCEPT ![t] = IF th[t].ok /\ ~cooling THEN [th[t] EXCEPT !.pc = "deliver"] ELSE Idle]
    /\ UNCHANGED <<kind, relay, store, audit, bus, cooling, alerted, evidence, newest, heard, spent>>

Deliver(t) ==
    /\ th[t].pc = "deliver"
    /\ alerted' = TRUE
    /\ Goto(t, "mark")
    /\ UNCHANGED <<kind, relay, store, audit, bus, cooling, noticed, evidence, newest, heard, spent>>

MarkSent(t) ==
    /\ th[t].pc = "mark"
    /\ cooling' = TRUE
    /\ th' = [th EXCEPT ![t] = Idle]
    /\ UNCHANGED <<kind, relay, store, audit, bus, alerted, noticed, evidence, newest, heard, spent>>

\* Two seconds pass, or the cooldown does, when that makes a difference.
TimePasses ==
    /\ recent > 0 \/ cooling
    /\ Spend("passes")
    /\ recent' = 0
    /\ cooling' \in {cooling, FALSE}
    /\ UNCHANGED <<kind, relay, store, audits, bus, th, alerted, noticed, evidence, newest, heard>>

(***************************************************************************)
(* The bridge stops and starts with the cache.                             *)
(***************************************************************************)
Crash ==
    /\ Spend("crashes")
    /\ obs' = saved.obs /\ shown' = Loaded(saved.obs, saved.shown)
    /\ unsaved' = FALSE /\ newest' = kept
    /\ audits' = <<>> /\ recent' = 0 /\ bus' = <<>>
    /\ th' = [t \in Threads |-> Idle]
    /\ cooling' = FALSE /\ alerted' = FALSE /\ noticed' = {} /\ heard' = {}
    /\ UNCHANGED <<kind, relay, clock, saved, kept, evidence>>

Init ==
    /\ kind \in Kinds /\ relay = "off"
    /\ obs = [s \in Sources |-> [value |-> "none", at |-> 0]]
    /\ shown = "none" /\ clock = 0 /\ saved = [obs |-> obs, shown |-> "none"]
    /\ audits = <<>> /\ recent = 0 /\ bus = <<>>
    /\ th = [t \in Threads |-> Idle]
    /\ cooling = FALSE /\ alerted = FALSE
    /\ evidence = {} /\ newest = "none" /\ kept = "none" /\ unsaved = FALSE
    /\ heard = {} /\ noticed = {}
    /\ spent = [what \in DOMAIN Limit |-> 0]

Request(t) == \E act \in Acts : Execute(t, act)
Publish(t) == CommandReaches(t) \/ Acknowledged(t) \/ PublishFails(t)
Steps(t) == \/ Record(t) \/ Optimistic(t) \/ SaveControl(t)
            \/ Evaluate(t) \/ Deliver(t) \/ MarkSent(t)

Next ==
    \/ \E t \in Callers : Request(t) \/ Publish(t)
    \/ \E t \in Handlers : Hear(t) \/ Check(t)
    \/ \E t \in Threads : Steps(t)
    \/ \E r \in Readings : Reading(r[1], r[2])
    \/ \E act \in Toggles : OtherCommand(act)
    \/ Press \/ Rebuild \/ TimePasses \/ Crash

Spec == Init /\ [][Next]_vars
-----------------------------------------------------------------------------
Quiet == bus = <<>> /\ \A t \in Threads : th[t].pc = "idle"

\* The bridge shows a switch on or off only if a command for that reached the
\* broker or a reading said so: a request whose publication failed changes
\* nothing (Execute returns before RecordOptimisticControlState).
ShownHasEvidence == shown # "none" => shown \in evidence

\* A switch that has reported its state is never shown otherwise because of a
\* control request (hasObservedAuthoritativeToggleFeedback), on any path and
\* whatever overlaps.
FeedbackWins ==
    [][Observed(obs) /\ shown' # shown => obs' # obs]_vars

\* An action-only switch is shown as the last successful command or reading
\* that says anything, also after discoveries and catalog changes, and after a
\* restart as the last one before the cache was written (docs/jeedom.md:192).
NewestEvidence == kind = "action_only" => shown = newest

\* What is shown is in the cache whenever nothing is under way, unless the last
\* save failed: a restart shows it again (Execute and handleSetTopic save after
\* RecordOptimisticControlState; what a start has loaded is what the file says).
SavedWhenQuiet == Quiet /\ ~unsaved => saved.obs = obs /\ saved.shown = shown

\* No command passes the bridge unnoticed: each that reached the broker since
\* the start has an entry of its action in the control audit, although repeated
\* ones are dropped as echoes (HasRecentBridgeControl), and without failures the
\* rules saw it and one alerted (evaluate, cooldownReady, markSent).
CommandsNoticed ==
    Quiet => /\ \A act \in heard : \E i \in DOMAIN audits : audits[i].act = act
             /\ spent.failures = 0 => heard \subseteq noticed /\ (heard # {} => alerted)
=============================================================================
