----------------------------- MODULE StateEngine ------------------------------
(***************************************************************************)
(* The alarm state of the bridge, derived from the hub's events            *)
(* (internal/state/state.go, the event classes of internal/sia/catalog.go).*)
(*                                                                         *)
(* Every operation is one critical section of Engine.mu: an action here.   *)
(* Times are kept as ages, which is all the code looks at: an age says how *)
(* many units ago something happened, and stops growing once it is past    *)
(* the offline grace.  Events arrive in goroutines of their own, so that   *)
(* one received earlier may be applied later: \E age.  Left out: texts,    *)
(* the metadata of the device catalog, and the revision counter, which     *)
(* HamqttPublisher models where it is used.                                *)
(***************************************************************************)
EXTENDS Naturals

CONSTANTS
  Accounts,     \* account numbers
  Zones,        \* zone numbers
  NoZone,       \* the zone of an event of the account or hub as a whole
  AlarmSignals, \* signals of alarm events and of their restores
  Faults,       \* the signals whose restore clears a trouble
  OtherTroubles,\* signals of troubles that have no restore event
  Reports,      \* the classes of event that may name each account and place
  MaxDelay,     \* bound: the age an event may have when it is applied
  Grace         \* offlineGrace

Places == Zones \cup {NoZone}
Delays == 0..MaxDelay

(* The event classes, the actions and codes that have an effect of their own *)
(* apart.  The hub decides which of them a detector, a keypad or itself sends.*)
Classes == {"alarm", "restore", "tamper", "trouble", "bypass", "turned_off", "arm",
            "night", "night_off", "disarm", "test", "other"}

ASSUME EngineAssumption ==
  /\ NoZone \notin Zones
  /\ Reports \in [Accounts \X Places -> SUBSET Classes]
  /\ Grace \in Nat /\ MaxDelay \in 0..(Grace + 1)
  /\ "none" \notin AlarmSignals \cup Faults \cup OtherTroubles
  /\ AlarmSignals \cap (Faults \cup {"tamper", "arming", "night_mode"}) = {}
  /\ "bypass" \in Faults /\ "tamper" \notin Faults

(* An age past the grace is as good as another; time zero never happened.    *)
Old   == Grace + 1
Never == Grace + 2
Ages  == 0..Never

Older(age)     == IF age < Old THEN age + 1 ELSE age
Younger(a, b)  == IF a < b THEN a ELSE b

Signals == AlarmSignals \cup Faults \cup OtherTroubles
             \cup {"tamper", "arming", "night_mode", "duress"}

VARIABLES
  accounts,    \* Engine.accounts
  zones,       \* Engine.zones, and their SignalActive as a set
  directAlarms,\* accounts with an alarm of no zone
  open         \* ghost: where the hub reported an alarm that nothing has ended

vars == <<accounts, zones, directAlarms, open>>

AccountStates ==
  [known : BOOLEAN, online : BOOLEAN, armed : BOOLEAN, night : BOOLEAN,
   partial : BOOLEAN, alarm : BOOLEAN, tamper : BOOLEAN, trouble : BOOLEAN,
   mode : {"unknown", "night", "armed", "disarmed"}, event : Ages, ping : Ages]

ZoneStates ==
  [alarm : BOOLEAN, signal : AlarmSignals \cup {"none"}, tamper : BOOLEAN,
   trouble : BOOLEAN, active : SUBSET Signals]

TypeOK ==
  /\ accounts \in [Accounts -> AccountStates]
  /\ zones \in [Accounts \X Zones -> ZoneStates]
  /\ directAlarms \in SUBSET Accounts
  /\ open \in SUBSET (Accounts \X Places)

Init ==
  /\ accounts = [a \in Accounts |->
       [known |-> FALSE, online |-> FALSE, armed |-> FALSE, night |-> FALSE,
        partial |-> FALSE, alarm |-> FALSE, tamper |-> FALSE, trouble |-> FALSE,
        mode |-> "unknown", event |-> Never, ping |-> Never]]
  /\ zones = [w \in Accounts \X Zones |->
       [alarm |-> FALSE, signal |-> "none", tamper |-> FALSE, trouble |-> FALSE,
        active |-> {}]]
  /\ directAlarms = {}
  /\ open = {}

-----------------------------------------------------------------------------
(* Derived state                                                            *)

(* The ping if there ever was one, the last event otherwise.                 *)
Reference(acct) == IF acct.ping # Never THEN acct.ping ELSE acct.event

(* Mutant: online is only ever set.                                          *)
OnlineSticks(acct) ==
  [acct EXCEPT !.online = @ \/ Reference(acct) <= Grace,
               !.mode = IF acct.night THEN "night"
                        ELSE IF acct.armed THEN "armed" ELSE "disarmed"]

RefreshOnlineLocked(acct) ==
  [acct EXCEPT !.online = Reference(acct) <= Grace,
               !.mode = IF acct.night THEN "night"
                        ELSE IF acct.armed THEN "armed" ELSE "disarmed"]

(* The account is in alarm directly or through one of its zones.             *)
RefreshAccountAlarm(a, newZones, direct) ==
  a \in direct \/ \E y \in Zones : newZones[<<a, y>>].alarm

(* Engine.Apply: what every event does around its own effect, given as the   *)
(* account, the zone and the direct alarms after it.  The online refresh     *)
(* goes over all accounts.                                                   *)
Apply(a, z, acct, zone, direct) ==
  LET newZones == IF z = NoZone THEN zones ELSE [zones EXCEPT ![<<a, z>>] = zone]
      after    == [acct EXCEPT !.known = TRUE,
                               !.alarm = RefreshAccountAlarm(a, newZones, direct)]
      refreshed(b) == IF b = a THEN RefreshOnlineLocked(after)
                      ELSE IF accounts[b].known THEN RefreshOnlineLocked(accounts[b])
                      ELSE accounts[b]
  IN /\ zones' = newZones
     /\ directAlarms' = direct
     /\ accounts' = [b \in Accounts |-> refreshed(b)]

(* The account and the zone of an event, its time noted.                     *)
Account(a, age) == [accounts[a] EXCEPT !.event = Younger(@, age)]
Zone(a, z)      == zones[<<a, z>>]

(* setSignal leaves out the signal of an event it has no name for.           *)
Set(active, s)   == active \cup ({s} \ {"unknown"})
Clear(active, s) == active \ {s}

ClearZoneAlarm(zone) ==
  [zone EXCEPT !.alarm = FALSE, !.signal = "none", !.active = Clear(@, zone.signal)]

-----------------------------------------------------------------------------
(* Events, by class                                                         *)

RaiseAlarm(zone, s) ==
  [zone EXCEPT !.alarm = TRUE, !.signal = s, !.active = Set(@, s)]

AlarmEvent(a, z, s, age) ==
  Apply(a, z, Account(a, age), RaiseAlarm(Zone(a, z), s),
        IF z = NoZone THEN directAlarms \cup {a} ELSE directAlarms)

(* Mutant: a restore only switches its own signal off.                       *)
RestoreSignalOnly(zone, s) ==
  IF s = "tamper" THEN [zone EXCEPT !.tamper = FALSE, !.active = Clear(@, s)]
  ELSE IF s \in Faults THEN [zone EXCEPT !.trouble = FALSE, !.active = Clear(@, s)]
  ELSE [zone EXCEPT !.active = Clear(@, s)]

(* An alarm's restore clears the alarm of the zone, whichever it is.         *)
RestoreZone(zone, s) ==
  IF s = "tamper" THEN [zone EXCEPT !.tamper = FALSE, !.active = Clear(@, s)]
  ELSE IF s \in Faults THEN [zone EXCEPT !.trouble = FALSE, !.active = Clear(@, s)]
  ELSE [ClearZoneAlarm(zone) EXCEPT !.active = Clear(@, s)]

(* The account's alarm itself is recomputed by Apply.                        *)
RestoreAccount(acct, s) ==
  IF s = "tamper" THEN [acct EXCEPT !.tamper = FALSE]
  ELSE IF s \in Faults THEN [acct EXCEPT !.trouble = FALSE]
  ELSE acct

(* Mutant: the restore of a zone ends the account's own alarm too.           *)
RestoreEndsBoth(a, z, s, age) ==
  Apply(a, z, RestoreAccount(Account(a, age), s), RestoreZone(Zone(a, z), s),
        directAlarms \ {a})

(* Any restore that names no zone ends the account's own alarm.              *)
RestoreEvent(a, z, s, age) ==
  Apply(a, z, RestoreAccount(Account(a, age), s), RestoreZone(Zone(a, z), s),
        IF z = NoZone THEN directAlarms \ {a} ELSE directAlarms)

TamperEvent(a, z, age) ==
  Apply(a, z, [Account(a, age) EXCEPT !.tamper = TRUE],
        [Zone(a, z) EXCEPT !.tamper = TRUE, !.active = Set(@, "tamper")], directAlarms)

Trouble(zone, s) == [zone EXCEPT !.trouble = TRUE, !.active = Set(@, s)]

TroubleEvent(a, z, s, age) ==
  Apply(a, z, [Account(a, age) EXCEPT !.trouble = TRUE], Trouble(Zone(a, z), s),
        directAlarms)

(* QB, a device bypassed or deactivated, takes part in no alarm.             *)
BypassEvent(a, z, age) ==
  Apply(a, z, [Account(a, age) EXCEPT !.trouble = TRUE],
        ClearZoneAlarm(Trouble(Zone(a, z), "bypass")), directAlarms)

(* ZZ, a device turned off, neither.                                         *)
TurnedOffEvent(a, z, age) ==
  Apply(a, z, Account(a, age), ClearZoneAlarm(Zone(a, z)), directAlarms)

(* Only CG arms a group.                                                     *)
ArmEvent(a, z, group, age) ==
  Apply(a, z,
        [Account(a, age) EXCEPT !.armed = TRUE, !.night = FALSE, !.partial = group],
        [Zone(a, z) EXCEPT !.active = (@ \cup {"arming"}) \ {"night_mode"}],
        directAlarms)

NightEvent(a, z, age) ==
  Apply(a, z,
        [Account(a, age) EXCEPT !.armed = TRUE, !.night = TRUE, !.partial = TRUE],
        [Zone(a, z) EXCEPT !.active = @ \cup {"arming", "night_mode"}], directAlarms)

(* Night mode ends; what it armed stays armed.                               *)
NightOffEvent(a, z, age) ==
  Apply(a, z, [Account(a, age) EXCEPT !.night = FALSE, !.partial = FALSE],
        [Zone(a, z) EXCEPT !.active = Clear(@, "night_mode")], directAlarms)

(* Mutant: disarming forgets that a group was armed.                         *)
DisarmKeepsPartial(a, z, age) ==
  Apply(a, z, [Account(a, age) EXCEPT !.armed = FALSE, !.night = FALSE],
        [Zone(a, z) EXCEPT !.active = @ \ {"arming", "night_mode", "duress"}],
        directAlarms \ {a})

(* Mutant: disarming ends the alarm of the zone the event names.             *)
DisarmEndsZoneAlarm(a, z, age) ==
  Apply(a, z,
        [Account(a, age) EXCEPT !.armed = FALSE, !.night = FALSE, !.partial = FALSE],
        ClearZoneAlarm(Zone(a, z)), directAlarms \ {a})

DisarmEvent(a, z, age) ==
  Apply(a, z,
        [Account(a, age) EXCEPT !.armed = FALSE, !.night = FALSE, !.partial = FALSE],
        [Zone(a, z) EXCEPT !.active = @ \ {"arming", "night_mode", "duress"}],
        directAlarms \ {a})

(* A test of the hub counts as its ping.                                     *)
TestEvent(a, z, age) ==
  Apply(a, z, [Account(a, age) EXCEPT !.ping = Younger(@, age)], Zone(a, z),
        directAlarms)

(* Firmware, settings, unknown codes: only the time is noted.                *)
OtherEvent(a, z, age) == Apply(a, z, Account(a, age), Zone(a, z), directAlarms)

-----------------------------------------------------------------------------
(* The ticker of app.refreshOnline.                                          *)
RefreshOnline ==
  /\ accounts' = [a \in Accounts |->
       IF accounts[a].known THEN RefreshOnlineLocked(accounts[a]) ELSE accounts[a]]
  /\ UNCHANGED <<zones, directAlarms, open>>

(* Time passes.                                                              *)
Tick ==
  /\ accounts' = [a \in Accounts |->
       [accounts[a] EXCEPT !.event = Older(@), !.ping = Older(@)]]
  /\ UNCHANGED <<zones, directAlarms, open>>

-----------------------------------------------------------------------------
(* What the hub reports                                                      *)

(* Reports that have nothing to do with alarms.                              *)
OtherReport(a, z, age) ==
  \/ "tamper" \in Reports[<<a, z>>] /\ TamperEvent(a, z, age)
  \/ /\ "trouble" \in Reports[<<a, z>>]
     /\ \E s \in (Faults \ {"bypass"}) \cup OtherTroubles : TroubleEvent(a, z, s, age)
  \/ "arm" \in Reports[<<a, z>>] /\ \E group \in BOOLEAN : ArmEvent(a, z, group, age)
  \/ "night" \in Reports[<<a, z>>] /\ NightEvent(a, z, age)
  \/ "night_off" \in Reports[<<a, z>>] /\ NightOffEvent(a, z, age)
  \/ "test" \in Reports[<<a, z>>] /\ TestEvent(a, z, age)
  \/ "other" \in Reports[<<a, z>>] /\ OtherEvent(a, z, age)

(* Which reports of the hub begin and end alarms, told from the reports      *)
(* alone (docs/sia.md): an alarm of a device ends with a restore of an alarm,*)
(* a bypass or a switching off of that device; one of no device with a       *)
(* restore of no device or when the account is disarmed.                     *)
Begins(a, z) == open' = open \cup {<<a, z>>}
Ends(a, z)   == open' = open \ {<<a, z>>}
EndsDevice(a, z) == IF z = NoZone THEN UNCHANGED open ELSE Ends(a, z)
Restores(a, z, s) ==
  IF z = NoZone \/ s \in AlarmSignals THEN Ends(a, z) ELSE UNCHANGED open

Event(a, z, age) ==
  \/ /\ "alarm" \in Reports[<<a, z>>]
     /\ \E s \in AlarmSignals : AlarmEvent(a, z, s, age) /\ Begins(a, z)
  \/ /\ "restore" \in Reports[<<a, z>>]
     /\ \E s \in (AlarmSignals \ {"duress"}) \cup Faults \cup {"tamper"} :
          RestoreEvent(a, z, s, age) /\ Restores(a, z, s)
  \/ "bypass" \in Reports[<<a, z>>] /\ BypassEvent(a, z, age) /\ EndsDevice(a, z)
  \/ "turned_off" \in Reports[<<a, z>>] /\ TurnedOffEvent(a, z, age) /\ EndsDevice(a, z)
  \/ "disarm" \in Reports[<<a, z>>] /\ DisarmEvent(a, z, age) /\ Ends(a, NoZone)
  \/ UNCHANGED open /\ OtherReport(a, z, age)

Next ==
  \/ \E a \in Accounts, z \in Places, age \in Delays : Event(a, z, age)
  \/ RefreshOnline
  \/ Tick

Spec == Init /\ [][Next]_vars

(* The ticker fires again and again.                                         *)
FairSpec == Spec /\ WF_vars(RefreshOnline)

-----------------------------------------------------------------------------
(* Properties                                                               *)

(* An account shows an alarm exactly as long as one of those the hub         *)
(* reported, for whatever device or for none, has not been ended by a report *)
(* that ends that one: restores, bypasses and disarming that overlap other   *)
(* alarms hide none of them, and none outlives its end.                      *)
OpenAlarmsShow ==
  \A a \in Accounts : accounts[a].alarm <=> \E z \in Places : <<a, z>> \in open

SignalOn(zone) ==
  IF zone.alarm THEN zone.signal \in zone.active \cup {"duress", "unknown"}
  ELSE zone.signal = "none"

(* A zone in alarm names a signal that is on, in whatever order the device's *)
(* alarms, restores, faults and bypasses came (duress ends with a disarm,    *)
(* unknown has no signal), and a zone out of alarm names none.               *)
AlarmSignalOn == \A a \in Accounts, z \in Zones : SignalOn(zones[<<a, z>>])

FlagsAgree(acct) ==
  /\ acct.night => acct.partial
  /\ acct.partial => acct.armed

(* The mode and the arming flags agree after any sequence of arming, group   *)
(* arming, night mode and disarming, by account or by zone.                  *)
ModeAgrees ==
  \A a \in Accounts :
    LET acct == accounts[a] IN
    /\ FlagsAgree(acct)
    /\ acct.mode = IF acct.night THEN "night" ELSE IF acct.armed THEN "armed"
                   ELSE IF acct.known THEN "disarmed" ELSE "unknown"

(* Arming and disarming never end the alarm of a zone: only the device's     *)
(* own restore, bypass or switching off does.                                *)
ArmingKeepsAlarms ==
  [][\A a \in Accounts :
       accounts'[a].armed # accounts[a].armed \/ accounts'[a].night # accounts[a].night
         => \A z \in Zones : zones'[<<a, z>>].alarm = zones[<<a, z>>].alarm]_vars

(* A silent account is eventually shown offline.                             *)
SilenceShows ==
  \A a \in Accounts :
    (accounts[a].known /\ Reference(accounts[a]) > Grace)
      ~> (~accounts[a].online \/ Reference(accounts[a]) <= Grace)

(* "A battery trouble remains active until a battery restore arrives"        *)
(* (bridge/docs/sia.md): a zone whose fault is still on has a trouble.       *)
TroubleRemains ==
  \A a \in Accounts, z \in Zones :
    zones[<<a, z>>].active \cap Faults # {} => zones[<<a, z>>].trouble
=============================================================================
