--------------------------- MODULE StateEngineProof ---------------------------
(***************************************************************************)
(* Theorems about StateEngine for every set of accounts, zones and signals *)
(* and every grace.                                                        *)
(***************************************************************************)
EXTENDS StateEngine, TLAPS

(* The account's flag is that of its own alarm and those of its zones.       *)
AlarmTruth ==
  \A a \in Accounts :
    accounts[a].alarm <=> a \in directAlarms \/ \E z \in Zones : zones[<<a, z>>].alarm

Inv == TypeOK /\ AlarmTruth /\ AlarmSignalOn /\ ModeAgrees

(* The effect of an event on its account and its zone is a proper one.       *)
GoodEffect(a, z, acct, zone, direct) ==
  /\ acct \in AccountStates
  /\ FlagsAgree(acct)
  /\ z # NoZone => zone \in ZoneStates /\ SignalOn(zone)
  /\ direct \in SUBSET Accounts
  /\ \A b \in Accounts \ {a} : b \in direct <=> b \in directAlarms

-----------------------------------------------------------------------------
(* Accounts                                                                 *)

(* The online refresh sets online and mode and nothing else.                 *)
LEMMA RefreshFacts ==
  ASSUME NEW acct \in AccountStates
  PROVE  /\ RefreshOnlineLocked(acct) \in AccountStates
         /\ RefreshOnlineLocked(acct).known = acct.known
         /\ RefreshOnlineLocked(acct).alarm = acct.alarm
         /\ RefreshOnlineLocked(acct).night = acct.night
         /\ RefreshOnlineLocked(acct).armed = acct.armed
         /\ RefreshOnlineLocked(acct).partial = acct.partial
         /\ RefreshOnlineLocked(acct).mode =
              IF acct.night THEN "night" ELSE IF acct.armed THEN "armed" ELSE "disarmed"
<1>1. (Reference(acct) <= Grace) \in BOOLEAN
  OBVIOUS
<1> QED
  BY <1>1 DEF RefreshOnlineLocked, AccountStates

(* The age of the younger of two events, an age that grew: ages both.        *)
LEMMA AgeFacts ==
  /\ \A x \in Ages, y \in Delays : Younger(x, y) \in Ages
  /\ \A x \in Ages : Older(x) \in Ages
BY EngineAssumption DEF Ages, Delays, Younger, Older, Never, Old

-----------------------------------------------------------------------------
(* Apply                                                                    *)

(* Whatever event it is, Apply keeps the invariant: the zones other than the *)
(* event's stay, and the account's alarm is recomputed from all of them.     *)
LEMMA ApplyKeepsInv ==
  ASSUME Inv, NEW a \in Accounts, NEW z \in Places, NEW acct, NEW zone, NEW direct,
         GoodEffect(a, z, acct, zone, direct), Apply(a, z, acct, zone, direct),
         open' \in SUBSET (Accounts \X Places)
  PROVE  Inv'
<1> DEFINE newZones == IF z = NoZone THEN zones ELSE [zones EXCEPT ![<<a, z>>] = zone]
           after == [acct EXCEPT !.known = TRUE,
                                 !.alarm = RefreshAccountAlarm(a, newZones, direct)]
<1>0. TypeOK
  BY DEF Inv
<1>1. zones' = newZones /\ directAlarms' = direct
  BY DEF Apply
<1>2. newZones \in [Accounts \X Zones -> ZoneStates]
  <2>1. CASE z = NoZone
    BY <2>1, <1>0 DEF TypeOK
  <2>2. CASE z # NoZone
    BY <2>2, <1>0 DEF TypeOK, GoodEffect
  <2> QED BY <2>1, <2>2
<1>3. \A b \in Accounts, y \in Zones :
        newZones[<<b, y>>] = IF b = a /\ y = z THEN zone ELSE zones[<<b, y>>]
  BY <1>0, EngineAssumption DEF TypeOK, Places
<1>4. after \in AccountStates
  <2>1. RefreshAccountAlarm(a, newZones, direct) \in BOOLEAN
    BY DEF RefreshAccountAlarm
  <2> QED
    BY <2>1 DEF GoodEffect, AccountStates
<1>5. /\ after.known = TRUE
      /\ after.alarm = RefreshAccountAlarm(a, newZones, direct)
      /\ after.night = acct.night /\ after.armed = acct.armed
      /\ after.partial = acct.partial
  BY DEF GoodEffect, AccountStates
<1>6. accounts'[a] = RefreshOnlineLocked(after)
  BY DEF Apply
<1> HIDE DEF after
<1>7. ASSUME NEW b \in Accounts, b # a
      PROVE  accounts'[b] = IF accounts[b].known THEN RefreshOnlineLocked(accounts[b])
                            ELSE accounts[b]
  BY <1>7 DEF Apply
<1>8. accounts' \in [Accounts -> AccountStates]
  <2>1. ASSUME NEW b \in Accounts PROVE accounts'[b] \in AccountStates
    <3>1. CASE b = a
      BY <3>1, <1>4, <1>6, RefreshFacts
    <3>2. CASE b # a
      BY <3>2, <1>0, <1>7, RefreshFacts DEF TypeOK
    <3> QED BY <3>1, <3>2
  <2>2. accounts' = [b \in Accounts |-> accounts'[b]]
    BY DEF Apply
  <2> QED
    BY <2>1, <2>2
<1>9. TypeOK'
  <2>1. direct \in SUBSET Accounts
    BY DEF GoodEffect
  <2> QED
    BY <1>1, <1>2, <1>8, <2>1 DEF TypeOK
<1>10. AlarmTruth'
  <2>1. ASSUME NEW b \in Accounts
        PROVE  accounts'[b].alarm
                 <=> b \in directAlarms' \/ \E y \in Zones : zones'[<<b, y>>].alarm
    <3>1. CASE b = a
      <4>1. accounts'[a].alarm = RefreshAccountAlarm(a, newZones, direct)
        BY <1>4, <1>5, <1>6, RefreshFacts
      <4> QED
        BY <4>1, <3>1, <1>1 DEF RefreshAccountAlarm
    <3>2. CASE b # a
      <4>1. accounts'[b].alarm = accounts[b].alarm
        BY <3>2, <1>0, <1>7, RefreshFacts DEF TypeOK
      <4>2. \A y \in Zones : zones'[<<b, y>>] = zones[<<b, y>>]
        BY <3>2, <1>1, <1>3
      <4>3. b \in directAlarms' <=> b \in directAlarms
        BY <3>2, <1>1 DEF GoodEffect
      <4>4. accounts[b].alarm
              <=> b \in directAlarms \/ \E y \in Zones : zones[<<b, y>>].alarm
        BY DEF Inv, AlarmTruth
      <4> QED
        BY <4>1, <4>2, <4>3, <4>4
    <3> QED BY <3>1, <3>2
  <2> QED
    BY <2>1 DEF AlarmTruth
<1>11. AlarmSignalOn'
  <2>1. ASSUME NEW b \in Accounts, NEW y \in Zones PROVE SignalOn(newZones[<<b, y>>])
    <3>1. CASE b = a /\ y = z
      BY <3>1, <1>3, EngineAssumption DEF GoodEffect
    <3>2. CASE ~(b = a /\ y = z)
      BY <3>2, <1>3 DEF Inv, AlarmSignalOn
    <3> QED BY <3>1, <3>2
  <2> QED
    BY <2>1, <1>1 DEF AlarmSignalOn, SignalOn
<1>12. ModeAgrees'
  <2>1. ASSUME NEW b \in Accounts
        PROVE  /\ FlagsAgree(accounts'[b])
               /\ accounts'[b].mode =
                    IF accounts'[b].night THEN "night"
                    ELSE IF accounts'[b].armed THEN "armed"
                    ELSE IF accounts'[b].known THEN "disarmed" ELSE "unknown"
    <3>1. CASE b = a
      BY <3>1, <1>4, <1>5, <1>6, RefreshFacts DEF FlagsAgree, GoodEffect
    <3>2. CASE b # a /\ accounts[b].known
      <4>1. FlagsAgree(accounts[b])
        BY DEF Inv, ModeAgrees
      <4> QED
        BY <3>2, <4>1, <1>0, <1>7, RefreshFacts DEF FlagsAgree, TypeOK
    <3>3. CASE b # a /\ ~accounts[b].known
      BY <3>3, <1>7 DEF Inv, ModeAgrees
    <3> QED BY <3>1, <3>2, <3>3
  <2> QED
    BY <2>1 DEF ModeAgrees, FlagsAgree
<1> QED
  BY <1>9, <1>10, <1>11, <1>12 DEF Inv

-----------------------------------------------------------------------------
(* The events' effects                                                      *)

(* Noting the time of an event or of a ping changes no flag.                 *)
LEMMA AccountFacts ==
  ASSUME TypeOK, ModeAgrees, NEW a \in Accounts, NEW age \in Delays
  PROVE  /\ Account(a, age) \in AccountStates
         /\ FlagsAgree(Account(a, age))
         /\ Younger(Account(a, age).ping, age) \in Ages
<1>1. accounts[a] \in AccountStates
  BY DEF TypeOK
<1>2. Younger(accounts[a].event, age) \in Ages
  BY <1>1, AgeFacts DEF AccountStates
<1>3. Account(a, age) \in AccountStates
  BY <1>1, <1>2 DEF Account, AccountStates
<1>4. FlagsAgree(accounts[a])
  BY DEF ModeAgrees
<1> QED
  BY <1>1, <1>3, <1>4, AgeFacts DEF Account, AccountStates, FlagsAgree

(* What the events do to a zone keeps it one whose signal is on.             *)
GoodZone(zone) == zone \in ZoneStates /\ SignalOn(zone)

LEMMA ZoneFacts ==
  ASSUME NEW zone, GoodZone(zone)
  PROVE  /\ \A s \in AlarmSignals : GoodZone(RaiseAlarm(zone, s))
         /\ GoodZone(ClearZoneAlarm(zone))
         /\ \A s \in Faults \cup OtherTroubles : GoodZone(Trouble(zone, s))
         /\ \A s \in AlarmSignals \cup Faults \cup {"tamper"} : GoodZone(RestoreZone(zone, s))
         /\ GoodZone(ClearZoneAlarm(Trouble(zone, "bypass")))
         /\ GoodZone([zone EXCEPT !.tamper = TRUE, !.active = Set(@, "tamper")])
<1> USE DEF GoodZone, SignalOn, ZoneStates, Signals, Set, Clear
<1>1. ASSUME NEW s \in AlarmSignals PROVE GoodZone(RaiseAlarm(zone, s))
  BY DEF RaiseAlarm
<1>2. ASSUME NEW y, GoodZone(y) PROVE GoodZone(ClearZoneAlarm(y))
  BY <1>2 DEF ClearZoneAlarm
<1>3. ASSUME NEW s \in Faults \cup OtherTroubles PROVE GoodZone(Trouble(zone, s))
  BY DEF Trouble
<1>4. ASSUME NEW s \in AlarmSignals \cup Faults \cup {"tamper"}
      PROVE  GoodZone(RestoreZone(zone, s))
  <2>1. CASE s = "tamper" \/ s \in Faults
    <3>1. zone.signal \in AlarmSignals \cup {"none"} /\ zone.active \in SUBSET Signals
      OBVIOUS
    <3>2. zone.alarm => zone.signal # s
      <4>1. "none" \notin Signals
        BY EngineAssumption
      <4> QED
        BY <2>1, <3>1, <4>1, EngineAssumption
    <3>3. CASE s = "tamper"
      BY <3>1, <3>2, <3>3 DEF RestoreZone
    <3>4. CASE s # "tamper"
      <4>1. RestoreZone(zone, s) = [zone EXCEPT !.trouble = FALSE, !.active = Clear(@, s)]
        BY <2>1, <3>4 DEF RestoreZone
      <4>2. GoodZone([zone EXCEPT !.trouble = FALSE, !.active = Clear(@, s)])
        BY <3>1, <3>2
      <4> QED
        BY <4>1, <4>2
    <3> QED BY <3>3, <3>4
  <2>2. CASE ~(s = "tamper" \/ s \in Faults)
    <3>1. ~ClearZoneAlarm(zone).alarm
      BY DEF ClearZoneAlarm
    <3>2. ASSUME NEW y, GoodZone(y), ~y.alarm
          PROVE  GoodZone([y EXCEPT !.active = Clear(@, s)])
      BY <3>2
    <3>3. GoodZone([ClearZoneAlarm(zone) EXCEPT !.active = Clear(@, s)])
      BY <1>2, <3>1, <3>2
    <3> QED
      BY <2>2, <3>3 DEF RestoreZone
  <2> QED BY <2>1, <2>2
<1>5. GoodZone(ClearZoneAlarm(Trouble(zone, "bypass")))
  BY <1>2, <1>3, EngineAssumption
<1>6. GoodZone([zone EXCEPT !.tamper = TRUE, !.active = Set(@, "tamper")])
  OBVIOUS
<1> QED
  BY <1>1, <1>2, <1>3, <1>4, <1>5, <1>6

(* Arming moves the arming signals of the zone, disarming also ends duress.  *)
LEMMA ArmingZoneFacts ==
  ASSUME NEW zone, GoodZone(zone)
  PROVE  /\ GoodZone([zone EXCEPT !.active = (@ \cup {"arming"}) \ {"night_mode"}])
         /\ GoodZone([zone EXCEPT !.active = @ \cup {"arming", "night_mode"}])
         /\ GoodZone([zone EXCEPT !.active = Clear(@, "night_mode")])
         /\ GoodZone([zone EXCEPT !.active = @ \ {"arming", "night_mode", "duress"}])
<1> USE DEF GoodZone, SignalOn, ZoneStates, Signals, Clear
<1>1. zone.signal \notin {"arming", "night_mode"} \/ ~zone.alarm
  BY EngineAssumption
<1>2. GoodZone([zone EXCEPT !.active = (@ \cup {"arming"}) \ {"night_mode"}])
  BY <1>1
<1>3. GoodZone([zone EXCEPT !.active = @ \cup {"arming", "night_mode"}])
  BY <1>1
<1>4. GoodZone([zone EXCEPT !.active = Clear(@, "night_mode")])
  BY <1>1
<1>5. GoodZone([zone EXCEPT !.active = @ \ {"arming", "night_mode", "duress"}])
  BY <1>1
<1> QED
  BY <1>2, <1>3, <1>4, <1>5

-----------------------------------------------------------------------------
(* The invariant                                                            *)

LEMMA InitInv == Init => Inv
<1> SUFFICES ASSUME Init PROVE Inv
  OBVIOUS
<1>1. TypeOK
  BY EngineAssumption DEF Init, TypeOK, AccountStates, ZoneStates, Ages, Never
<1> QED
  BY <1>1 DEF Init, Inv, AlarmTruth, AlarmSignalOn, SignalOn, ModeAgrees, FlagsAgree

(* What is open is an alarm of a place.                                      *)
LEMMA OpenTyped ==
  ASSUME TypeOK, NEW a \in Accounts, NEW z \in Places, NEW age \in Delays,
         Event(a, z, age)
  PROVE  open' \in SUBSET (Accounts \X Places)
<1>1. \/ open' = open
      \/ \E y \in Places : open' = open \cup {<<a, y>>} \/ open' = open \ {<<a, y>>}
  BY DEF Event, Begins, Ends, EndsDevice, Restores, Places
<1> QED
  BY <1>1 DEF TypeOK

(* Every event of every class has a proper effect.                           *)
LEMMA EventKeepsInv ==
  ASSUME Inv, NEW a \in Accounts, NEW z \in Places, NEW age \in Delays, Event(a, z, age)
  PROVE  Inv'
<1>0. TypeOK /\ ModeAgrees
  BY DEF Inv
<1>1. /\ Account(a, age) \in AccountStates
      /\ FlagsAgree(Account(a, age))
      /\ Younger(Account(a, age).ping, age) \in Ages
  BY <1>0, AccountFacts
<1>2. z # NoZone => GoodZone(Zone(a, z))
  BY DEF Inv, TypeOK, AlarmSignalOn, GoodZone, Zone, Places
<1>3. directAlarms \in SUBSET Accounts
  BY <1>0 DEF TypeOK
<1> DEFINE good(acct, zone, direct) == GoodEffect(a, z, acct, zone, direct)
<1>4. ASSUME NEW acct, NEW zone, NEW direct, good(acct, zone, direct),
             Apply(a, z, acct, zone, direct)
      PROVE  Inv'
  BY <1>0, <1>4, ApplyKeepsInv, OpenTyped
<1>5. ASSUME NEW acct \in AccountStates, FlagsAgree(acct), NEW zone,
             z # NoZone => GoodZone(zone),
             NEW direct \in {directAlarms, directAlarms \cup {a}, directAlarms \ {a}}
      PROVE  good(acct, zone, direct)
  BY <1>3, <1>5 DEF GoodEffect, GoodZone
<1> HIDE DEF good
<1>6. ASSUME NEW s \in AlarmSignals, AlarmEvent(a, z, s, age) PROVE Inv'
  <2>1. z # NoZone => GoodZone(RaiseAlarm(Zone(a, z), s))
    BY <1>2, ZoneFacts
  <2> QED
    BY <1>1, <1>4, <1>5, <1>6, <2>1 DEF AlarmEvent
<1>7. ASSUME NEW s \in AlarmSignals \cup Faults \cup {"tamper"},
             RestoreEvent(a, z, s, age)
      PROVE  Inv'
  <2>1. z # NoZone => GoodZone(RestoreZone(Zone(a, z), s))
    BY <1>2, ZoneFacts
  <2>2. /\ RestoreAccount(Account(a, age), s) \in AccountStates
        /\ FlagsAgree(RestoreAccount(Account(a, age), s))
    BY <1>1 DEF RestoreAccount, AccountStates, FlagsAgree
  <2> QED
    BY <1>4, <1>5, <1>7, <2>1, <2>2 DEF RestoreEvent
<1>8. ASSUME TamperEvent(a, z, age) PROVE Inv'
  <2>1. z # NoZone =>
          GoodZone([Zone(a, z) EXCEPT !.tamper = TRUE, !.active = Set(@, "tamper")])
    BY <1>2, ZoneFacts
  <2>2. /\ [Account(a, age) EXCEPT !.tamper = TRUE] \in AccountStates
        /\ FlagsAgree([Account(a, age) EXCEPT !.tamper = TRUE])
    BY <1>1 DEF AccountStates, FlagsAgree
  <2> QED
    BY <1>4, <1>5, <1>8, <2>1, <2>2 DEF TamperEvent
<1>9. /\ [Account(a, age) EXCEPT !.trouble = TRUE] \in AccountStates
      /\ FlagsAgree([Account(a, age) EXCEPT !.trouble = TRUE])
  BY <1>1 DEF AccountStates, FlagsAgree
<1>10. ASSUME NEW s \in Faults \cup OtherTroubles, TroubleEvent(a, z, s, age) PROVE Inv'
  <2>1. z # NoZone => GoodZone(Trouble(Zone(a, z), s))
    BY <1>2, ZoneFacts
  <2> QED
    BY <1>4, <1>5, <1>9, <1>10, <2>1 DEF TroubleEvent
<1>11. ASSUME BypassEvent(a, z, age) PROVE Inv'
  <2>1. z # NoZone => GoodZone(ClearZoneAlarm(Trouble(Zone(a, z), "bypass")))
    BY <1>2, ZoneFacts
  <2> QED
    BY <1>4, <1>5, <1>9, <1>11, <2>1 DEF BypassEvent
<1>12. ASSUME TurnedOffEvent(a, z, age) PROVE Inv'
  <2>1. z # NoZone => GoodZone(ClearZoneAlarm(Zone(a, z)))
    BY <1>2, ZoneFacts
  <2> QED
    BY <1>1, <1>4, <1>5, <1>12, <2>1 DEF TurnedOffEvent
<1> DEFINE flags(armed, night, partial) ==
             [Account(a, age) EXCEPT !.armed = armed, !.night = night,
                                     !.partial = partial]
<1>13. ASSUME NEW armed \in BOOLEAN, NEW night \in BOOLEAN, NEW partial \in BOOLEAN,
              night => partial, partial => armed
       PROVE  /\ flags(armed, night, partial) \in AccountStates
              /\ FlagsAgree(flags(armed, night, partial))
  BY <1>1, <1>13 DEF AccountStates, FlagsAgree
<1>14. ASSUME NEW group \in BOOLEAN, ArmEvent(a, z, group, age) PROVE Inv'
  <2>1. z # NoZone =>
          GoodZone([Zone(a, z) EXCEPT !.active = (@ \cup {"arming"}) \ {"night_mode"}])
    BY <1>2, ArmingZoneFacts
  <2> QED
    BY <1>4, <1>5, <1>13, <1>14, <2>1 DEF ArmEvent
<1>15. ASSUME NightEvent(a, z, age) PROVE Inv'
  <2>1. z # NoZone =>
          GoodZone([Zone(a, z) EXCEPT !.active = @ \cup {"arming", "night_mode"}])
    BY <1>2, ArmingZoneFacts
  <2> QED
    BY <1>4, <1>5, <1>13, <1>15, <2>1 DEF NightEvent
<1>16. ASSUME NightOffEvent(a, z, age) PROVE Inv'
  <2>1. z # NoZone => GoodZone([Zone(a, z) EXCEPT !.active = Clear(@, "night_mode")])
    BY <1>2, ArmingZoneFacts
  <2>2. LET acct == [Account(a, age) EXCEPT !.night = FALSE, !.partial = FALSE] IN
        acct \in AccountStates /\ FlagsAgree(acct)
    BY <1>1 DEF AccountStates, FlagsAgree
  <2> QED
    BY <1>4, <1>5, <1>16, <2>1, <2>2 DEF NightOffEvent
<1>17. ASSUME DisarmEvent(a, z, age) PROVE Inv'
  <2>1. z # NoZone =>
          GoodZone([Zone(a, z) EXCEPT !.active = @ \ {"arming", "night_mode", "duress"}])
    BY <1>2, ArmingZoneFacts
  <2> QED
    BY <1>4, <1>5, <1>13, <1>17, <2>1 DEF DisarmEvent
<1>18. ASSUME TestEvent(a, z, age) PROVE Inv'
  <2>1. LET acct == [Account(a, age) EXCEPT !.ping = Younger(@, age)] IN
        acct \in AccountStates /\ FlagsAgree(acct)
    BY <1>1 DEF AccountStates, FlagsAgree
  <2> QED
    BY <1>2, <1>4, <1>5, <1>18, <2>1 DEF TestEvent
<1>19. ASSUME OtherEvent(a, z, age) PROVE Inv'
  BY <1>1, <1>2, <1>4, <1>5, <1>19 DEF OtherEvent
<1> QED
  BY <1>6, <1>7, <1>8, <1>10, <1>11, <1>12, <1>14, <1>15, <1>16, <1>17, <1>18, <1>19
  DEF Event, OtherReport

LEMMA RefreshKeepsInv ==
  ASSUME Inv, RefreshOnline
  PROVE  Inv'
<1>1. TypeOK /\ AlarmTruth /\ AlarmSignalOn /\ ModeAgrees
  BY DEF Inv
<1>2. UNCHANGED zones /\ UNCHANGED directAlarms /\ UNCHANGED open
  BY DEF RefreshOnline
<1>3. ASSUME NEW a \in Accounts
      PROVE  /\ accounts'[a] \in AccountStates
             /\ accounts'[a].alarm = accounts[a].alarm
             /\ FlagsAgree(accounts'[a])
             /\ accounts'[a].mode =
                  IF accounts'[a].night THEN "night"
                  ELSE IF accounts'[a].armed THEN "armed"
                  ELSE IF accounts'[a].known THEN "disarmed" ELSE "unknown"
  <2>1. accounts[a] \in AccountStates
    BY <1>1 DEF TypeOK
  <2>2. CASE accounts[a].known
    <3>1. accounts'[a] = RefreshOnlineLocked(accounts[a])
      BY <2>2 DEF RefreshOnline
    <3> QED
      BY <1>1, <2>1, <2>2, <3>1, RefreshFacts DEF ModeAgrees, FlagsAgree
  <2>3. CASE ~accounts[a].known
    <3>1. accounts'[a] = accounts[a]
      BY <2>3 DEF RefreshOnline
    <3> QED
      BY <1>1, <2>1, <3>1 DEF ModeAgrees
  <2> QED BY <2>2, <2>3
<1>4. TypeOK'
  <2>1. accounts' = [a \in Accounts |-> accounts'[a]]
    BY DEF RefreshOnline
  <2> QED
    BY <1>1, <1>2, <1>3, <2>1 DEF TypeOK
<1>5. AlarmTruth'
  BY <1>1, <1>2, <1>3 DEF AlarmTruth
<1>6. AlarmSignalOn'
  BY <1>1, <1>2 DEF AlarmSignalOn, SignalOn
<1>7. ModeAgrees'
  BY <1>3 DEF ModeAgrees, FlagsAgree
<1> QED
  BY <1>4, <1>5, <1>6, <1>7 DEF Inv

LEMMA TickKeepsInv ==
  ASSUME Inv, Tick
  PROVE  Inv'
<1>1. TypeOK /\ AlarmTruth /\ AlarmSignalOn /\ ModeAgrees
  BY DEF Inv
<1>2. UNCHANGED zones /\ UNCHANGED directAlarms /\ UNCHANGED open
  BY DEF Tick
<1>3. ASSUME NEW a \in Accounts
      PROVE  /\ accounts'[a] \in AccountStates
             /\ \A f \in {"known", "alarm", "night", "armed", "partial", "mode"} :
                  accounts'[a][f] = accounts[a][f]
  <2>1. accounts[a] \in AccountStates
    BY <1>1 DEF TypeOK
  <2>2. accounts'[a] = [accounts[a] EXCEPT !.event = Older(@), !.ping = Older(@)]
    BY DEF Tick
  <2>3. Older(accounts[a].event) \in Ages /\ Older(accounts[a].ping) \in Ages
    BY <2>1, AgeFacts DEF AccountStates
  <2> QED
    BY <2>1, <2>2, <2>3 DEF AccountStates
<1>4. TypeOK'
  <2>1. accounts' = [a \in Accounts |-> accounts'[a]]
    BY DEF Tick
  <2> QED
    BY <1>1, <1>2, <1>3, <2>1 DEF TypeOK
<1>5. AlarmTruth'
  BY <1>1, <1>2, <1>3 DEF AlarmTruth
<1>6. AlarmSignalOn'
  BY <1>1, <1>2 DEF AlarmSignalOn, SignalOn
<1>7. ModeAgrees'
  BY <1>1, <1>3 DEF ModeAgrees, FlagsAgree
<1> QED
  BY <1>4, <1>5, <1>6, <1>7 DEF Inv

LEMMA StepKeepsInv == Inv /\ [Next]_vars => Inv'
<1> SUFFICES ASSUME Inv, [Next]_vars PROVE Inv'
  OBVIOUS
<1>1. ASSUME NEW a \in Accounts, NEW z \in Places, NEW age \in Delays, Event(a, z, age)
      PROVE  Inv'
  BY <1>1, EventKeepsInv
<1>2. CASE RefreshOnline
  BY <1>2, RefreshKeepsInv
<1>3. CASE Tick
  BY <1>3, TickKeepsInv
<1>4. CASE UNCHANGED vars
  BY <1>4 DEF vars, Inv, TypeOK, AlarmTruth, AlarmSignalOn, SignalOn, ModeAgrees,
              FlagsAgree
<1> QED
  BY <1>1, <1>2, <1>3, <1>4 DEF Next

(* The engine's types, an account's alarm, the signal of a zone's alarm and  *)
(* the mode are right after every sequence of events.                        *)
THEOREM EngineInvariant == Spec => []Inv
<1> QED
  BY InitInv, StepKeepsInv, PTL DEF Spec

THEOREM EngineTypes == Spec => []TypeOK
<1>1. Inv => TypeOK
  BY DEF Inv
<1> QED
  BY <1>1, EngineInvariant, PTL

(* A zone in alarm names a signal that is on.                                *)
THEOREM AlarmsHaveSignals == Spec => []AlarmSignalOn
<1>1. Inv => AlarmSignalOn
  BY DEF Inv
<1> QED
  BY <1>1, EngineInvariant, PTL

(* The mode agrees with the arming flags, and these with each other.         *)
THEOREM ModesAgree == Spec => []ModeAgrees
<1>1. Inv => ModeAgrees
  BY DEF Inv
<1> QED
  BY <1>1, EngineInvariant, PTL

-----------------------------------------------------------------------------
(* Arming and the alarms of zones                                           *)

ArmingMoves(a) ==
  accounts'[a].armed # accounts[a].armed \/ accounts'[a].night # accounts[a].night

ZoneAlarmsStay(a) == \A y \in Zones : zones'[<<a, y>>].alarm = zones[<<a, y>>].alarm

(* Either Apply leaves the arming of every account alone, or what it was     *)
(* given moves the arming of its own account; the zones of others stay.      *)
LEMMA ApplyFrame ==
  ASSUME TypeOK, NEW a \in Accounts, NEW z \in Places, NEW acct \in AccountStates,
         NEW zone, NEW direct, Apply(a, z, acct, zone, direct), NEW b \in Accounts,
         \/ acct.armed = accounts[a].armed /\ acct.night = accounts[a].night
         \/ z # NoZone => zone.alarm = zones[<<a, z>>].alarm
  PROVE  ArmingMoves(b) => ZoneAlarmsStay(b)
<1>1. CASE b # a
  <2>1. accounts'[b] = IF accounts[b].known THEN RefreshOnlineLocked(accounts[b])
                       ELSE accounts[b]
    BY <1>1 DEF Apply
  <2> QED
    BY <2>1, RefreshFacts DEF TypeOK, ArmingMoves
<1>2. CASE b = a /\ acct.armed = accounts[a].armed /\ acct.night = accounts[a].night
  <2> DEFINE alarm == RefreshAccountAlarm(a,
                        IF z = NoZone THEN zones ELSE [zones EXCEPT ![<<a, z>>] = zone],
                        direct)
             after == [acct EXCEPT !.known = TRUE, !.alarm = alarm]
  <2>1. after \in AccountStates /\ after.armed = acct.armed /\ after.night = acct.night
    <3>1. alarm \in BOOLEAN
      BY DEF RefreshAccountAlarm
    <3> HIDE DEF alarm
    <3> QED
      BY <3>1 DEF AccountStates
  <2>2. accounts'[a] = RefreshOnlineLocked(after)
    BY DEF Apply
  <2> HIDE DEF after
  <2> QED
    BY <1>2, <2>1, <2>2, RefreshFacts DEF ArmingMoves
<1>3. CASE z # NoZone => zone.alarm = zones[<<a, z>>].alarm
  <2>1. CASE z = NoZone
    BY <2>1 DEF Apply, ZoneAlarmsStay
  <2>2. CASE z # NoZone
    <3>1. zones' = [zones EXCEPT ![<<a, z>>] = zone]
      BY <2>2 DEF Apply
    <3>2. \A y \in Zones : zones'[<<b, y>>] = IF b = a /\ y = z THEN zone
                                              ELSE zones[<<b, y>>]
      BY <2>2, <3>1 DEF TypeOK, Places
    <3> QED
      BY <1>3, <2>2, <3>2 DEF ZoneAlarmsStay
  <2> QED BY <2>1, <2>2
<1> QED
  BY <1>1, <1>2, <1>3

LEMMA EventKeepsAlarms ==
  ASSUME Inv, NEW a \in Accounts, NEW z \in Places, NEW age \in Delays,
         Event(a, z, age), NEW b \in Accounts
  PROVE  ArmingMoves(b) => ZoneAlarmsStay(b)
<1>0. TypeOK /\ ModeAgrees
  BY DEF Inv
<1>1. /\ Account(a, age) \in AccountStates
      /\ Account(a, age).armed = accounts[a].armed
      /\ Account(a, age).night = accounts[a].night
      /\ Younger(Account(a, age).ping, age) \in Ages
  <2>1. accounts[a] \in AccountStates
    BY <1>0 DEF TypeOK
  <2> QED
    BY <1>0, <2>1, AccountFacts DEF Account, AccountStates
<1>2. z # NoZone => Zone(a, z) \in ZoneStates
  BY <1>0 DEF TypeOK, Zone, Places
<1>3. ASSUME NEW acct \in AccountStates, NEW zone, NEW direct,
             Apply(a, z, acct, zone, direct),
             acct.armed = Account(a, age).armed, acct.night = Account(a, age).night
      PROVE  ArmingMoves(b) => ZoneAlarmsStay(b)
  BY <1>0, <1>1, <1>3, ApplyFrame
<1>4. ASSUME NEW acct \in AccountStates, NEW zone, NEW direct,
             Apply(a, z, acct, zone, direct), z # NoZone => zone.alarm = Zone(a, z).alarm
      PROVE  ArmingMoves(b) => ZoneAlarmsStay(b)
  BY <1>0, <1>4, ApplyFrame DEF Zone
<1>5. ASSUME NEW s, AlarmEvent(a, z, s, age) PROVE ArmingMoves(b) => ZoneAlarmsStay(b)
  BY <1>1, <1>3, <1>5 DEF AlarmEvent
<1>6. ASSUME NEW s, RestoreEvent(a, z, s, age) PROVE ArmingMoves(b) => ZoneAlarmsStay(b)
  <2>1. LET acct == RestoreAccount(Account(a, age), s) IN
        /\ acct \in AccountStates
        /\ acct.armed = Account(a, age).armed /\ acct.night = Account(a, age).night
    BY <1>1 DEF RestoreAccount, AccountStates
  <2> QED
    BY <1>3, <1>6, <2>1 DEF RestoreEvent
<1>7. CASE TamperEvent(a, z, age)
  <2>1. LET acct == [Account(a, age) EXCEPT !.tamper = TRUE] IN
        /\ acct \in AccountStates
        /\ acct.armed = Account(a, age).armed /\ acct.night = Account(a, age).night
    BY <1>1 DEF AccountStates
  <2> QED
    BY <1>3, <1>7, <2>1 DEF TamperEvent
<1>8. LET acct == [Account(a, age) EXCEPT !.trouble = TRUE] IN
      /\ acct \in AccountStates
      /\ acct.armed = Account(a, age).armed /\ acct.night = Account(a, age).night
  BY <1>1 DEF AccountStates
<1>9. ASSUME NEW s, TroubleEvent(a, z, s, age) PROVE ArmingMoves(b) => ZoneAlarmsStay(b)
  BY <1>3, <1>8, <1>9 DEF TroubleEvent
<1>10. CASE BypassEvent(a, z, age)
  BY <1>3, <1>8, <1>10 DEF BypassEvent
<1>11. CASE TurnedOffEvent(a, z, age)
  BY <1>1, <1>3, <1>11 DEF TurnedOffEvent
<1>12. ASSUME NEW group \in BOOLEAN, ArmEvent(a, z, group, age)
       PROVE  ArmingMoves(b) => ZoneAlarmsStay(b)
  <2>1. [Account(a, age) EXCEPT !.armed = TRUE, !.night = FALSE, !.partial = group]
          \in AccountStates
    BY <1>1 DEF AccountStates
  <2>2. z # NoZone =>
          [Zone(a, z) EXCEPT !.active = (@ \cup {"arming"}) \ {"night_mode"}].alarm
            = Zone(a, z).alarm
    BY <1>2 DEF ZoneStates
  <2> QED
    BY <1>4, <1>12, <2>1, <2>2 DEF ArmEvent
<1>13. CASE NightEvent(a, z, age)
  <2>1. [Account(a, age) EXCEPT !.armed = TRUE, !.night = TRUE, !.partial = TRUE]
          \in AccountStates
    BY <1>1 DEF AccountStates
  <2>2. z # NoZone =>
          [Zone(a, z) EXCEPT !.active = @ \cup {"arming", "night_mode"}].alarm
            = Zone(a, z).alarm
    BY <1>2 DEF ZoneStates
  <2> QED
    BY <1>4, <1>13, <2>1, <2>2 DEF NightEvent
<1>14. CASE NightOffEvent(a, z, age)
  <2>1. [Account(a, age) EXCEPT !.night = FALSE, !.partial = FALSE] \in AccountStates
    BY <1>1 DEF AccountStates
  <2>2. z # NoZone =>
          [Zone(a, z) EXCEPT !.active = Clear(@, "night_mode")].alarm = Zone(a, z).alarm
    BY <1>2 DEF ZoneStates
  <2> QED
    BY <1>4, <1>14, <2>1, <2>2 DEF NightOffEvent
<1>15. CASE DisarmEvent(a, z, age)
  <2>1. [Account(a, age) EXCEPT !.armed = FALSE, !.night = FALSE, !.partial = FALSE]
          \in AccountStates
    BY <1>1 DEF AccountStates
  <2>2. z # NoZone =>
          [Zone(a, z) EXCEPT !.active = @ \ {"arming", "night_mode", "duress"}].alarm
            = Zone(a, z).alarm
    BY <1>2 DEF ZoneStates
  <2> QED
    BY <1>4, <1>15, <2>1, <2>2 DEF DisarmEvent
<1>16. CASE TestEvent(a, z, age)
  <2>1. LET acct == [Account(a, age) EXCEPT !.ping = Younger(@, age)] IN
        /\ acct \in AccountStates
        /\ acct.armed = Account(a, age).armed /\ acct.night = Account(a, age).night
    BY <1>1 DEF AccountStates
  <2> QED
    BY <1>3, <1>16, <2>1 DEF TestEvent
<1>17. CASE OtherEvent(a, z, age)
  BY <1>1, <1>3, <1>17 DEF OtherEvent
<1> QED
  BY <1>5, <1>6, <1>7, <1>9, <1>10, <1>11, <1>12, <1>13, <1>14, <1>15, <1>16, <1>17
  DEF Event, OtherReport

(* No sequence of arming, night mode and disarming ends the alarm of a zone. *)
THEOREM ArmingEndsNoAlarm == Spec => ArmingKeepsAlarms
<1>1. ASSUME Inv, [Next]_vars, NEW b \in Accounts
      PROVE  ArmingMoves(b) => ZoneAlarmsStay(b)
  <2>1. ASSUME NEW a \in Accounts, NEW z \in Places, NEW age \in Delays,
               Event(a, z, age)
        PROVE  ArmingMoves(b) => ZoneAlarmsStay(b)
    BY <1>1, <2>1, EventKeepsAlarms
  <2>2. CASE RefreshOnline \/ Tick \/ UNCHANGED vars
    BY <2>2 DEF RefreshOnline, Tick, vars, ZoneAlarmsStay
  <2> QED
    BY <1>1, <2>1, <2>2 DEF Next
<1>2. Inv /\ [Next]_vars
        => [\A a \in Accounts :
              accounts'[a].armed # accounts[a].armed \/ accounts'[a].night # accounts[a].night
                => \A z \in Zones : zones'[<<a, z>>].alarm = zones[<<a, z>>].alarm]_vars
  BY <1>1 DEF ArmingMoves, ZoneAlarmsStay
<1> QED
  BY <1>2, EngineInvariant, PTL DEF Spec, ArmingKeepsAlarms

-----------------------------------------------------------------------------
(* The alarms the hub reported                                              *)

(* What is open is what is on, device by device.                             *)
OpenAgrees ==
  \A a \in Accounts :
    /\ \A z \in Zones : <<a, z>> \in open <=> zones[<<a, z>>].alarm
    /\ <<a, NoZone>> \in open <=> a \in directAlarms

(* The effect of an event on its zone and the account's own alarm is that on *)
(* the open alarms, and no other place's changes.                            *)
OpenEffect(a, z, zone, direct) ==
  /\ z # NoZone => (<<a, z>> \in open' <=> zone.alarm)
  /\ <<a, NoZone>> \in open' <=> a \in direct
  /\ \A b \in Accounts, y \in Places :
       <<b, y>> \notin {<<a, z>>, <<a, NoZone>>} => (<<b, y>> \in open' <=> <<b, y>> \in open)
  /\ \A b \in Accounts \ {a} : b \in direct <=> b \in directAlarms

LEMMA ApplyKeepsOpen ==
  ASSUME TypeOK, OpenAgrees, NEW a \in Accounts, NEW z \in Places, NEW acct, NEW zone,
         NEW direct, Apply(a, z, acct, zone, direct), OpenEffect(a, z, zone, direct)
  PROVE  OpenAgrees'
<1>1. directAlarms' = direct
  BY DEF Apply
<1>2. \A b \in Accounts, y \in Zones :
        zones'[<<b, y>>] = IF b = a /\ y = z THEN zone ELSE zones[<<b, y>>]
  BY EngineAssumption DEF TypeOK, Places, Apply
<1>3. ASSUME NEW b \in Accounts, NEW y \in Zones
      PROVE  <<b, y>> \in open' <=> zones'[<<b, y>>].alarm
  <2>1. y \in Places /\ y # NoZone
    BY EngineAssumption DEF Places
  <2>2. CASE b = a /\ y = z
    BY <1>2, <2>1, <2>2 DEF OpenEffect
  <2>3. CASE ~(b = a /\ y = z)
    <3>1. <<b, y>> \in open' <=> <<b, y>> \in open
      BY <2>1, <2>3 DEF OpenEffect
    <3> QED
      BY <1>2, <2>3, <3>1 DEF OpenAgrees
  <2> QED BY <2>2, <2>3
<1>4. ASSUME NEW b \in Accounts PROVE <<b, NoZone>> \in open' <=> b \in direct
  <2>1. CASE b = a
    BY <2>1 DEF OpenEffect
  <2>2. CASE b # a
    <3>1. <<b, NoZone>> \in open' <=> <<b, NoZone>> \in open
      BY <2>2 DEF OpenEffect, Places
    <3> QED
      BY <2>2, <3>1 DEF OpenEffect, OpenAgrees
  <2> QED BY <2>1, <2>2
<1> QED
  BY <1>1, <1>3, <1>4 DEF OpenAgrees

(* What each class does to the alarm of the zone it names.                   *)
LEMMA ZoneAlarms ==
  ASSUME NEW zone \in ZoneStates
  PROVE  /\ \A s \in AlarmSignals : RaiseAlarm(zone, s).alarm
         /\ ~ClearZoneAlarm(zone).alarm
         /\ \A s \in Faults \cup OtherTroubles : Trouble(zone, s).alarm = zone.alarm
         /\ \A s \in AlarmSignals : ~RestoreZone(zone, s).alarm
         /\ \A s \in Faults \cup {"tamper"} : RestoreZone(zone, s).alarm = zone.alarm
         /\ ~ClearZoneAlarm(Trouble(zone, "bypass")).alarm
<1>1. \A s \in AlarmSignals : s # "tamper" /\ s \notin Faults
  BY EngineAssumption
<1>2. \A s \in AlarmSignals : RestoreZone(zone, s) = [ClearZoneAlarm(zone) EXCEPT !.active = Clear(@, s)]
  BY <1>1 DEF RestoreZone
<1>3. \A s \in AlarmSignals : ~RestoreZone(zone, s).alarm
  BY <1>2 DEF ClearZoneAlarm, ZoneStates
<1>4. \A s \in Faults \cup {"tamper"} : RestoreZone(zone, s).alarm = zone.alarm
  BY DEF RestoreZone, ZoneStates
<1>5. Trouble(zone, "bypass").alarm \in BOOLEAN /\ ~ClearZoneAlarm(Trouble(zone, "bypass")).alarm
  BY DEF Trouble, ClearZoneAlarm, ZoneStates
<1>6. \A s \in Faults \cup OtherTroubles : Trouble(zone, s).alarm = zone.alarm
  BY DEF Trouble, ZoneStates
<1> QED
  BY <1>3, <1>4, <1>5, <1>6 DEF RaiseAlarm, ClearZoneAlarm, ZoneStates

LEMMA EventKeepsOpen ==
  ASSUME TypeOK, OpenAgrees, NEW a \in Accounts, NEW z \in Places, NEW age \in Delays,
         Event(a, z, age)
  PROVE  OpenAgrees'
<1>1. /\ <<a, NoZone>> \in open <=> a \in directAlarms
      /\ z # NoZone => (<<a, z>> \in open <=> Zone(a, z).alarm)
      /\ z # NoZone => Zone(a, z) \in ZoneStates
  BY DEF OpenAgrees, TypeOK, Zone, Places
<1>2. ASSUME NEW acct, NEW zone, NEW direct, Apply(a, z, acct, zone, direct),
             OpenEffect(a, z, zone, direct)
      PROVE  OpenAgrees'
  BY <1>2, ApplyKeepsOpen
<1>3. ASSUME NEW acct, NEW zone, Apply(a, z, acct, zone, directAlarms), UNCHANGED open,
             z # NoZone => zone.alarm = Zone(a, z).alarm
      PROVE  OpenAgrees'
  <2>1. OpenEffect(a, z, zone, directAlarms)
    BY <1>1, <1>3 DEF OpenEffect
  <2> QED
    BY <1>2, <1>3, <2>1
<1>4. ASSUME NEW s \in AlarmSignals, AlarmEvent(a, z, s, age), Begins(a, z)
      PROVE  OpenAgrees'
  <2> DEFINE direct == IF z = NoZone THEN directAlarms \cup {a} ELSE directAlarms
  <2>1. OpenEffect(a, z, RaiseAlarm(Zone(a, z), s), direct)
    BY <1>1, <1>4, ZoneAlarms DEF OpenEffect, Begins
  <2>2. Apply(a, z, Account(a, age), RaiseAlarm(Zone(a, z), s), direct)
    BY <1>4 DEF AlarmEvent
  <2> HIDE DEF direct
  <2> QED
    BY <1>2, <2>1, <2>2
<1>5. ASSUME NEW s \in AlarmSignals \cup Faults \cup {"tamper"},
             RestoreEvent(a, z, s, age), Restores(a, z, s)
      PROVE  OpenAgrees'
  <2> DEFINE direct == IF z = NoZone THEN directAlarms \ {a} ELSE directAlarms
  <2>4. OpenEffect(a, z, RestoreZone(Zone(a, z), s), direct)
    <3>1. CASE z = NoZone
      <4>1. open' = open \ {<<a, NoZone>>}
        BY <1>5, <3>1 DEF Restores, Ends
      <4> QED
        BY <3>1, <4>1 DEF OpenEffect
    <3>2. CASE z # NoZone /\ s \in AlarmSignals
      <4>1. open' = open \ {<<a, z>>} /\ ~RestoreZone(Zone(a, z), s).alarm
        BY <1>1, <1>5, <3>2, ZoneAlarms DEF Restores, Ends
      <4> QED
        BY <1>1, <3>2, <4>1 DEF OpenEffect
    <3>3. CASE z # NoZone /\ s \notin AlarmSignals
      <4>1. open' = open /\ RestoreZone(Zone(a, z), s).alarm = Zone(a, z).alarm
        BY <1>1, <1>5, <3>3, ZoneAlarms DEF Restores
      <4> QED
        BY <1>1, <3>3, <4>1 DEF OpenEffect
    <3> QED BY <3>1, <3>2, <3>3
  <2>5. Apply(a, z, RestoreAccount(Account(a, age), s), RestoreZone(Zone(a, z), s), direct)
    BY <1>5 DEF RestoreEvent
  <2> HIDE DEF direct
  <2> QED
    BY <1>2, <2>4, <2>5
<1>6. ASSUME NEW acct, NEW zone, Apply(a, z, acct, zone, directAlarms), EndsDevice(a, z),
             z # NoZone => ~zone.alarm
      PROVE  OpenAgrees'
  <2>1. OpenEffect(a, z, zone, directAlarms)
    BY <1>1, <1>6 DEF OpenEffect, EndsDevice, Ends
  <2> QED
    BY <1>2, <1>6, <2>1
<1>7. ASSUME BypassEvent(a, z, age), EndsDevice(a, z) PROVE OpenAgrees'
  <2>1. z # NoZone => ~ClearZoneAlarm(Trouble(Zone(a, z), "bypass")).alarm
    BY <1>1, ZoneAlarms
  <2> QED
    BY <1>6, <1>7, <2>1 DEF BypassEvent
<1>8. ASSUME TurnedOffEvent(a, z, age), EndsDevice(a, z) PROVE OpenAgrees'
  <2>1. z # NoZone => ~ClearZoneAlarm(Zone(a, z)).alarm
    BY <1>1, ZoneAlarms
  <2> QED
    BY <1>6, <1>8, <2>1 DEF TurnedOffEvent
<1>9. ASSUME DisarmEvent(a, z, age), Ends(a, NoZone) PROVE OpenAgrees'
  <2> DEFINE zone == [Zone(a, z) EXCEPT !.active = @ \ {"arming", "night_mode", "duress"}]
  <2>1. z # NoZone => zone.alarm = Zone(a, z).alarm
    BY <1>1 DEF ZoneStates
  <2>2. Apply(a, z, [Account(a, age) EXCEPT !.armed = FALSE, !.night = FALSE,
                                            !.partial = FALSE],
              zone, directAlarms \ {a})
    BY <1>9 DEF DisarmEvent
  <2> HIDE DEF zone
  <2>3. OpenEffect(a, z, zone, directAlarms \ {a})
    BY <1>1, <1>9, <2>1 DEF OpenEffect, Ends
  <2> QED
    BY <1>2, <2>2, <2>3
<1>10. ASSUME OtherReport(a, z, age), UNCHANGED open PROVE OpenAgrees'
  <2>1. z # NoZone =>
          /\ [Zone(a, z) EXCEPT !.tamper = TRUE, !.active = Set(@, "tamper")].alarm
               = Zone(a, z).alarm
          /\ [Zone(a, z) EXCEPT !.active = (@ \cup {"arming"}) \ {"night_mode"}].alarm
               = Zone(a, z).alarm
          /\ [Zone(a, z) EXCEPT !.active = @ \cup {"arming", "night_mode"}].alarm
               = Zone(a, z).alarm
          /\ [Zone(a, z) EXCEPT !.active = Clear(@, "night_mode")].alarm = Zone(a, z).alarm
          /\ \A s \in Faults \cup OtherTroubles :
               Trouble(Zone(a, z), s).alarm = Zone(a, z).alarm
    BY <1>1, ZoneAlarms DEF ZoneStates
  <2>2. ASSUME TamperEvent(a, z, age) PROVE OpenAgrees'
    BY <1>3, <1>10, <2>1, <2>2 DEF TamperEvent
  <2>3. ASSUME NEW s \in Faults \cup OtherTroubles, TroubleEvent(a, z, s, age)
        PROVE  OpenAgrees'
    BY <1>3, <1>10, <2>1, <2>3 DEF TroubleEvent
  <2>4. ASSUME NEW group \in BOOLEAN, ArmEvent(a, z, group, age) PROVE OpenAgrees'
    BY <1>3, <1>10, <2>1, <2>4 DEF ArmEvent
  <2>5. ASSUME NightEvent(a, z, age) PROVE OpenAgrees'
    BY <1>3, <1>10, <2>1, <2>5 DEF NightEvent
  <2>6. ASSUME NightOffEvent(a, z, age) PROVE OpenAgrees'
    BY <1>3, <1>10, <2>1, <2>6 DEF NightOffEvent
  <2>7. ASSUME TestEvent(a, z, age) \/ OtherEvent(a, z, age) PROVE OpenAgrees'
    BY <1>3, <1>10, <2>7 DEF TestEvent, OtherEvent
  <2> QED
    BY <1>10, <2>2, <2>3, <2>4, <2>5, <2>6, <2>7 DEF OtherReport
<1> QED
  BY <1>4, <1>5, <1>7, <1>8, <1>9, <1>10 DEF Event

(* An account shows an alarm exactly as long as one that the hub reported    *)
(* has not been ended, however the events of its devices overlap.            *)
THEOREM AlarmsFollowReports == Spec => []OpenAlarmsShow
<1>1. Init => OpenAgrees
  <2> SUFFICES ASSUME Init PROVE OpenAgrees
    OBVIOUS
  <2>1. \A a \in Accounts, z \in Zones : ~zones[<<a, z>>].alarm
    BY DEF Init
  <2> QED
    BY <2>1 DEF Init, OpenAgrees
<1>2. Inv /\ OpenAgrees /\ [Next]_vars => OpenAgrees'
  <2> SUFFICES ASSUME Inv, OpenAgrees, [Next]_vars PROVE OpenAgrees'
    OBVIOUS
  <2>1. TypeOK
    BY DEF Inv
  <2>2. ASSUME NEW a \in Accounts, NEW z \in Places, NEW age \in Delays, Event(a, z, age)
        PROVE  OpenAgrees'
    BY <2>1, <2>2, EventKeepsOpen
  <2>3. CASE RefreshOnline \/ Tick \/ UNCHANGED vars
    BY <2>3 DEF RefreshOnline, Tick, vars, OpenAgrees
  <2> QED
    BY <2>2, <2>3 DEF Next
<1>3. Inv /\ OpenAgrees => OpenAlarmsShow
  BY EngineAssumption DEF Inv, AlarmTruth, OpenAgrees, OpenAlarmsShow, Places
<1> QED
  BY <1>1, <1>2, <1>3, EngineInvariant, PTL DEF Spec
=============================================================================
