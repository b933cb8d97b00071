SPECIFICATION FairSpec
CONSTANTS
  a1 = a1
  detector = detector
  keypad = keypad
  NoZone = NoZone
  Accounts = {a1}
  Zones = {detector, keypad}
  AlarmSignals = {"fire", "duress"}
  Faults = {"bypass", "battery"}
  OtherTroubles = {}
  Reports <- Installation
  MaxDelay = 1
  Grace = 0
INVARIANTS OpenAlarmsShow AlarmSignalOn ModeAgrees
PROPERTIES ArmingKeepsAlarms SilenceShows
