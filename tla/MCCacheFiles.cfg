SPECIFICATION Spec
CONSTANTS
  w1 = w1
  w2 = w2
  NoDevice = NoDevice
  None = None
  Torn = Torn
  Kinds = {"jeedom", "catalog", "settings"}
  Writers = {w1, w2}
  Zones = {"z"}
  Devices = {"d1", "d2"}
  Lists <- MCLists
  MaxChanges = 4
  MaxFailures = 2
  MaxCrashes = 2
CHECK_DEADLOCK FALSE
INVARIANTS TypeOK LossOnlyInGap FileIsMemory OneEntry
PROPERTY DurableSpec
