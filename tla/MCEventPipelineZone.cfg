SPECIFICATION FairSpec
CONSTANTS
  Account = Account
  Connections = {c1}
  Zones = {z1}
  MaxEvents = 1
  MaxCatalog = 0
PROPERTY ZoneCatchesUp
