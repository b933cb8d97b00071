SPECIFICATION TickerSpec
CONSTANTS
  Account = Account
  Connections = {c1}
  Zones = {z1}
  MaxEvents = 2
  MaxCatalog = 1
PROPERTIES NeverBack CatchUp
