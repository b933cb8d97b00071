SPECIFICATION FairSpec
CONSTANTS
  c1 = c1
  c2 = c2
  g1 = g1
  g2 = g2
  None = None
  Conns = {c1, c2}
  Targets = {g1, g2}
  RequireACK = TRUE
  StrictCRC = TRUE
  Damages <- MCDamages
  MaxEvents = 3
  MaxTroubles = 2
CHECK_DEADLOCK FALSE
INVARIANTS TypeOK AckedIsDone FirstInOrder
PROPERTIES EventsAcked DeliverySpec
