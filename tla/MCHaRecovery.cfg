SPECIFICATION FairSpec
CONSTANTS
  MaxConnections = 2
  MaxBirths = 3
INVARIANTS NoLostBirth BirthsReceived
PROPERTIES BirthsServed WorkerEnds
CHECK_DEADLOCK FALSE
