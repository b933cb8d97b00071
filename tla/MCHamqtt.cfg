SPECIFICATION FairSpec
CONSTANTS
  e1 = e1
  v1 = v1
  v2 = v2
  live = live
  replay = replay
  None = None
  Entities = {e1}
  NumParts = 1
  Values = {v1, v2}
  LiveCallers = {live}
  Replayers = {replay}
  MaxRevision = 3
  MaxPipe = 1
INVARIANTS TypeOK CacheHonest ReplayHeals
PROPERTIES ReplicaSpec JobsEnd
