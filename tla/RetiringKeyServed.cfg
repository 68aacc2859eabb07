\* One rotation, one instance: the key set lacks the retiring key.
SPECIFICATION Spec
CONSTANTS
  Keys = {k1, k2}
  FirstKey = k1
  None = None
  Instances = {i1}
  Consumers = {c1}
  Types <- BothTypes
  Life <- Lives
  MaxWarm = 1
  CacheAge = 1
  Overlap = 2
  MaxTime = 6
INVARIANTS
  ServedKeysVerify
CHECK_DEADLOCK FALSE
