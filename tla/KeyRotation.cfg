\* Two instances and two rotations; the overlap is just long enough for access tokens.
SPECIFICATION Spec
CONSTANTS
  Keys = {k1, k2, k3}
  FirstKey = k1
  None = None
  Instances = {i1, i2}
  Consumers = {c1}
  Types <- BothTypes
  Life <- Lives
  MaxWarm = 1
  CacheAge = 1
  Overlap = 2
  MaxTime = 6
SYMMETRY RotationSymmetry
INVARIANTS
  TypeOK
  LiveTokensVerify
  KeysDieOut
CHECK_DEADLOCK FALSE
