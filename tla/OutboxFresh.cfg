\* Three overlapping runs, an index that never lags, a bus that may refuse.
SPECIFICATION Spec
CONSTANTS
  Events <- TwoEvents
  Runs = {r1, r2, r3}
  MaxRetries = 2
  BatchSize = 2
  RetryCap = 5
  Faults <- BusFaults
INVARIANTS
  RetryOvershootBounded
  DuplicatesBounded
CHECK_DEADLOCK FALSE
