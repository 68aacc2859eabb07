\* Progress past a failing head of the queue.
SPECIFICATION FairSpec
CONSTANTS
  Events <- TwoEvents
  Runs = {r1}
  MaxRetries = 1
  BatchSize = 1
  RetryCap = 1
  Faults <- AllFaults
PROPERTY EventuallySettled
CHECK_DEADLOCK FALSE
