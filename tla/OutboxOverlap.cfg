\* Two overlapping runs on one event, every fault.
SPECIFICATION Spec
CONSTANTS
  Events <- OneEvent
  Runs = {r1, r2}
  MaxRetries = 2
  BatchSize = 1
  RetryCap = 3
  Faults <- AllFaults
INVARIANTS
  TypeOK
  PublishedWasDelivered
  FailedOnlyWhenExhausted
PROPERTY ImplementsDelivery
CHECK_DEADLOCK FALSE
