\* Two requests and two sessions, with failing calls and crashes.
SPECIFICATION Spec
CONSTANTS
  Requests = {r1, r2}
  Operations <- AllOperations
  Singles <- ResetTokens
  Life <- Lives
  MaxTime = 3
  MaxTokens = 4
  Faults <- CallFaults
SYMMETRY RequestSymmetry
INVARIANT TypeOK
PROPERTIES
  RevokedStaysOut
  EndedForGood
CHECK_DEADLOCK FALSE
