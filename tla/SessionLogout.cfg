\* Three requests, a blacklist that answers late, entries that go early, crashes.
SPECIFICATION Spec
CONSTANTS
  Requests = {r1, r2, r3}
  Operations <- AllOperations
  Singles <- AllSingles
  Life <- Lives
  MaxTime = 3
  MaxTokens = 2
  Faults <- LateAnswers
SYMMETRY RequestSymmetry
PROPERTY RevocationComplete
CHECK_DEADLOCK FALSE
