\* Any two requests side by side, every fault.
SPECIFICATION Spec
CONSTANTS
  MaxAttempts = 2
  LockPeriod = 2
  Passwords = {p1, p2}
  FirstPassword = p1
  Salts <- MCSalts
  FirstSalt = s0
  Roles = {admin}
  Requests = {r1, r2}
  Operations <- AllOperations
  Overlap = TRUE
  Wired = {"auth"}
  MaxTime = 2
  TokenLife = 1
  Origins = {"registered", "verified", "migrated"}
  Faults <- FaultKinds
SYMMETRY RequestSymmetry
INVARIANTS
  TypeOK
  StoredItemConsistent
  PasswordChangeIsRecorded
CHECK_DEADLOCK FALSE
