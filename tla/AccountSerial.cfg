\* Four requests one after another on an account of any origin, while the lock comes and goes.
SPECIFICATION Spec
CONSTANTS
  MaxAttempts = 2
  LockPeriod = 1
  Passwords = {p1, p2}
  FirstPassword = p1
  Salts <- MCSalts
  FirstSalt = s0
  Roles = {admin}
  Requests = {r1, r2, r3, r4}
  Operations <- Deciding
  Overlap = FALSE
  Wired = {"auth"}
  MaxTime = 3
  TokenLife = 1
  Origins = {"registered", "verified", "migrated"}
  Faults = {"page"}
SYMMETRY RequestSymmetry
INVARIANTS
  GuessesBounded
  FailuresLock
PROPERTIES
  NothingUndone
  ImplementsLoginLock
CHECK_DEADLOCK FALSE
