\* A deactivation whose event the bus refuses.
SPECIFICATION FairSpec
CONSTANTS
  MaxAttempts = 2
  LockPeriod = 2
  Passwords = {p1, p2}
  FirstPassword = p1
  Salts <- MCSalts
  FirstSalt = s0
  Roles = {admin}
  Requests = {r1, r2}
  Operations <- Deactivating
  Overlap = FALSE
  Wired = {"auth"}
  MaxTime = 1
  TokenLife = 1
  Origins = {"registered", "verified"}
  Faults <- BusFaults
PROPERTY DeactivationAnnounced
CHECK_DEADLOCK FALSE
