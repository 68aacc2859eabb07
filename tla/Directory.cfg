\* Two registrations for an address that one of two people in the registry has as well; pages of 2.
SPECIFICATION Spec
CONSTANTS
  Ids = {1, 2, 3, 4}
  People = {2, 3}
  Addresses = {"a", "b"}
  NoAccount = NoAccount
  NoAddress = ""
  Faults = {"store", "crash", "roles"}
  Requests = {r1, r2}
  Stops = {2, 4}
  Changes = {"active"}
  AddressOf <- MCAddressOf
  Registry <- MCRegistry
  Spellings <- MCSpellings
  Lower <- MCLower
  Sizes = {2}
  MaxPage = 2
  Filters = {AnyStatus}
  AnyStatus = AnyStatus
SYMMETRY RequestSymmetry
INVARIANTS
  TypeOK
  OneAccountPerAddress
  CleanRunIsComplete
  NobodyPromoted
  WalkMissesNobody
PROPERTIES ImplementsAddressBook ChangesSurvive
CHECK_DEADLOCK FALSE
