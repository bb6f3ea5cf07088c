SPECIFICATION Spec
CONSTANTS
  MaxSnapshots = 2
  Endpoints = {e1, e2}
  Window = 2
  Traffic = TRUE
  Faults = {"longTask", "maintenance"}
  Invocations = {i1}
  Hibernation = TRUE
  Retention = 1
  MaxErrors = 0
INVARIANTS
  TypeOK
  NothingLost
  GoneOnlyWhenUnused
  ApiHasItsCache
