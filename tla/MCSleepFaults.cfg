SPECIFICATION Spec
CONSTANTS
  MaxSnapshots = 2
  Endpoints = {e1}
  Window = 3
  Traffic = TRUE
  Faults = {"snapshotFails", "timeout"}
  Invocations = {i1}
  Hibernation = TRUE
  Retention = 1
  MaxErrors = 1
INVARIANTS
  NothingLost
  RestorePointKept
PROPERTIES
  DeletesOnlyAsleep
