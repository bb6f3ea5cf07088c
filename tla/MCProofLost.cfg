SPECIFICATION TimelySpec
CONSTANTS
  MaxSnapshots = 4
  Endpoints = {e1}
  Window = 3
  Traffic = FALSE
  Faults = {}
  Invocations = {i1}
  Hibernation = TRUE
  Retention = 2
  MaxErrors = 1
PROPERTIES
  SleepsWhenUnused
