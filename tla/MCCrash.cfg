SPECIFICATION BurstSpec
CONSTANTS
  BurstJobs = {j1, j2}
  BatchSize = 1
  BurstFaults = {"commandError", "crash"}
  Jobs = {j1, j2}
  Tenants = {t1}
  Owner <- MCOwner
  MaxConcurrentJobs <- MCMaxConcurrentJobs
  MaxDailyJobs <- MCMaxDailyJobs
  Slots = 1
  Daily = 1
  HistoryMax = 2
  LastDay = 0
  MaxReplays = 0
  Attempts = 1
  MaxStalls = 1
  Faults = {"workerCrash"}
  Workers = {w1}
  Concurrency = 2
  Backend = "local"
  Replayers = {}
INVARIANTS
  DriftBounded
  ChargesBounded
  BurstSlotsHaveOwners
SYMMETRY JobSymmetry
CHECK_DEADLOCK FALSE
