SPECIFICATION FairSpec
CONSTANTS
  Jobs = {j1}
  Tenants = {t1}
  Owner <- MCOwner
  MaxConcurrentJobs <- MCMaxConcurrentJobs
  MaxDailyJobs <- MCMaxDailyJobs
  Slots = 1
  Daily = 1
  HistoryMax = 1
  LastDay = 0
  MaxReplays = 0
  Attempts = 1
  MaxStalls = 0
  Faults = {}
  Workers = {w1}
  Concurrency = 1
  Backend = "ecs"
  Replayers = {}
PROPERTIES
  Settles
CHECK_DEADLOCK FALSE
