SPECIFICATION PipelineSpec
CONSTANTS
  TimeLimit = 2
  Plans = {1, 2}
  Lingering = TRUE
  Jobs = {j1}
  Tenants = {t1}
  Owner <- MCOwner
  MaxConcurrentJobs <- MCMaxConcurrentJobs
  MaxDailyJobs <- MCMaxDailyJobs
  Slots = 1
  Daily = 1
  HistoryMax = 1
  LastDay = 0
  MaxReplays = 0
  Attempts = 1
  MaxStalls = 0
  Faults = {}
  Workers = {w1}
  Concurrency = 1
  Backend = "ecs"
  Replayers = {}
INVARIANTS
  VerdictInTime
CHECK_DEADLOCK FALSE
