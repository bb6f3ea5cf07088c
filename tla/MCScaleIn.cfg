SPECIFICATION ScaledSpec
CONSTANTS
  EmptyPeriods = 2
  ListenersEnd = FALSE
  TimeLimit = 2
  Plans = {1, 2}
  Lingering = TRUE
  Jobs = {j1, j2}
  Tenants = {t1}
  Owner <- MCOwner
  MaxConcurrentJobs <- MCMaxConcurrentJobs
  MaxDailyJobs <- MCMaxDailyJobs
  Slots = 2
  Daily = 2
  HistoryMax = 2
  LastDay = 0
  MaxReplays = 0
  Attempts = 1
  MaxStalls = 0
  Faults = {}
  Workers = {w1}
  Concurrency = 1
  Backend = "ecs"
  Replayers = {}
INVARIANTS
  ExhaustedIsDeadLettered
ACTION_CONSTRAINT ShortListeners
CHECK_DEADLOCK FALSE
