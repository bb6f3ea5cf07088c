SPECIFICATION ScaledSpec
CONSTANTS
  EmptyPeriods = 2
  ListenersEnd = TRUE
  TimeLimit = 2
  Plans = {1, 2}
  Lingering = TRUE
  Jobs = {j1}
  Tenants = {t1}
  Owner <- MCOwner
  MaxConcurrentJobs <- MCMaxConcurrentJobs
  MaxDailyJobs <- MCMaxDailyJobs
  Slots = 1
  Daily = 1
  HistoryMax = 1
  LastDay = 0
  MaxReplays = 0
  Attempts = 3
  MaxStalls = 0
  Faults = {"apiCommandError", "apiCrash", "rollbackError"}
  Workers = {w1}
  Concurrency = 2
  Backend = "ecs"
  Replayers = {}
INVARIANTS
  
  OneCustodian
  
  RefusalLeavesNothing
  SuccessIsEarned
  TimeLimitKept
PROPERTIES
  
  FleetSleeps
CHECK_DEADLOCK FALSE
