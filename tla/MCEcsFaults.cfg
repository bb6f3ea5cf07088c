SPECIFICATION Spec
CONSTANTS
  Jobs = {j1}
  Tenants = {t1}
  Owner <- MCOwner
  MaxConcurrentJobs <- MCMaxConcurrentJobs
  MaxDailyJobs <- MCMaxDailyJobs
  Slots = 1
  Daily = 1
  HistoryMax = 1
  LastDay = 0
  MaxReplays = 0
  Attempts = 2
  MaxStalls = 1
  Faults = {"workerCommandError", "persistError", "dispatchAnswerLost", "workerCrash", "taskKilled"}
  Workers = {w1}
  Concurrency = 1
  Backend = "ecs"
  Replayers = {}
INVARIANTS
  NeverOvercounts
  ChargesPerRunner
CHECK_DEADLOCK FALSE
