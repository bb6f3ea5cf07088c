SPECIFICATION AnalysisSpec
CONSTANTS
  Calls = 2
  Jobs = {j1}
  Tenants = {t1}
  Owner <- MCOwner
  MaxConcurrentJobs <- MCMaxConcurrentJobs
  MaxDailyJobs <- MCMaxDailyJobs
  Slots = 1
  Daily = 2
  HistoryMax = 2
  LastDay = 0
  MaxReplays = 2
  Attempts = 2
  MaxStalls = 0
  Faults = {"replayError", "replayCrash"}
  Workers = {w1}
  Concurrency = 1
  Backend = "local"
  Replayers = {p1, p2}
INVARIANTS
  ExhaustedIsDeadLettered
  ExplainsTheVerdict
SYMMETRY ReplayerSymmetry
CHECK_DEADLOCK FALSE
