SPECIFICATION WatchSpec
CONSTANTS
  Watched = {j1}
  WatchFaults = {"answerLost", "snapshotFails", "streamDrops", "pollRefused", "pollThrows"}
  MaxPolls = 1
  Actions = {j1, a1}
  WakeTimeout = 12
  LeaseRefresh = 4
  MaxAttempts = 4
  InitialPoll = 1
  MaxPoll = 4
  RequestTimeout = 2
  WakeFaults = {"transient", "unauthorized"}
  Jobs = {j1, j2}
  Tenants = {t1}
  Owner <- MCOwner
  MaxConcurrentJobs <- MCMaxConcurrentJobs
  MaxDailyJobs <- MCMaxDailyJobs
  Slots = 1
  Daily = 1
  HistoryMax = 1
  LastDay = 1
  MaxReplays = 0
  Attempts = 2
  MaxStalls = 0
  Faults = {"apiCommandError"}
  Workers = {w1}
  Concurrency = 2
  Backend = "local"
  Replayers = {}
INVARIANTS
  TypeOK
  
  QuotaExact
  ConcurrentRuns
  DailyExact
  RetryingIsPending
  ChargedForResult
  NoAcceptedJobLost
  KeepsTime
  Patient
PROPERTIES
  TerminalIsFinal
  ImplementsService
  WatchEnds
  SlotsReturn
  Answered
CHECK_DEADLOCK FALSE
