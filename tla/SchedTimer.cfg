CONSTANTS
  PROCS = 4
  THREADS = 4
  MMS = 1
  RR_SCHEDULER_CADENCE = 1
  Sleeps = {1, 2}
  Waits <- OnlyAny
  SELFTEST = TRUE
  SIBLINGS = {}
SPECIFICATION FairSpec
INVARIANTS SleepqExact
PROPERTIES ReadyThreadsRun WaitReturns
