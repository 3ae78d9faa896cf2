CONSTANTS
  PROCS = 4
  THREADS = 5
  MMS = 1
  RR_SCHEDULER_CADENCE = 1
  Sleeps = {}
  Waits <- OnlyAny
  SELFTEST = TRUE
  SIBLINGS = {1}
SPECIFICATION Spec
INVARIANTS LiveCountExact
