CONSTANTS
  PROCS = 4
  THREADS = 5
  MMS = 1
  RR_SCHEDULER_CADENCE = 1
  Sleeps = {}
  Waits <- AnyOr2
  SELFTEST = TRUE
  SIBLINGS = {2}
SPECIFICATION Spec
INVARIANT ThreadsHaveProcess
