CONSTANTS
  PROCS = 4
  THREADS = 4
  MMS = 4
  RR_SCHEDULER_CADENCE = 2
  Sleeps = {}
  Waits <- AllWaits
  SELFTEST = FALSE
  SIBLINGS = {}
SPECIFICATION Spec
INVARIANTS RunqExact WaitersExact NoLostWakeup NoPanic LoadedSpaceLive ChildListsForest ThreadsHaveProcess
PROPERTIES ImplementsProcLife
