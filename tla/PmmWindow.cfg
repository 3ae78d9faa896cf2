CONSTANTS
  PAGE = 2
  TOP = 23
  LOW = 2
  KERNEL <- Image
  BITMAP_LEN = 1
  E820 <- WideHole
  MEM_REGIONS_MAX = 3
  NEEDED = 4
SPECIFICATION Spec
CHECK_DEADLOCK FALSE
INVARIANTS FramesExclusive
