CONSTANTS
  PAGE = 2
  TOP = 23
  LOW = 2
  KERNEL <- Image
  BITMAP_LEN = 1
  E820 <- NoHoles
  MEM_REGIONS_MAX = 3
  NEEDED = 16
SPECIFICATION Spec
CHECK_DEADLOCK FALSE
INVARIANTS AvailableExact WithinBitmap
