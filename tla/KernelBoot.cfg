CONSTANTS
  FRAMES = 64
  VPAGES = 192
  PT_SPAN = 8
  ZEROED = TRUE
  PAGE = 4
  ELEM = 3
  SLOTS = 3
  POOL = 160
  BOOTED = {20}
  Reports <- Memory
  CMOS_LOW = 4
  FALLBACK = 64
  LOW = 1
  KSTART = 1
  KPAGES = 2
  BITS = 8
  KBASE = 64
  KVA_BASE = 72
  PWIN = 96
  PWIN_SIZE = 56
  STACK = 176
  STACK_PAGES = 2
  KVA_REGION_MAX = 5
  POOL_PAGES = 2
  STRIDE = 3
  THREAD_SIZE = 3
  PROCESS_SIZE = 2
  MIB = 4
  SCALE_FROM = 40
  MAX_SCALAR = 4
SPECIFICATION BootSpec
CHECK_DEADLOCK FALSE
INVARIANTS BootMapStays WindowReachesFrames FramesHeldOnce RegionsApart ThreadSlotsBacked KernelHalfShared
PROPERTIES NoFrameLost
