CONSTANTS
  FRAMES = 7
  VPAGES = 5
  PT_SPAN = 2
  ZEROED = TRUE
  PAGE = 4
  ELEM = 3
  SLOTS = 4
  POOL = 0
  BOOTED = {0}
SPECIFICATION Spec
CHECK_DEADLOCK FALSE
INVARIANTS TypeOK FramesInOnePlace TempPageUnmapped
PROPERTIES NewSlotsMapped
