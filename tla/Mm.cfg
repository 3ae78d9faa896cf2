CONSTANTS
  FRAMES = 19
  MMS = 4
  VMAS = 7
  PROCS = 3
  USER_PAGES = 4
  PT_SPAN = 2
  LAYOUT <- CodeThenStack
SPECIFICATION Spec
CHECK_DEADLOCK FALSE
INVARIANTS FramesAccounted SlotsAccounted SpacesDescribed
PROPERTIES SpacesIsolated
