CONSTANTS
  Procs = {p1, p2, p3, p4}
  FD_SLOTS = 8
SPECIFICATION Spec
CHECK_DEADLOCK FALSE
INVARIANTS RefcountExact EntriesOwnedOnce DescriptorsInherited
