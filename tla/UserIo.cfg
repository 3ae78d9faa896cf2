CONSTANTS
  ADDR = 32
  PAGE = 4
  KBASE = 24
  MAX_MAPPED = 12
  COPYIN_BUF_SIZE = 4
  EXEC_PATH_MAX = 3
  SIZEOF_INT = 2
  ALLOWED <- MCALLOWED
  Images <- MCImages
  ExecImage <- Program
  Targets <- MCTargets
  MAX_OFFSET = 63
  OFFSET_BOUND = 8
  Lens = {0, 1, 4, 5, 8, 9, 31}
  Children = {1}
  Statuses <- MCStatuses
SPECIFICATION Spec
INVARIANTS WriteIsPrefix BlocksInSpan WritesComplete PathCopied StatusDelivered
PROPERTIES CopiesStayInside
