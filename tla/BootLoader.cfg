CONSTANTS
  Setups <- Everything
  SECTORS_PER_TRACK = 5
  FLOPPY_HEADS = 2
  BYTES_PER_SECTOR = 4
  ENTRIES_PER_SECTOR = 4
  STAGE2_RESERVED_SECTORS = 2
  FAT_COUNT = 2
  SECTORS_PER_FAT = 4
  ROOT_DIR_SECTORS = 2
  SECTORS_PER_CLUSTER = 1
  SIZE_WORD = 8
  MEM_WORD = 1024
  MIB = 16
  CMOS_LOW = 16
  FALLBACK = 128
  KPARAMS_MAX_LEN = 5
  E820_MAX = 3
  maxRetry = 3
SPECIFICATION Spec
INVARIANTS HandoffContract IntactDiskBoots MemoryNotOverstated KparamsFaithful
PROPERTIES BootEnds
