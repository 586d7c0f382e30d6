\* The real size classes and generators.
SPECIFICATION Spec
CONSTANTS
  WordBits = 24
  SizeBits = 28
  PAGE_SIZE = 4096
  SMALL_SIZE_CLASS_ALIGNMENT = 16
  SMALL_SIZE_MAX_REGION = 512
  MEDIUM_SIZE_MIN_REGION = 1024
  LARGE_SIZE_MIN_REGION = 16384
  LARGE_SIZE_MAX_REGION = 1048576
  RUN_SIZE_BYTES = 16384
  NO_SMALL_SIZE_CLASSES = 32
  NO_MEDIUM_SIZE_CLASSES = 4
  NO_LARGE_SIZE_CLASSES = 7
  MallocSizes <- MCSizes
  Draws = {0, 1023}
  ReallocSizes <- MCNonZero
INVARIANTS LeastClass BinExact RunFits LookupExact VisitsAll
