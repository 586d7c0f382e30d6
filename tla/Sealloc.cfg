\* Regions of every class and huge mappings; two chunks of two leaves whose ranges
\* overlap in one.
SPECIFICATION Spec
CONSTANTS
  WordBits = 6
  SizeBits = 7
  PAGE_SIZE = 2
  SMALL_SIZE_CLASS_ALIGNMENT = 2
  SMALL_SIZE_MAX_REGION = 2
  MEDIUM_SIZE_MIN_REGION = 4
  LARGE_SIZE_MIN_REGION = 8
  LARGE_SIZE_MAX_REGION = 8
  RUN_SIZE_BYTES = 8
  NO_SMALL_SIZE_CLASSES = 1
  NO_MEDIUM_SIZE_CLASSES = 1
  NO_LARGE_SIZE_CLASSES = 1
  NoBlocks = 2
  MinRegions = 1
  Places <- MCPlaces
  MallocSizes = {7}
  ReallocSizes = {0, 3, 9}
  CallocArgs <- MCCalloc
  Addresses <- MCAddresses
  MaxLive = 4
INVARIANTS MappedExact AcceptsExactly CopyExact
PROPERTY ImplementsAllocator
