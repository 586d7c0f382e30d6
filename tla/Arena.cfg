\* Every call, in an address space with room for few; the kernel may refuse or move
\* a mapping, and the program break is drawn again.
SPECIFICATION Spec
CONSTANTS
  Ceiling = 6
  TaskSize = 6
  MinPage = 1
  Foreign = {3}
  Limit = 5
  Relocates = TRUE
  Breaks = {1}
  ChunkDraws = {1}
  Pages44 = 2
  Pages45 = 3
  ChunkLen = 2
  RootLen = 1
  Slots = {1, 2}
  Ops = {"chunk", "run", "huge", "realloc"}
  HugeLens = {0, 1, 2}
  MaxItems = 2
INVARIANTS TypeOK MappedExact KeysUnique MetadataExact
