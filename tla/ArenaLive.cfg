\* As on Linux the last page below the ceiling cannot be mapped.  The break is drawn
\* anew until it has 44 bits; the pages below that have room for every call.
SPECIFICATION LiveSpec
CONSTANTS
  Ceiling = 8
  TaskSize = 7
  MinPage = 1
  Foreign = {3}
  Limit = 7
  Relocates = FALSE
  Breaks = {1}
  ChunkDraws = {0, 1, 2}
  Pages44 = 5
  Pages45 = 6
  ChunkLen = 2
  RootLen = 1
  Slots = {1, 2}
  Ops = {"chunk", "huge", "realloc"}
  HugeLens = {1, 2}
  MaxItems = 1
PROPERTY ReturnsOrUnmappable
