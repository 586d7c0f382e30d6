\* The process may map four pages.
SPECIFICATION LiveSpec
CONSTANTS
  Ceiling = 9
  TaskSize = 16
  MinPage = 1
  Foreign = {5}
  Limit = 4
  Relocates = FALSE
  Breaks = {4}
  ChunkDraws = {1, 2}
  Pages44 = 2
  Pages45 = 3
  ChunkLen = 2
  RootLen = 1
  Slots = {1, 2}
  Ops = {"huge"}
  HugeLens = {1}
  MaxItems = 3
PROPERTY CallReturns
