\* Eight blocks; requests that need one, two and four of them.
SPECIFICATION FairSpec
CONSTANTS
  Depth = 3
  LeastSize = 2
  Sizes = {2, 3, 8}
INVARIANTS TypeOK MetadataDisjoint TreeExact FreeMemExact CursorExact
PROPERTIES FailsOnlyIfFull CallReturns
