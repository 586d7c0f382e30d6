\* Eight blocks, four levels, runs of one, two and four blocks.
SPECIFICATION Spec
CONSTANTS
  Depth = 3
  LeafSize = 4
  RegSizes = {1, 4, 8, 16}
  Threshold = 25
  MaxMarked = 2
INVARIANTS TypeOK ListsExact MappedExact LookupExact GoneWhenUnmapped
PROPERTY ImplementsRunSpace
