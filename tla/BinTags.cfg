\* Memory tagging on, two runs of three regions, four tags: the middle region may be
\* allocated between two others, and then one tag is left.
SPECIFICATION Spec
CONSTANTS
  r1 = r1
  r2 = r2
  r3 = r3
  RegSize = 1
  RunSize = 3
  Gens <- MCGens
  Tags = {0, 1, 2, 3}
  MTE = TRUE
  Keys <- MCKeys2
  MinRegions = 2
SYMMETRY KeySymmetry
INVARIANT AdjacentTagsDiffer
PROPERTY SuppliedOnce
