\* Three regions of size 2 and a tail of 1: offset 6 is the start of no region.
SPECIFICATION Spec
CONSTANTS
  r1 = r1
  r2 = r2
  r3 = r3
  RegSize = 2
  RunSize = 7
  Gens <- MCGens
  Tags = {0}
  MTE = FALSE
  Keys <- MCKeys3
  MinRegions = 4
SYMMETRY KeySymmetry
INVARIANTS TypeOK IInv CountersAgree ListsAgree EnoughChoice LiveAccepted
PROPERTIES ImplementsHeap FreeAcceptsOnlyLive
