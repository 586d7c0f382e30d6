\* Four regions of size 3 and a tail of 2 whose bitmap item run_init does not clear.
SPECIFICATION Spec
CONSTANTS
  r1 = r1
  r2 = r2
  r3 = r3
  RegSize = 3
  RunSize = 14
  Gens <- MCGens
  Tags = {0}
  MTE = FALSE
  Keys <- MCKeys1
  MinRegions = 1
PROPERTY FreeAcceptsOnlyLive
