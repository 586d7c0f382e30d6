\* Two lists, four items, five keys.
SPECIFICATION Spec
CONSTANTS
  Items = {i1, i2, i3, i4}
  Heads = {h1, h2}
  Keys = {k1, k2, k3, k4, k5}
  NULL = NULL
SYMMETRY Symmetry
INVARIANTS TypeOK LinksExact
PROPERTY ImplementsIndex
