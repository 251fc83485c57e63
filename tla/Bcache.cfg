SPECIFICATION Spec
CONSTANTS
  Procs = {p1, p2}
  Bufs = {b1, b2, b3}
  Blocks = {k1, k2, k3, k4}
  Data = {x, y}
  NULL = NULL
  MaxPins = 1
SYMMETRY Symmetry
INVARIANTS BuffersOwned
PROPERTIES ImplementsStore
