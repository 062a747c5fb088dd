SPECIFICATION Spec
CONSTANTS
  a1 = a1
  b1 = b1
  b2 = b2
  x = x
  y = y
  zero = zero
  junk = junk
  Items = {a1}
  Buffers = {b1, b2}
  Width = 2
  W = 4
  Heap = 6
  Value = {x, y}
  Zero = zero
  Junk = junk
  Lengths <- AskedFor
  MaxText = 1
  MaxRefs = 2
SYMMETRY Symmetry
INVARIANTS
  TypeOK
  InBounds
  CountExact
PROPERTY ActsAsList
