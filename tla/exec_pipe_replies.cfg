SPECIFICATION Spec
CONSTANTS
  e1 = e1
  e2 = e2
  b1 = b1
  b2 = b2
  None = None
  Entity = {e1, e2}
  Buffer = {b1, b2}
  Offered = {"any"}
  MaxRefs = 1
  MaxDepth = 1
SYMMETRY Symmetry
INVARIANTS
  PipeReplies
