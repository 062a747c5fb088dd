SPECIFICATION Spec
CONSTANTS
  NULL = NULL
  s1 = s1
  r1 = r1
  r2 = r2
  Signal = {s1}
  Recv = {r1, r2}
  MaxSlots = 3
  MaxDepth = 2
  Contract = TRUE
  Reentrant = TRUE
PROPERTY ObserverSpec
CHECK_DEADLOCK FALSE
