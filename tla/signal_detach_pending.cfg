SPECIFICATION Spec
CONSTANTS
  NULL = NULL
  s1 = s1
  r1 = r1
  r2 = r2
  Signal = {s1}
  Recv = {r1, r2}
  MaxSlots = 3
  MaxDepth = 1
  Contract = FALSE
  Reentrant = FALSE
INVARIANT NoHoleCalled
CHECK_DEADLOCK FALSE
